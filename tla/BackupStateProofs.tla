------------------------- MODULE BackupStateProofs -------------------------
(***************************************************************************)
(* Theorems about BackupState, for any set of processes and master keys,   *)
(* any retention, any kits another installation left, and any values of    *)
(* the bounds on generations, snapshots and imports.                       *)
(***************************************************************************)
EXTENDS BackupState, FiniteSetTheorems, TLAPS

USE ConstantsAssumption, NoneAssumption

-----------------------------------------------------------------------------
(* The lock.  Only the process that holds backup.lock is inside a command, *)
(* and the locals its steps read are set.                                  *)

LockHeld == \A p \in Procs : pc[p] # "idle" => lock = p

LocalsSet(p) ==
    /\ pc[p] \in {"cache", "unlock_store", "unlock_clear"} => masterKey[p] \in Keys
    /\ pc[p] = "load" => keyfile \in Keys /\ ~marker
    /\ pc[p] \in BackupPC => snap[p] \in Snapshot /\ keyfile \in Keys
    /\ pc[p] \in {"push"} \cup KeepPC \cup PutPC => kit[p] \in Kit

TypeInv == TypeOK /\ LockHeld /\ \A p \in Procs : LocalsSet(p)

(* What every step that ends a command, moves on within it or starts one   *)
(* leaves: the other processes are idle before and after.                  *)
ControlTyped ==
    /\ lock' \in Procs \cup {None}
    /\ pc' \in [Procs -> PC]
    /\ masterKey' \in [Procs -> Keys \cup {None}]
    /\ snap' \in [Procs -> Snapshot \cup {None}]
    /\ kit' \in [Procs -> Kit \cup {None}]

OnlyAt(p, l) == \A q \in Procs : pc'[q] = IF q = p THEN l ELSE "idle"

LEMMA OthersIdle ==
    ASSUME TypeInv, NEW p \in Procs, pc[p] # "idle"
    PROVE  lock = p /\ \A q \in Procs \ {p} : pc[q] = "idle"
  BY DEF TypeInv, LockHeld

LEMMA ExitControl ==
    ASSUME TypeInv, NEW p \in Procs, pc[p] # "idle", Exit(p)
    PROVE  ControlTyped /\ LockHeld' /\ OnlyAt(p, "idle")
  BY OthersIdle DEF TypeInv, TypeOK, LockHeld, Exit, Goto, ControlTyped, OnlyAt, PC

LEMMA GotoControl ==
    ASSUME TypeInv, NEW p \in Procs, pc[p] # "idle", NEW l \in PC, Goto(p, l),
           UNCHANGED lock
    PROVE  /\ lock' \in Procs \cup {None}
           /\ pc' \in [Procs -> PC]
           /\ LockHeld'
           /\ OnlyAt(p, l)
  BY OthersIdle DEF TypeInv, TypeOK, LockHeld, Goto, OnlyAt

LEMMA StepControl ==
    ASSUME TypeInv, NEW p \in Procs, NEW from \in PC \ {"idle"}, NEW to \in PC,
           Step(p, from, to)
    PROVE  ControlTyped /\ LockHeld' /\ OnlyAt(p, to) /\ pc[p] # "idle"
  BY GotoControl DEF TypeInv, TypeOK, ControlTyped, Step, At, locals

LEMMA EnterControl ==
    ASSUME TypeInv, NEW p \in Procs, NEW l \in PC, Enter(p, l)
    PROVE  /\ lock' \in Procs \cup {None}
           /\ pc' \in [Procs -> PC]
           /\ LockHeld'
           /\ OnlyAt(p, l)
           /\ \A q \in Procs : pc[q] = "idle"
  BY DEF TypeInv, TypeOK, LockHeld, Enter, Goto, OnlyAt

-----------------------------------------------------------------------------
(* Type correctness.                                                       *)

LEMMA TypeInvInit == Init => TypeInv
  <1> SUFFICES ASSUME Init PROVE TypeInv
    OBVIOUS
  <1>1. IsFiniteSet({})
    BY FS_EmptySet
  <1>2. EmptyDir \in Saved
    BY DEF EmptyDir, Saved
  <1>3. kits \subseteq Kit
    BY DEF Init
  <1> QED
    BY <1>1, <1>2, <1>3 DEF Init, TypeInv, TypeOK, LockHeld, LocalsSet, EmptyDir, Status, PC,
       BackupPC, KeepPC, PutPC

LEMMA TypeInvNext == TypeInv /\ [Next]_vars => TypeInv'
  <1> SUFFICES ASSUME TypeInv, [Next]_vars PROVE TypeInv'
    OBVIOUS
  <1> USE DEF TypeInv
  <1>1. ASSUME NEW p \in Procs, CmdInit(p) PROVE TypeInv'
    BY <1>1, EnterControl DEF CmdInit, TypeOK, LocalsSet, OnlyAt, PC, BackupPC, KeepPC, PutPC, UndoPC,
       disk, aside, remote, ghosts
  <1>2. ASSUME NEW p \in Procs, CmdRotatePassphrase(p) PROVE TypeInv'
    BY <1>2, EnterControl DEF CmdRotatePassphrase, TypeOK, LocalsSet, OnlyAt, PC, BackupPC, KeepPC, PutPC, UndoPC,
       disk, aside, remote, ghosts
  <1>3. ASSUME NEW p \in Procs, CmdUnlock(p) PROVE TypeInv'
    BY <1>3, EnterControl DEF CmdUnlock, TypeOK, LocalsSet, OnlyAt, PC, BackupPC, KeepPC, PutPC, UndoPC,
       disk, aside, remote, ghosts
  <1>4. ASSUME NEW p \in Procs, CmdBackup(p) PROVE TypeInv'
    BY <1>4, EnterControl DEF CmdBackup, TypeOK, LocalsSet, OnlyAt, PC, BackupPC, KeepPC, PutPC, UndoPC,
       disk, aside, remote, locals, ghosts
  <1>4a. ASSUME NEW p \in Procs, LoadKey(p) PROVE TypeInv'
    <2>1. CASE Exit(p) /\ UNCHANGED nextSerial
      BY <1>4a, <2>1, ExitControl DEF LoadKey, At, ControlTyped, OnlyAt, TypeOK, LocalsSet, BackupPC,
         KeepPC, PutPC, UndoPC, disk, aside, remote, ghosts
    <2>2. CASE ~(Exit(p) /\ UNCHANGED nextSerial)
      <3>1. PICK g \in 1..MaxGen : snap' = [snap EXCEPT ![p] =
                                     [gen |-> g, key |-> keyring, serial |-> nextSerial]]
        BY <1>4a, <2>2 DEF LoadKey
      <3>2. /\ pc[p] = "load" /\ keyring # None /\ nextSerial' = nextSerial + 1
            /\ Goto(p, "link") /\ UNCHANGED <<lock, masterKey, kit>>
        BY <1>4a, <2>2 DEF LoadKey, At
      <3>3. [gen |-> g, key |-> keyring, serial |-> nextSerial] \in Snapshot
        BY <3>2 DEF TypeOK, Snapshot
      <3> QED
        BY <1>4a, <3>1, <3>2, <3>3, GotoControl DEF LoadKey, TypeOK, LocalsSet, OnlyAt,
           PC, BackupPC, KeepPC, PutPC, UndoPC, disk, aside, remote, ghosts
    <2> QED
      BY <2>1, <2>2
  <1>5. ASSUME NEW p \in Procs, CmdImport(p) PROVE TypeInv'
    <2>1. PICK l \in {"keep_keyfile", "put_snapshots"} : Enter(p, l)
      BY <1>5 DEF CmdImport
    <2>2. PICK k \in kits : kit' = [kit EXCEPT ![p] = k]
      BY <1>5 DEF CmdImport
    <2> QED
      BY <1>5, <2>1, <2>2, EnterControl DEF CmdImport, TypeOK, LocalsSet, OnlyAt,
         PC, BackupPC, KeepPC, PutPC, UndoPC, disk, aside, remote, ghosts
  <1>6. ASSUME NEW p \in Procs, CacheKey(p) PROVE TypeInv'
    BY <1>6, ExitControl DEF CacheKey, At, ControlTyped, OnlyAt, TypeOK, LocalsSet, BackupPC,
       KeepPC, PutPC, UndoPC, disk, aside, remote, ghosts
  <1>7. ASSUME NEW p \in Procs, UnlockStore(p) PROVE TypeInv'
    <2>1. CASE Step(p, "unlock_store", "unlock_clear") /\ keyring' = masterKey[p]
      BY <1>7, <2>1, StepControl DEF UnlockStore, Step, At, locals, ControlTyped, OnlyAt, TypeOK,
         LocalsSet, PC, BackupPC, KeepPC, PutPC, UndoPC, disk, aside, remote, ghosts
    <2>2. CASE At(p, "unlock_store") /\ Exit(p) /\ UNCHANGED keyring
      BY <1>7, <2>2, ExitControl DEF UnlockStore, At, ControlTyped, OnlyAt, TypeOK, LocalsSet,
         BackupPC, KeepPC, PutPC, disk, aside, remote, ghosts
    <2> QED
      BY <1>7, <2>1, <2>2 DEF UnlockStore
  <1>8. ASSUME NEW p \in Procs, UnlockClear(p) PROVE TypeInv'
    BY <1>8, ExitControl DEF UnlockClear, At, ControlTyped, OnlyAt, TypeOK, LocalsSet, BackupPC,
       KeepPC, PutPC, UndoPC, disk, aside, remote, ghosts
  <1>9. ASSUME NEW p \in Procs, LinkSnapshot(p) PROVE TypeInv'
    <2>1. IsFiniteSet(snapshots \cup {snap[p]})
      BY FS_AddElement DEF TypeOK
    <2> QED
      BY <1>9, <2>1, StepControl DEF LinkSnapshot, Step, At, locals, ControlTyped, OnlyAt, TypeOK,
         LocalsSet, PC, BackupPC, KeepPC, PutPC, UndoPC, disk, aside, remote, ghosts
  <1>10. ASSUME NEW p \in Procs, SaveHead(p) PROVE TypeInv'
    <2>1. snap[p] \in Snapshot
      BY <1>10 DEF SaveHead, Step, At, LocalsSet, BackupPC
    <2>a. ControlTyped /\ LockHeld' /\ OnlyAt(p, "rotate")
      BY <1>10, StepControl DEF SaveHead, PC, BackupPC, KeepPC, PutPC, UndoPC
    <2>b. TypeOK'
      BY <1>10, <2>a, <2>1, FS_EmptySet DEF SaveHead, TypeOK, ControlTyped, disk, aside, remote, ghosts
    <2>c. \A q \in Procs : LocalsSet(q)'
      BY <1>10, <2>a DEF SaveHead, OnlyAt, LocalsSet, Step, At, locals, disk, BackupPC, KeepPC,
         PutPC, UndoPC
    <2> QED
      BY <2>a, <2>b, <2>c
  <1>11. ASSUME NEW p \in Procs, BackupFail(p) PROVE TypeInv'
    BY <1>11, ExitControl DEF BackupFail, At, ControlTyped, OnlyAt, TypeOK, LocalsSet, BackupPC,
       KeepPC, PutPC, UndoPC, disk, aside, remote, ghosts
  <1>12. ASSUME NEW p \in Procs, RotateOldest(p) PROVE TypeInv'
    <2>1. \A s : IsFiniteSet(snapshots \ {s})
      BY FS_RemoveElement DEF TypeOK
    <2>2. snapshots' \subseteq snapshots /\ IsFiniteSet(snapshots')
      BY <1>12, <2>1 DEF RotateOldest
    <2>3. UNCHANGED <<keyfile, head, marker, aside, keyring, remote, lock, pc, locals, nextSerial, ghosts>>
      BY <1>12 DEF RotateOldest
    <2>4. TypeOK'
      BY <2>2, <2>3 DEF TypeOK, locals, aside, remote, ghosts
    <2>5. LockHeld' /\ \A q \in Procs : LocalsSet(q)'
      BY <2>3 DEF LockHeld, LocalsSet, locals
    <2> QED
      BY <2>4, <2>5
  <1>13. ASSUME NEW p \in Procs, FinishRotation(p) PROVE TypeInv'
    <2>1. CASE Step(p, "rotate", "stage")
      BY <1>13, <2>1, StepControl DEF FinishRotation, Step, At, locals, ControlTyped, OnlyAt, TypeOK,
         LocalsSet, PC, BackupPC, KeepPC, PutPC, UndoPC, disk, aside, remote, ghosts
    <2>2. CASE At(p, "rotate") /\ Exit(p)
      BY <1>13, <2>2, ExitControl DEF FinishRotation, At, ControlTyped, OnlyAt, TypeOK, LocalsSet,
         BackupPC, KeepPC, PutPC, disk, aside, remote, ghosts
    <2> QED
      BY <1>13, <2>1, <2>2 DEF FinishRotation
  <1>14. ASSUME NEW p \in Procs, StageKit(p) PROVE TypeInv'
    <2>1. CASE Step(p, "stage", "record_fail")
      BY <1>14, <2>1, StepControl DEF StageKit, Step, At, locals, ControlTyped, OnlyAt, TypeOK,
         LocalsSet, PC, BackupPC, KeepPC, PutPC, UndoPC, disk, aside, remote, ghosts
    <2>2. CASE /\ At(p, "stage") /\ Goto(p, "push") /\ UNCHANGED <<lock, masterKey, snap>>
               /\ kit' = [kit EXCEPT ![p] = [keyfile |-> keyfile, snap |-> snap[p]]]
      <3>1. [keyfile |-> keyfile, snap |-> snap[p]] \in Kit
        BY <2>2 DEF At, LocalsSet, BackupPC, Kit
      <3> QED
        BY <1>14, <2>2, <3>1, GotoControl DEF StageKit, At, OnlyAt, TypeOK, LocalsSet,
           PC, BackupPC, KeepPC, PutPC, UndoPC, disk, aside, remote, ghosts
    <2> QED
      BY <1>14, <2>1, <2>2 DEF StageKit
  <1>14a. ASSUME NEW p \in Procs, Publish(p) PROVE TypeInv'
    <2>1. kit[p] \in Kit
      BY <1>14a DEF Publish, At, LocalsSet
    <2> QED
      BY <1>14a, <2>1 DEF Publish, TypeOK, LockHeld, LocalsSet, locals, disk, aside, ghosts
  <1>15. ASSUME NEW p \in Procs, PushKit(p) PROVE TypeInv'
    <2>1. PICK l \in {"record_ok", "record_fail"} : Step(p, "push", l)
      BY <1>15 DEF PushKit
    <2> QED
      BY <1>15, <2>1, StepControl DEF PushKit, Step, At, locals, ControlTyped, OnlyAt, TypeOK,
         LocalsSet, PC, BackupPC, KeepPC, PutPC, UndoPC, disk, aside, remote, ghosts
  <1>16. ASSUME NEW p \in Procs, RecordAttempt(p) PROVE TypeInv'
    <2>1. status' \in Status
      <3>1. snap[p] \in Snapshot
        BY <1>16 DEF RecordAttempt, LocalsSet, BackupPC
      <3>2. [attempt |-> snap[p], success |-> snap[p], error |-> FALSE] \in Status
        BY <3>1 DEF Status
      <3>3. [status EXCEPT !.attempt = snap[p], !.error = TRUE] \in Status
        BY <3>1 DEF Status, TypeOK
      <3> QED
        BY <1>16, <3>2, <3>3 DEF RecordAttempt, TypeOK
    <2> QED
      BY <1>16, <2>1, ExitControl DEF RecordAttempt, ControlTyped, OnlyAt, TypeOK, LocalsSet,
         BackupPC, KeepPC, PutPC, disk, aside, remote, ghosts
  <1>17. ASSUME NEW p \in Procs, KeepKeyfile(p) PROVE TypeInv'
    <2>1. kept' \in Saved /\ IsFiniteSet(kept'.snapshots)
      BY <1>17, FS_EmptySet DEF KeepKeyfile, TypeOK, Saved
    <2>a. ControlTyped /\ LockHeld' /\ OnlyAt(p, "keep_head")
      BY <1>17, StepControl DEF KeepKeyfile, PC, BackupPC, KeepPC, PutPC, UndoPC
    <2>b. TypeOK'
      BY <1>17, <2>a, <2>1, FS_EmptySet DEF KeepKeyfile, TypeOK, ControlTyped, disk, aside, remote, ghosts
    <2>c. \A q \in Procs : LocalsSet(q)'
      BY <1>17, <2>a DEF KeepKeyfile, OnlyAt, LocalsSet, Step, At, locals, disk, BackupPC, KeepPC,
         PutPC, UndoPC
    <2> QED
      BY <2>a, <2>b, <2>c
  <1>18. ASSUME NEW p \in Procs, KeepHead(p) PROVE TypeInv'
    <2>1. kept' \in Saved /\ IsFiniteSet(kept'.snapshots)
      BY <1>18, FS_EmptySet DEF KeepHead, TypeOK, Saved
    <2>a. ControlTyped /\ LockHeld' /\ OnlyAt(p, "keep_snapshots")
      BY <1>18, StepControl DEF KeepHead, PC, BackupPC, KeepPC, PutPC, UndoPC
    <2>b. TypeOK'
      BY <1>18, <2>a, <2>1, FS_EmptySet DEF KeepHead, TypeOK, ControlTyped, disk, aside, remote, ghosts
    <2>c. \A q \in Procs : LocalsSet(q)'
      BY <1>18, <2>a DEF KeepHead, OnlyAt, LocalsSet, Step, At, locals, disk, BackupPC, KeepPC,
         PutPC, UndoPC
    <2> QED
      BY <2>a, <2>b, <2>c
  <1>19. ASSUME NEW p \in Procs, KeepSnapshots(p) PROVE TypeInv'
    <2>1. kept' \in Saved /\ IsFiniteSet(kept'.snapshots)
      BY <1>19, FS_EmptySet DEF KeepSnapshots, TypeOK, Saved
    <2>a. ControlTyped /\ LockHeld' /\ OnlyAt(p, "keep_marker")
      BY <1>19, StepControl DEF KeepSnapshots, PC, BackupPC, KeepPC, PutPC, UndoPC
    <2>b. TypeOK'
      BY <1>19, <2>a, <2>1, FS_EmptySet DEF KeepSnapshots, TypeOK, ControlTyped, disk, aside, remote, ghosts
    <2>c. \A q \in Procs : LocalsSet(q)'
      BY <1>19, <2>a DEF KeepSnapshots, OnlyAt, LocalsSet, Step, At, locals, disk, BackupPC, KeepPC,
         PutPC, UndoPC
    <2> QED
      BY <2>a, <2>b, <2>c
  <1>20. ASSUME NEW p \in Procs, KeepMarker(p) PROVE TypeInv'
    <2>1. kept' \in Saved /\ IsFiniteSet(kept'.snapshots)
      BY <1>20, FS_EmptySet DEF KeepMarker, TypeOK, Saved
    <2>a. ControlTyped /\ LockHeld' /\ OnlyAt(p, "put_snapshots")
      BY <1>20, StepControl DEF KeepMarker, PC, BackupPC, KeepPC, PutPC, UndoPC
    <2>b. TypeOK'
      BY <1>20, <2>a, <2>1, FS_EmptySet DEF KeepMarker, TypeOK, ControlTyped, disk, aside, remote, ghosts
    <2>c. \A q \in Procs : LocalsSet(q)'
      BY <1>20, <2>a DEF KeepMarker, OnlyAt, LocalsSet, Step, At, locals, disk, BackupPC, KeepPC,
         PutPC, UndoPC
    <2> QED
      BY <2>a, <2>b, <2>c
  <1>21. ASSUME NEW p \in Procs, KeepFail(p) PROVE TypeInv'
    BY <1>21, GotoControl DEF KeepFail, OnlyAt, TypeOK, LocalsSet, locals,
       PC, BackupPC, KeepPC, PutPC, UndoPC, disk, aside, remote, ghosts
  <1>22. ASSUME NEW p \in Procs, PutFail(p) PROVE TypeInv'
    BY <1>22, GotoControl DEF PutFail, OnlyAt, TypeOK, LocalsSet, locals,
       PC, BackupPC, KeepPC, PutPC, UndoPC, disk, aside, remote, ghosts
  <1>23. ASSUME NEW p \in Procs, PutSnapshots(p) PROVE TypeInv'
    <2>1. snapshots' \subseteq Snapshot /\ IsFiniteSet(snapshots')
      BY <1>23, FS_Singleton, ZenonT(60) DEF PutSnapshots, Step, At, LocalsSet, PutPC, Kit
    <2> QED
      BY <1>23, <2>1, StepControl DEF PutSnapshots, Step, At, locals, ControlTyped, OnlyAt, TypeOK,
         LocalsSet, PC, BackupPC, KeepPC, PutPC, UndoPC, disk, aside, remote, ghosts
  <1>24. ASSUME NEW p \in Procs, PutKeyfile(p) PROVE TypeInv'
    <2>1. kit[p].keyfile \in Keys /\ kit[p].snap \in Snapshot
      BY <1>24 DEF PutKeyfile, Step, At, LocalsSet, PutPC, Kit
    <2>a. ControlTyped /\ LockHeld' /\ OnlyAt(p, "put_head")
      BY <1>24, StepControl DEF PutKeyfile, PC, BackupPC, KeepPC, PutPC, UndoPC
    <2>b. TypeOK'
      BY <1>24, <2>a, <2>1, FS_EmptySet DEF PutKeyfile, TypeOK, ControlTyped, disk, aside, remote, ghosts
    <2>c. \A q \in Procs : LocalsSet(q)'
      BY <1>24, <2>a DEF PutKeyfile, OnlyAt, LocalsSet, Step, At, locals, disk, BackupPC, KeepPC,
         PutPC, UndoPC
    <2> QED
      BY <2>a, <2>b, <2>c
  <1>25. ASSUME NEW p \in Procs, PutHead(p) PROVE TypeInv'
    <2>1. kit[p].keyfile \in Keys /\ kit[p].snap \in Snapshot
      BY <1>25 DEF PutHead, Step, At, LocalsSet, PutPC, Kit
    <2>a. ControlTyped /\ LockHeld' /\ OnlyAt(p, "put_marker")
      BY <1>25, StepControl DEF PutHead, PC, BackupPC, KeepPC, PutPC, UndoPC
    <2>b. TypeOK'
      BY <1>25, <2>a, <2>1, FS_EmptySet DEF PutHead, TypeOK, ControlTyped, disk, aside, remote, ghosts
    <2>c. \A q \in Procs : LocalsSet(q)'
      BY <1>25, <2>a DEF PutHead, OnlyAt, LocalsSet, Step, At, locals, disk, BackupPC, KeepPC,
         PutPC, UndoPC
    <2> QED
      BY <2>a, <2>b, <2>c
  <1>26. ASSUME NEW p \in Procs, PutMarker(p) PROVE TypeInv'
    <2>a. ControlTyped /\ LockHeld' /\ OnlyAt(p, "forget")
      BY <1>26, StepControl DEF PutMarker, PC, BackupPC, KeepPC, PutPC, UndoPC
    <2>b. TypeOK'
      BY <1>26, <2>a, FS_EmptySet DEF PutMarker, TypeOK, ControlTyped, disk, aside, remote, ghosts
    <2>c. \A q \in Procs : LocalsSet(q)'
      BY <1>26, <2>a DEF PutMarker, OnlyAt, LocalsSet, Step, At, locals, disk, BackupPC, KeepPC,
         PutPC, UndoPC
    <2> QED
      BY <2>a, <2>b, <2>c
  <1>27. ASSUME NEW p \in Procs, Rollback(p) PROVE TypeInv'
    <2>a. ControlTyped /\ LockHeld' /\ OnlyAt(p, "undo_snapshots")
      BY <1>27, StepControl DEF Rollback, PC, BackupPC, KeepPC, PutPC, UndoPC
    <2>b. TypeOK'
      BY <1>27, <2>a, FS_EmptySet DEF Rollback, TypeOK, ControlTyped, disk, aside, remote, ghosts
    <2>c. \A q \in Procs : LocalsSet(q)'
      BY <1>27, <2>a DEF Rollback, OnlyAt, LocalsSet, Step, At, locals, disk, BackupPC, KeepPC,
         PutPC, UndoPC
    <2> QED
      BY <2>a, <2>b, <2>c
  <1>28. ASSUME NEW p \in Procs, UndoSnapshots(p) PROVE TypeInv'
    <2>1. kept' \in Saved /\ IsFiniteSet(kept'.snapshots)
      BY <1>28, FS_EmptySet DEF UndoSnapshots, UndoRenameFails, TypeOK, Saved
    <2>2. /\ keyfile' \in Keys \cup {None} /\ head' \in Snapshot \cup {None}
          /\ snapshots' \subseteq Snapshot /\ IsFiniteSet(snapshots')
          /\ marker' \in BOOLEAN /\ torn' \in BOOLEAN /\ undoFailed' \in BOOLEAN
      BY <1>28 DEF UndoSnapshots, UndoRenameFails, TypeOK, Saved, disk
    <2>a. ControlTyped /\ LockHeld' /\ OnlyAt(p, "undo_keyfile")
      BY <1>28, StepControl DEF UndoSnapshots, PC, BackupPC, KeepPC, PutPC, UndoPC
    <2>b. TypeOK'
      BY <1>28, <2>a, <2>1, <2>2, FS_EmptySet DEF UndoSnapshots, TypeOK, ControlTyped, disk, aside, remote, ghosts
    <2>c. \A q \in Procs : LocalsSet(q)'
      BY <1>28, <2>a DEF UndoSnapshots, OnlyAt, LocalsSet, Step, At, locals, disk, BackupPC, KeepPC,
         PutPC, UndoPC
    <2> QED
      BY <2>a, <2>b, <2>c
  <1>29. ASSUME NEW p \in Procs, UndoKeyfile(p) PROVE TypeInv'
    <2>1. kept' \in Saved /\ IsFiniteSet(kept'.snapshots)
      BY <1>29, FS_EmptySet DEF UndoKeyfile, UndoRenameFails, TypeOK, Saved
    <2>2. /\ keyfile' \in Keys \cup {None} /\ head' \in Snapshot \cup {None}
          /\ snapshots' \subseteq Snapshot /\ IsFiniteSet(snapshots')
          /\ marker' \in BOOLEAN /\ torn' \in BOOLEAN /\ undoFailed' \in BOOLEAN
      BY <1>29 DEF UndoKeyfile, UndoRenameFails, TypeOK, Saved, disk
    <2>a. ControlTyped /\ LockHeld' /\ OnlyAt(p, "undo_head")
      BY <1>29, StepControl DEF UndoKeyfile, PC, BackupPC, KeepPC, PutPC, UndoPC
    <2>b. TypeOK'
      BY <1>29, <2>a, <2>1, <2>2, FS_EmptySet DEF UndoKeyfile, TypeOK, ControlTyped, disk, aside, remote, ghosts
    <2>c. \A q \in Procs : LocalsSet(q)'
      BY <1>29, <2>a DEF UndoKeyfile, OnlyAt, LocalsSet, Step, At, locals, disk, BackupPC, KeepPC,
         PutPC, UndoPC
    <2> QED
      BY <2>a, <2>b, <2>c
  <1>30. ASSUME NEW p \in Procs, UndoHead(p) PROVE TypeInv'
    <2>1. kept' \in Saved /\ IsFiniteSet(kept'.snapshots)
      BY <1>30, FS_EmptySet DEF UndoHead, UndoRenameFails, TypeOK, Saved
    <2>2. /\ keyfile' \in Keys \cup {None} /\ head' \in Snapshot \cup {None}
          /\ snapshots' \subseteq Snapshot /\ IsFiniteSet(snapshots')
          /\ marker' \in BOOLEAN /\ torn' \in BOOLEAN /\ undoFailed' \in BOOLEAN
      BY <1>30 DEF UndoHead, UndoRenameFails, TypeOK, Saved, disk
    <2>a. ControlTyped /\ LockHeld' /\ OnlyAt(p, "undo_marker")
      BY <1>30, StepControl DEF UndoHead, PC, BackupPC, KeepPC, PutPC, UndoPC
    <2>b. TypeOK'
      BY <1>30, <2>a, <2>1, <2>2, FS_EmptySet DEF UndoHead, TypeOK, ControlTyped, disk, aside, remote, ghosts
    <2>c. \A q \in Procs : LocalsSet(q)'
      BY <1>30, <2>a DEF UndoHead, OnlyAt, LocalsSet, Step, At, locals, disk, BackupPC, KeepPC,
         PutPC, UndoPC
    <2> QED
      BY <2>a, <2>b, <2>c
  <1>31. ASSUME NEW p \in Procs, UndoMarker(p) PROVE TypeInv'
    <2>1. kept' \in Saved /\ IsFiniteSet(kept'.snapshots)
      BY <1>31, FS_EmptySet DEF UndoMarker, EmptyDir, Saved
    <2>2. [kept EXCEPT !.marker = FALSE] \in Saved
      BY DEF TypeOK, Saved
    <2>3. preserved' \subseteq Saved /\ marker' \in BOOLEAN /\ torn' \in BOOLEAN /\ undoFailed' \in BOOLEAN
      BY <1>31, <2>2 DEF UndoMarker, TypeOK, Saved
    <2> QED
      BY <1>31, <2>1, <2>3, ExitControl DEF UndoMarker, At, ControlTyped, OnlyAt, TypeOK, LocalsSet,
         BackupPC, KeepPC, PutPC, UndoPC, disk, aside, remote, ghosts
  <1>32. ASSUME NEW p \in Procs, ForgetKey(p) PROVE TypeInv'
    <2>1. kept' \in Saved /\ IsFiniteSet(kept'.snapshots) /\ preserved' \subseteq Saved
      BY <1>32, FS_EmptySet DEF ForgetKey, LeaveKept, EmptyDir, Saved, TypeOK
    <2> QED
      BY <1>32, <2>1, ExitControl DEF ForgetKey, At, ControlTyped, OnlyAt, TypeOK, LocalsSet,
         BackupPC, KeepPC, PutPC, UndoPC, disk, aside, remote, ghosts
  <1>33. ASSUME NEW p \in Procs, Crash(p) PROVE TypeInv'
    <2>1. kept' \in Saved /\ IsFiniteSet(kept'.snapshots) /\ preserved' \subseteq Saved
      BY <1>33, FS_EmptySet DEF Crash, LeaveKept, EmptyDir, Saved, TypeOK
    <2>2. orphans' \subseteq Kit
      BY <1>33 DEF Crash, At, LocalsSet, TypeOK
    <2> QED
      BY <1>33, <2>1, <2>2, ExitControl DEF Crash, At, ControlTyped, OnlyAt, TypeOK, LocalsSet,
         BackupPC, KeepPC, PutPC, UndoPC, disk, aside, remote, ghosts
  <1>34. CASE KeyringCleared
    BY <1>34 DEF KeyringCleared, TypeOK, LockHeld, LocalsSet, locals, disk, aside, remote, ghosts
  <1>34a. CASE OrphanPublishes
    BY <1>34a DEF OrphanPublishes, TypeOK, LockHeld, LocalsSet, locals, disk, aside, ghosts
  <1>35. CASE UNCHANGED vars
    BY <1>35 DEF vars, TypeOK, LockHeld, LocalsSet, locals, disk, aside, remote, ghosts
  <1> QED
    BY <1>1, <1>2, <1>3, <1>4, <1>4a, <1>5, <1>6, <1>7, <1>8, <1>9, <1>10, <1>11, <1>12, <1>13, <1>14, <1>14a,
       <1>15, <1>16, <1>17, <1>18, <1>19, <1>20, <1>21, <1>22, <1>23, <1>24, <1>25, <1>26, <1>27, <1>28, <1>29,
       <1>30, <1>31, <1>32, <1>33, <1>34, <1>34a, <1>35
       DEF Next, Command, KeyStep, BackupStep, ImportStep

(* Every variable keeps its type; StageKit depends on the lock, which keeps *)
(* keyfile.json in place while a backup runs.                              *)
THEOREM TypeCorrect == Spec => []TypeOK
  <1>1. TypeInv => TypeOK
    BY DEF TypeInv
  <1> QED
    BY <1>1, TypeInvInit, TypeInvNext, PTL DEF Spec

THEOREM TypeInvCorrect == Spec => []TypeInv
  BY TypeInvInit, TypeInvNext, PTL DEF Spec

-----------------------------------------------------------------------------
(* What the other steps leave alone.                                       *)

\* A cut import is never forgotten.
LEMMA TornStays == TypeInv /\ [Next]_vars /\ torn => torn'
  BY ZenonT(60) DEF Next, Command, CmdInit, CmdRotatePassphrase, CmdUnlock, CmdBackup, CmdImport, KeyStep, LoadKey,
       CacheKey, UnlockStore, UnlockClear, BackupStep, LinkSnapshot, SaveHead, BackupFail, RotateOldest,
       FinishRotation, StageKit, Publish, PushKit, RecordAttempt, ImportStep, KeepKeyfile, KeepHead,
       KeepSnapshots, KeepMarker, KeepFail, PutSnapshots, PutKeyfile, PutHead, PutMarker, PutFail, Rollback,
       UndoRenameFails, UndoSnapshots, UndoKeyfile, UndoHead, UndoMarker, ForgetKey, Crash, OrphanPublishes,
       KeyringCleared, vars, ghosts

\* What a transport may publish is what a push that was killed staged.
LEMMA OrphansStep ==
    TypeInv /\ [Next]_vars =>
        \A k \in orphans' \ orphans : \E p \in Procs : pc[p] = "push" /\ k = kit[p]
  <1> SUFFICES ASSUME TypeInv, [Next]_vars, NEW k \in orphans', k \notin orphans
               PROVE  \E p \in Procs : pc[p] = "push" /\ k = kit[p]
    OBVIOUS
  <1>1. PICK p \in Procs : Crash(p)
    <2>1. orphans' # orphans /\ ~OrphanPublishes
      BY DEF OrphanPublishes
    <2> QED
      BY <2>1, ZenonT(60) DEF Next, Command, CmdInit, CmdRotatePassphrase, CmdUnlock, CmdBackup, CmdImport, KeyStep, LoadKey,
       CacheKey, UnlockStore, UnlockClear, BackupStep, LinkSnapshot, SaveHead, BackupFail, RotateOldest,
       FinishRotation, StageKit, Publish, PushKit, RecordAttempt, ImportStep, KeepKeyfile, KeepHead,
       KeepSnapshots, KeepMarker, KeepFail, PutSnapshots, PutKeyfile, PutHead, PutMarker, PutFail, Rollback,
       UndoRenameFails, UndoSnapshots, UndoKeyfile, UndoHead, UndoMarker, ForgetKey,
       KeyringCleared, vars, remote
  <1> QED
    BY <1>1 DEF Crash, At

-----------------------------------------------------------------------------
(* Snapshots and head.json.  A backup's new snapshot is strictly newer     *)
(* than all others until rotation is over, so rotation never takes it; an  *)
(* import moves head.json out before the snapshots and in after them.      *)

ImportPC == KeepPC \cup PutPC \cup UndoPC \cup {"rollback", "forget"}

KeptOnlyInImport == (\A p \in Procs : pc[p] \notin ImportPC) => kept = EmptyDir

Unique(S) == \A s, t \in S : s.gen = t.gen => s = t

HeadIn(h, S) == h # None => h \in S

NewerThanOthers(s) == \A t \in snapshots : t # s => t.gen < s.gen

LinkNewer(p) == pc[p] = "link" => \A t \in snapshots : t.gen < snap[p].gen

BackupHead(p) ==
    /\ pc[p] = "head" => snap[p] \in snapshots /\ NewerThanOthers(snap[p])
    /\ pc[p] = "rotate" => head = snap[p] /\ NewerThanOthers(snap[p])

ImportHead(p) ==
    /\ pc[p] \in {"keep_keyfile", "keep_head"} => kept.head = None /\ kept.snapshots = {}
    /\ pc[p] = "keep_snapshots" =>
         head = None /\ kept.snapshots = {} /\ HeadIn(kept.head, snapshots)
    /\ pc[p] \in {"keep_marker", "put_snapshots", "put_keyfile", "put_head"} => head = None
    /\ pc[p] \in {"keep_marker", "rollback"} \cup PutPC => HeadIn(kept.head, kept.snapshots)
    /\ pc[p] \in {"put_keyfile", "put_head"} => kit[p].snap \in snapshots
    /\ pc[p] = "undo_snapshots" =>
         IF kept.snapshots = {} THEN HeadIn(kept.head, snapshots)
                                ELSE head = None /\ HeadIn(kept.head, kept.snapshots)
    /\ pc[p] \in {"undo_keyfile", "undo_head"} => HeadIn(kept.head, snapshots)

SnapInv ==
    /\ KeptOnlyInImport
    /\ Unique(snapshots) /\ Unique(kept.snapshots)
    /\ \A p \in Procs : LinkNewer(p)
    /\ ~undoFailed =>
         HeadIn(head, snapshots) /\ \A p \in Procs : BackupHead(p) /\ ImportHead(p)

LEMMA KeptEmpty ==
    ASSUME TypeInv, SnapInv, NEW p \in Procs,
           pc[p] \notin ImportPC,
           pc[p] = "idle" => lock = None
    PROVE  kept = EmptyDir
  <1>1. \A q \in Procs : q # p => pc[q] = "idle"
    BY DEF TypeInv, LockHeld
  <1> QED
    BY <1>1 DEF SnapInv, KeptOnlyInImport, ImportPC, KeepPC, PutPC, UndoPC

(* A step to a place where neither a backup nor an import is half done.    *)
LEMMA SnapQuiet ==
    ASSUME TypeInv, SnapInv, NEW p \in Procs,
           NEW l \in PC \ ({"link", "head", "rotate"} \cup ImportPC),
           OnlyAt(p, l),
           UNCHANGED <<head, snapshots>>, undoFailed => undoFailed', kept' = EmptyDir
    PROVE  SnapInv'
  <1>1. Unique(kept'.snapshots)
    BY DEF EmptyDir, Unique
  <1>2. \A q \in Procs : pc'[q] \notin {"link", "head", "rotate"} \cup ImportPC
    BY DEF OnlyAt, ImportPC, KeepPC, PutPC, UndoPC
  <1>3. \A q \in Procs : LinkNewer(q)' /\ BackupHead(q)' /\ ImportHead(q)'
    BY <1>2 DEF LinkNewer, BackupHead, ImportHead, ImportPC, KeepPC, PutPC, UndoPC
  <1> QED
    BY <1>1, <1>3 DEF SnapInv, KeptOnlyInImport, HeadIn, Unique

LEMMA SnapInvInit == Init => SnapInv
  BY DEF Init, SnapInv, KeptOnlyInImport, Unique, EmptyDir, LinkNewer, BackupHead, ImportHead,
     HeadIn, ImportPC, KeepPC, PutPC, UndoPC

LEMMA SnapInvNext == TypeInv /\ SnapInv /\ [Next]_vars => SnapInv'
  <1> SUFFICES ASSUME TypeInv, SnapInv, [Next]_vars PROVE SnapInv'
    OBVIOUS
  <1> USE DEF ImportPC
  <1>1. ASSUME NEW p \in Procs, CmdInit(p) PROVE SnapInv'
    <2>1. OnlyAt(p, "cache") /\ pc[p] = "idle" /\ lock = None
      BY <1>1, EnterControl DEF CmdInit, Enter, PC
    <2>2. kept = EmptyDir
      BY <2>1, KeptEmpty DEF KeepPC, PutPC, UndoPC
    <2> QED
      BY <1>1, <2>1, <2>2, SnapQuiet DEF CmdInit, PC, KeepPC, PutPC, UndoPC, disk, aside, ghosts
  <1>2. ASSUME NEW p \in Procs, CmdRotatePassphrase(p) PROVE SnapInv'
    <2>1. OnlyAt(p, "cache") /\ pc[p] = "idle" /\ lock = None
      BY <1>2, EnterControl DEF CmdRotatePassphrase, Enter, PC
    <2>2. kept = EmptyDir
      BY <2>1, KeptEmpty DEF KeepPC, PutPC, UndoPC
    <2> QED
      BY <1>2, <2>1, <2>2, SnapQuiet DEF CmdRotatePassphrase, PC, KeepPC, PutPC, UndoPC, disk, aside, ghosts
  <1>3. ASSUME NEW p \in Procs, CmdUnlock(p) PROVE SnapInv'
    <2>1. OnlyAt(p, "unlock_store") /\ pc[p] = "idle" /\ lock = None
      BY <1>3, EnterControl DEF CmdUnlock, Enter, PC
    <2>2. kept = EmptyDir
      BY <2>1, KeptEmpty DEF KeepPC, PutPC, UndoPC
    <2> QED
      BY <1>3, <2>1, <2>2, SnapQuiet DEF CmdUnlock, PC, KeepPC, PutPC, UndoPC, disk, aside, ghosts
  <1>4. ASSUME NEW p \in Procs, CmdBackup(p) PROVE SnapInv'
    <2>1. OnlyAt(p, "load") /\ pc[p] = "idle" /\ lock = None
      BY <1>4, EnterControl DEF CmdBackup, Enter, PC
    <2>2. kept = EmptyDir
      BY <2>1, KeptEmpty DEF KeepPC, PutPC, UndoPC
    <2> QED
      BY <1>4, <2>1, <2>2, SnapQuiet DEF CmdBackup, PC, KeepPC, PutPC, UndoPC, disk, aside, ghosts
  <1>4a. ASSUME NEW p \in Procs, LoadKey(p) PROVE SnapInv'
    <2>1. pc[p] = "load" /\ UNCHANGED <<head, snapshots, kept, undoFailed>>
      BY <1>4a DEF LoadKey, At, disk, aside, ghosts
    <2>2. kept = EmptyDir
      BY <2>1, KeptEmpty DEF KeepPC, PutPC, UndoPC
    <2>3. CASE Exit(p)
      <3>1. OnlyAt(p, "idle")
        BY <2>1, <2>3, ExitControl
      <3> QED
        BY <2>1, <2>2, <3>1, SnapQuiet DEF PC, KeepPC, PutPC, UndoPC
    <2>4. CASE ~Exit(p)
      <3>1. PICK g \in 1..MaxGen :
              /\ IsNextGen(g)
              /\ snap' = [snap EXCEPT ![p] =
                             [gen |-> g, key |-> keyring, serial |-> nextSerial]]
        BY <1>4a, <2>4 DEF LoadKey
      <3>2. snap'[p].gen = g
        BY <3>1 DEF TypeInv, TypeOK
      <3>3. \A t \in snapshots : t.gen \in Nat
        BY DEF TypeInv, TypeOK, Snapshot
      <3>4. \A t \in snapshots : t.gen < snap'[p].gen
        BY <3>1, <3>2, <3>3 DEF IsNextGen
      <3>5. OnlyAt(p, "link")
        BY <1>4a, <2>1, <2>4, GotoControl DEF LoadKey, PC, BackupPC
      <3>6. \A q \in Procs : LinkNewer(q)' /\ BackupHead(q)' /\ ImportHead(q)'
        BY <2>1, <3>4, <3>5 DEF OnlyAt, LinkNewer, BackupHead, ImportHead, KeepPC, PutPC, UndoPC
      <3> QED
        BY <2>1, <2>2, <3>6 DEF SnapInv, KeptOnlyInImport, HeadIn, Unique
    <2> QED
      BY <2>3, <2>4
  <1>5. ASSUME NEW p \in Procs, CmdImport(p) PROVE SnapInv'
    <2>1. PICK l \in {"keep_keyfile", "put_snapshots"} :
            /\ Enter(p, l)
            /\ l = "put_snapshots" => head = None
      BY <1>5 DEF CmdImport, StateHasRecoveryData
    <2>2. OnlyAt(p, l) /\ pc[p] = "idle" /\ lock = None
      BY <2>1, EnterControl DEF Enter, PC, KeepPC, PutPC
    <2>3. kept = EmptyDir
      BY <2>2, KeptEmpty DEF KeepPC, PutPC, UndoPC
    <2>4. UNCHANGED <<head, snapshots, kept, undoFailed>>
      BY <1>5 DEF CmdImport, disk, aside
    <2>5. \A q \in Procs : LinkNewer(q)' /\ BackupHead(q)' /\ ImportHead(q)'
      BY <2>1, <2>2, <2>3, <2>4 DEF OnlyAt, LinkNewer, BackupHead, ImportHead, HeadIn, EmptyDir,
         KeepPC, PutPC, UndoPC
    <2>6. KeptOnlyInImport'
      BY <2>3, <2>4 DEF KeptOnlyInImport
    <2> QED
      BY <2>4, <2>5, <2>6 DEF SnapInv, HeadIn, Unique
  <1>6. ASSUME NEW p \in Procs, CacheKey(p) PROVE SnapInv'
    <2>1. OnlyAt(p, "idle") /\ pc[p] \in {"cache"}
      BY <1>6, ExitControl DEF CacheKey, At
    <2>2. kept = EmptyDir
      BY <2>1, KeptEmpty DEF KeepPC, PutPC, UndoPC
    <2> QED
      BY <1>6, <2>1, <2>2, SnapQuiet DEF CacheKey, PC, KeepPC, PutPC, UndoPC, disk, aside, ghosts
  <1>7. ASSUME NEW p \in Procs, UnlockStore(p) PROVE SnapInv'
    <2>1. PICK l \in {"idle", "unlock_clear"} : OnlyAt(p, l)
      <3>1. CASE Step(p, "unlock_store", "unlock_clear")
        BY <3>1, StepControl DEF PC
      <3>2. CASE At(p, "unlock_store") /\ Exit(p)
        BY <3>2, ExitControl DEF At
      <3> QED
        BY <1>7, <3>1, <3>2 DEF UnlockStore
    <2>2. pc[p] = "unlock_store"
      BY <1>7 DEF UnlockStore, Step, At
    <2>3. kept = EmptyDir
      BY <2>2, KeptEmpty DEF KeepPC, PutPC, UndoPC
    <2> QED
      BY <1>7, <2>1, <2>3, SnapQuiet DEF UnlockStore, PC, KeepPC, PutPC, UndoPC, disk, aside, ghosts
  <1>8. ASSUME NEW p \in Procs, UnlockClear(p) PROVE SnapInv'
    <2>1. OnlyAt(p, "idle") /\ pc[p] \in {"unlock_clear"}
      BY <1>8, ExitControl DEF UnlockClear, At
    <2>2. kept = EmptyDir
      BY <2>1, KeptEmpty DEF KeepPC, PutPC, UndoPC
    <2> QED
      BY <1>8, <2>1, <2>2, SnapQuiet DEF UnlockClear, PC, KeepPC, PutPC, UndoPC, disk, aside, ghosts
  <1>9. ASSUME NEW p \in Procs, LinkSnapshot(p) PROVE SnapInv'
    <2>1. OnlyAt(p, "head") /\ pc[p] = "link"
      BY <1>9, StepControl DEF LinkSnapshot, PC, BackupPC, Step, At
    <2>2. kept = EmptyDir
      BY <2>1, KeptEmpty DEF KeepPC, PutPC, UndoPC
    <2>3. snapshots' = snapshots \cup {snap[p]} /\ UNCHANGED <<head, kept, undoFailed, snap>>
      BY <1>9 DEF LinkSnapshot, Step, locals, aside, ghosts
    <2>4. \A t \in snapshots : t.gen < snap[p].gen
      BY <2>1 DEF SnapInv, LinkNewer
    <2>5. snap[p] \in Snapshot /\ \A t \in snapshots : t.gen \in Nat
      BY <2>1 DEF TypeInv, TypeOK, LocalsSet, BackupPC, Snapshot
    <2>6. Unique(snapshots')
      BY <2>3, <2>4, <2>5 DEF SnapInv, Unique, Snapshot
    <2>7. \A q \in Procs : LinkNewer(q)' /\ BackupHead(q)' /\ ImportHead(q)'
      BY <2>1, <2>3, <2>4 DEF OnlyAt, LinkNewer, BackupHead, NewerThanOthers, ImportHead, KeepPC,
         PutPC, UndoPC
    <2> QED
      BY <2>2, <2>3, <2>6, <2>7 DEF SnapInv, KeptOnlyInImport, HeadIn
  <1>10. ASSUME NEW p \in Procs, SaveHead(p) PROVE SnapInv'
    <2>1. OnlyAt(p, "rotate") /\ pc[p] = "head"
      BY <1>10, StepControl DEF SaveHead, PC, BackupPC, Step, At
    <2>2. kept = EmptyDir
      BY <2>1, KeptEmpty DEF KeepPC, PutPC, UndoPC
    <2>3. head' = snap[p] /\ UNCHANGED <<snapshots, kept, undoFailed, snap>>
      BY <1>10 DEF SaveHead, Step, locals, aside, ghosts
    <2>4. ~undoFailed => snap[p] \in snapshots /\ NewerThanOthers(snap[p])
      BY <2>1 DEF SnapInv, BackupHead
    <2>5. \A q \in Procs : LinkNewer(q)' /\ (~undoFailed' => BackupHead(q)') /\ ImportHead(q)'
      BY <2>1, <2>3, <2>4 DEF OnlyAt, LinkNewer, BackupHead, NewerThanOthers, ImportHead, KeepPC,
         PutPC, UndoPC
    <2> QED
      BY <2>2, <2>3, <2>4, <2>5 DEF SnapInv, KeptOnlyInImport, HeadIn, Unique
  <1>11. ASSUME NEW p \in Procs, BackupFail(p) PROVE SnapInv'
    <2>1. OnlyAt(p, "idle") /\ pc[p] \in {"link", "head"}
      BY <1>11, ExitControl DEF BackupFail, At
    <2>2. kept = EmptyDir
      BY <2>1, KeptEmpty DEF KeepPC, PutPC, UndoPC
    <2> QED
      BY <1>11, <2>1, <2>2, SnapQuiet DEF BackupFail, PC, KeepPC, PutPC, UndoPC, disk, aside, ghosts
  <1>12. ASSUME NEW p \in Procs, RotateOldest(p) PROVE SnapInv'
    <2>1. pc[p] = "rotate" /\ UNCHANGED <<head, kept, undoFailed, pc, snap, kit>>
      BY <1>12 DEF RotateOldest, At, locals, aside, ghosts
    <2>2. PICK s \in snapshots : Oldest(s) /\ snapshots' = snapshots \ {s}
      BY <1>12 DEF RotateOldest
    <2>3. \A q \in Procs \ {p} : pc[q] = "idle"
      BY <2>1, OthersIdle
    <2>4. \A t \in snapshots : t.gen \in Nat
      BY DEF TypeInv, TypeOK, Snapshot
    <2>5. PICK t \in snapshots : t # s
      <3>1. Cardinality(snapshots) # 1 /\ Cardinality(snapshots) \in Nat
        BY <1>12, FS_CardinalityType DEF RotateOldest, TypeInv, TypeOK
      <3>2. snapshots # {s}
        BY <3>1, FS_Singleton
      <3> QED
        BY <3>2, <2>2
    <2>6. ~undoFailed => head = snap[p] /\ NewerThanOthers(snap[p]) /\ head # s
      <3> SUFFICES ASSUME ~undoFailed
                   PROVE  head = snap[p] /\ NewerThanOthers(snap[p]) /\ head # s
        OBVIOUS
      <3>1. head = snap[p] /\ NewerThanOthers(snap[p])
        BY <2>1 DEF SnapInv, BackupHead
      <3>2. s.gen <= t.gen /\ s.gen \in Nat /\ t.gen \in Nat
        BY <2>2, <2>4, <2>5 DEF Oldest
      <3> QED
        BY <3>1, <3>2, <2>5 DEF NewerThanOthers
    <2>7. \A q \in Procs : LinkNewer(q)' /\ (~undoFailed' => BackupHead(q)') /\ ImportHead(q)'
      BY <2>1, <2>2, <2>3, <2>6 DEF LinkNewer, BackupHead, NewerThanOthers, ImportHead, KeepPC,
         PutPC, UndoPC
    <2> QED
      BY <2>1, <2>2, <2>6, <2>7 DEF SnapInv, KeptOnlyInImport, HeadIn, Unique
  <1>13. ASSUME NEW p \in Procs, FinishRotation(p) PROVE SnapInv'
    <2>1. PICK l \in {"idle", "stage"} : OnlyAt(p, l)
      <3>1. CASE Step(p, "rotate", "stage")
        BY <3>1, StepControl DEF PC, BackupPC
      <3>2. CASE At(p, "rotate") /\ Exit(p)
        BY <3>2, ExitControl DEF At
      <3> QED
        BY <1>13, <3>1, <3>2 DEF FinishRotation
    <2>2. pc[p] = "rotate"
      BY <1>13 DEF FinishRotation, Step, At
    <2>3. kept = EmptyDir
      BY <2>2, KeptEmpty DEF KeepPC, PutPC, UndoPC
    <2> QED
      BY <1>13, <2>1, <2>3, SnapQuiet DEF FinishRotation, PC, BackupPC, KeepPC, PutPC, UndoPC, disk,
         aside, ghosts
  <1>14. ASSUME NEW p \in Procs, StageKit(p) PROVE SnapInv'
    <2>1. PICK l \in {"push", "record_fail"} : Goto(p, l) /\ UNCHANGED lock
      BY <1>14 DEF StageKit, Step
    <2>2. pc[p] = "stage"
      BY <1>14 DEF StageKit, Step, At
    <2>3. OnlyAt(p, l)
      BY <2>1, <2>2, GotoControl DEF PC, BackupPC
    <2>4. kept = EmptyDir
      BY <2>2, KeptEmpty DEF KeepPC, PutPC, UndoPC
    <2> QED
      BY <1>14, <2>3, <2>4, SnapQuiet DEF StageKit, PC, BackupPC, KeepPC, PutPC, UndoPC, disk, aside,
         ghosts
  <1>14a. ASSUME NEW p \in Procs, Publish(p) PROVE SnapInv'
    <2>1. UNCHANGED <<head, snapshots, kept, undoFailed, pc, snap, kit>>
      BY <1>14a DEF Publish, disk, aside, locals, ghosts
    <2> QED
      BY <2>1 DEF SnapInv, KeptOnlyInImport, HeadIn, Unique, LinkNewer, BackupHead, NewerThanOthers, ImportHead
  <1>15. ASSUME NEW p \in Procs, PushKit(p) PROVE SnapInv'
    <2>1. PICK l \in {"record_ok", "record_fail"} : Step(p, "push", l)
      BY <1>15 DEF PushKit
    <2>2. OnlyAt(p, l) /\ pc[p] = "push"
      BY <2>1, StepControl DEF PC, BackupPC, Step, At
    <2>3. kept = EmptyDir
      BY <2>2, KeptEmpty DEF KeepPC, PutPC, UndoPC
    <2> QED
      BY <1>15, <2>2, <2>3, SnapQuiet DEF PushKit, PC, BackupPC, KeepPC, PutPC, UndoPC, disk, aside,
         ghosts
  <1>16. ASSUME NEW p \in Procs, RecordAttempt(p) PROVE SnapInv'
    <2>1. OnlyAt(p, "idle") /\ pc[p] \in {"record_ok", "record_fail"}
      BY <1>16, ExitControl DEF RecordAttempt, At
    <2>2. kept = EmptyDir
      BY <2>1, KeptEmpty DEF KeepPC, PutPC, UndoPC
    <2> QED
      BY <1>16, <2>1, <2>2, SnapQuiet DEF RecordAttempt, PC, KeepPC, PutPC, UndoPC, disk, aside, ghosts
  <1>17. ASSUME NEW p \in Procs, KeepKeyfile(p) PROVE SnapInv'
    <2>1. OnlyAt(p, "keep_head") /\ pc[p] = "keep_keyfile"
      BY <1>17, StepControl DEF KeepKeyfile, PC, KeepPC, PutPC, UndoPC, Step, At
    <2>2. /\ kept'.head = kept.head /\ kept'.snapshots = kept.snapshots
          /\ UNCHANGED <<head, snapshots, undoFailed>>
      BY <1>17 DEF KeepKeyfile, Step, locals, aside, disk, ghosts, TypeInv, TypeOK, Saved
    <2>3. \A q \in Procs : LinkNewer(q)' /\ (~undoFailed' => BackupHead(q)' /\ ImportHead(q)')
      BY <2>1, <2>2 DEF SnapInv, OnlyAt, LinkNewer, BackupHead, ImportHead, HeadIn, KeepPC, PutPC, UndoPC
    <2>4. KeptOnlyInImport'
      BY <2>1 DEF OnlyAt, KeptOnlyInImport, KeepPC, PutPC, UndoPC
    <2> QED
      BY <2>1, <2>2, <2>3, <2>4 DEF SnapInv, HeadIn, Unique, ImportHead, KeepPC, PutPC, UndoPC
  <1>18. ASSUME NEW p \in Procs, KeepHead(p) PROVE SnapInv'
    <2>1. OnlyAt(p, "keep_snapshots") /\ pc[p] = "keep_head"
      BY <1>18, StepControl DEF KeepHead, PC, KeepPC, PutPC, UndoPC, Step, At
    <2>2. /\ kept'.head = head /\ kept'.snapshots = kept.snapshots
          /\ head' = None /\ UNCHANGED <<snapshots, undoFailed>>
      BY <1>18 DEF KeepHead, Step, locals, aside, disk, ghosts, TypeInv, TypeOK, Saved
    <2>3. \A q \in Procs : LinkNewer(q)' /\ (~undoFailed' => BackupHead(q)' /\ ImportHead(q)')
      BY <2>1, <2>2 DEF SnapInv, OnlyAt, LinkNewer, BackupHead, ImportHead, HeadIn, KeepPC, PutPC, UndoPC
    <2>4. KeptOnlyInImport'
      BY <2>1 DEF OnlyAt, KeptOnlyInImport, KeepPC, PutPC, UndoPC
    <2> QED
      BY <2>1, <2>2, <2>3, <2>4 DEF SnapInv, HeadIn, Unique, ImportHead, KeepPC, PutPC, UndoPC
  <1>19. ASSUME NEW p \in Procs, KeepSnapshots(p) PROVE SnapInv'
    <2>1. OnlyAt(p, "keep_marker") /\ pc[p] = "keep_snapshots"
      BY <1>19, StepControl DEF KeepSnapshots, PC, KeepPC, PutPC, UndoPC, Step, At
    <2>2. /\ kept'.head = kept.head /\ kept'.snapshots = snapshots
          /\ snapshots' = {} /\ UNCHANGED <<head, undoFailed>>
      BY <1>19 DEF KeepSnapshots, Step, locals, aside, disk, ghosts, TypeInv, TypeOK, Saved
    <2>3. \A q \in Procs : LinkNewer(q)' /\ (~undoFailed' => BackupHead(q)' /\ ImportHead(q)')
      BY <2>1, <2>2 DEF SnapInv, OnlyAt, LinkNewer, BackupHead, ImportHead, HeadIn, KeepPC, PutPC, UndoPC
    <2>4. KeptOnlyInImport'
      BY <2>1 DEF OnlyAt, KeptOnlyInImport, KeepPC, PutPC, UndoPC
    <2> QED
      BY <2>1, <2>2, <2>3, <2>4 DEF SnapInv, HeadIn, Unique, ImportHead, KeepPC, PutPC, UndoPC
  <1>20. ASSUME NEW p \in Procs, KeepMarker(p) PROVE SnapInv'
    <2>1. OnlyAt(p, "put_snapshots") /\ pc[p] = "keep_marker"
      BY <1>20, StepControl DEF KeepMarker, PC, KeepPC, PutPC, UndoPC, Step, At
    <2>2. /\ kept'.head = kept.head /\ kept'.snapshots = kept.snapshots
          /\ UNCHANGED <<head, snapshots, undoFailed>>
      BY <1>20 DEF KeepMarker, Step, locals, aside, disk, ghosts, TypeInv, TypeOK, Saved
    <2>3. \A q \in Procs : LinkNewer(q)' /\ (~undoFailed' => BackupHead(q)' /\ ImportHead(q)')
      BY <2>1, <2>2 DEF SnapInv, OnlyAt, LinkNewer, BackupHead, ImportHead, HeadIn, KeepPC, PutPC, UndoPC
    <2>4. KeptOnlyInImport'
      BY <2>1 DEF OnlyAt, KeptOnlyInImport, KeepPC, PutPC, UndoPC
    <2> QED
      BY <2>1, <2>2, <2>3, <2>4 DEF SnapInv, HeadIn, Unique, ImportHead, KeepPC, PutPC, UndoPC
  <1>21. ASSUME NEW p \in Procs, KeepFail(p) PROVE SnapInv'
    <2>1. OnlyAt(p, "undo_snapshots") /\ pc[p] \in KeepPC
      BY <1>21, GotoControl DEF KeepFail, PC, KeepPC, UndoPC
    <2>2. UNCHANGED <<head, snapshots, kept, undoFailed>>
      BY <1>21 DEF KeepFail, disk, aside, ghosts
    <2>3. \A q \in Procs : LinkNewer(q)' /\ (~undoFailed' => BackupHead(q)' /\ ImportHead(q)')
      BY <2>1, <2>2 DEF SnapInv, OnlyAt, LinkNewer, BackupHead, ImportHead, HeadIn, KeepPC, PutPC, UndoPC
    <2>4. KeptOnlyInImport'
      BY <2>1 DEF OnlyAt, KeptOnlyInImport, KeepPC, PutPC, UndoPC
    <2> QED
      BY <2>1, <2>2, <2>3, <2>4 DEF SnapInv, HeadIn, Unique
  <1>22. ASSUME NEW p \in Procs, PutSnapshots(p) PROVE SnapInv'
    <2>1. OnlyAt(p, "put_keyfile") /\ pc[p] = "put_snapshots"
      BY <1>22, StepControl DEF PutSnapshots, PC, KeepPC, PutPC, UndoPC, Step, At
    <2>2. snapshots' = {kit[p].snap} /\ UNCHANGED <<head, kept, undoFailed, kit>>
      BY <1>22 DEF PutSnapshots, Step, locals, aside, disk, ghosts, TypeInv, TypeOK, Saved
    <2>3. \A q \in Procs : LinkNewer(q)' /\ (~undoFailed' => BackupHead(q)' /\ ImportHead(q)')
      BY <2>1, <2>2 DEF SnapInv, OnlyAt, LinkNewer, BackupHead, ImportHead, HeadIn, KeepPC, PutPC, UndoPC
    <2>4. KeptOnlyInImport'
      BY <2>1 DEF OnlyAt, KeptOnlyInImport, KeepPC, PutPC, UndoPC
    <2> QED
      BY <2>1, <2>2, <2>3, <2>4 DEF SnapInv, HeadIn, Unique, ImportHead, KeepPC, PutPC, UndoPC
  <1>23. ASSUME NEW p \in Procs, PutKeyfile(p) PROVE SnapInv'
    <2>1. OnlyAt(p, "put_head") /\ pc[p] = "put_keyfile"
      BY <1>23, StepControl DEF PutKeyfile, PC, KeepPC, PutPC, UndoPC, Step, At
    <2>2. UNCHANGED <<snapshots, head, kept, undoFailed, kit>>
      BY <1>23 DEF PutKeyfile, Step, locals, aside, disk, ghosts, TypeInv, TypeOK, Saved
    <2>3. \A q \in Procs : LinkNewer(q)' /\ (~undoFailed' => BackupHead(q)' /\ ImportHead(q)')
      BY <2>1, <2>2 DEF SnapInv, OnlyAt, LinkNewer, BackupHead, ImportHead, HeadIn, KeepPC, PutPC, UndoPC
    <2>4. KeptOnlyInImport'
      BY <2>1 DEF OnlyAt, KeptOnlyInImport, KeepPC, PutPC, UndoPC
    <2> QED
      BY <2>1, <2>2, <2>3, <2>4 DEF SnapInv, HeadIn, Unique, ImportHead, KeepPC, PutPC, UndoPC
  <1>24. ASSUME NEW p \in Procs, PutHead(p) PROVE SnapInv'
    <2>1. OnlyAt(p, "put_marker") /\ pc[p] = "put_head"
      BY <1>24, StepControl DEF PutHead, PC, KeepPC, PutPC, UndoPC, Step, At
    <2>2. head' = kit[p].snap /\ UNCHANGED <<snapshots, kept, undoFailed, kit>>
      BY <1>24 DEF PutHead, Step, locals, aside, disk, ghosts, TypeInv, TypeOK, Saved
    <2>3. \A q \in Procs : LinkNewer(q)' /\ (~undoFailed' => BackupHead(q)' /\ ImportHead(q)')
      BY <2>1, <2>2 DEF SnapInv, OnlyAt, LinkNewer, BackupHead, ImportHead, HeadIn, KeepPC, PutPC, UndoPC
    <2>4. KeptOnlyInImport'
      BY <2>1 DEF OnlyAt, KeptOnlyInImport, KeepPC, PutPC, UndoPC
    <2> QED
      BY <2>1, <2>2, <2>3, <2>4 DEF SnapInv, HeadIn, Unique, ImportHead, KeepPC, PutPC, UndoPC
  <1>25. ASSUME NEW p \in Procs, PutMarker(p) PROVE SnapInv'
    <2>1. OnlyAt(p, "forget") /\ pc[p] = "put_marker"
      BY <1>25, StepControl DEF PutMarker, PC, KeepPC, PutPC, UndoPC, Step, At
    <2>2. UNCHANGED <<snapshots, head, kept, undoFailed>>
      BY <1>25 DEF PutMarker, Step, locals, aside, disk, ghosts, TypeInv, TypeOK, Saved
    <2>3. \A q \in Procs : LinkNewer(q)' /\ (~undoFailed' => BackupHead(q)' /\ ImportHead(q)')
      BY <2>1, <2>2 DEF SnapInv, OnlyAt, LinkNewer, BackupHead, ImportHead, HeadIn, KeepPC, PutPC, UndoPC
    <2>4. KeptOnlyInImport'
      BY <2>1 DEF OnlyAt, KeptOnlyInImport, KeepPC, PutPC, UndoPC
    <2> QED
      BY <2>1, <2>2, <2>3, <2>4 DEF SnapInv, HeadIn, Unique, ImportHead, KeepPC, PutPC, UndoPC
  <1>26. ASSUME NEW p \in Procs, PutFail(p) PROVE SnapInv'
    <2>1. OnlyAt(p, "rollback") /\ pc[p] \in PutPC
      BY <1>26, GotoControl DEF PutFail, PC, PutPC
    <2>2. UNCHANGED <<head, snapshots, kept, undoFailed>>
      BY <1>26 DEF PutFail, disk, aside, ghosts
    <2>3. \A q \in Procs : LinkNewer(q)' /\ (~undoFailed' => BackupHead(q)' /\ ImportHead(q)')
      BY <2>1, <2>2 DEF SnapInv, OnlyAt, LinkNewer, BackupHead, ImportHead, HeadIn, KeepPC, PutPC, UndoPC
    <2>4. KeptOnlyInImport'
      BY <2>1 DEF OnlyAt, KeptOnlyInImport, KeepPC, PutPC, UndoPC
    <2> QED
      BY <2>1, <2>2, <2>3, <2>4 DEF SnapInv, HeadIn, Unique
  <1>27. ASSUME NEW p \in Procs, Rollback(p) PROVE SnapInv'
    <2>1. OnlyAt(p, "undo_snapshots") /\ pc[p] = "rollback"
      BY <1>27, StepControl DEF Rollback, PC, KeepPC, PutPC, UndoPC, Step, At
    <2>2. head' = None /\ snapshots' = {} /\ UNCHANGED <<kept, undoFailed>>
      BY <1>27 DEF Rollback, Step, locals, aside, disk, ghosts, TypeInv, TypeOK, Saved
    <2>3. \A q \in Procs : LinkNewer(q)' /\ (~undoFailed' => BackupHead(q)' /\ ImportHead(q)')
      BY <2>1, <2>2 DEF SnapInv, OnlyAt, LinkNewer, BackupHead, ImportHead, HeadIn, KeepPC, PutPC, UndoPC
    <2>4. KeptOnlyInImport'
      BY <2>1 DEF OnlyAt, KeptOnlyInImport, KeepPC, PutPC, UndoPC
    <2> QED
      BY <2>1, <2>2, <2>3, <2>4 DEF SnapInv, HeadIn, Unique, ImportHead, KeepPC, PutPC, UndoPC
  <1>28. ASSUME NEW p \in Procs, UndoSnapshots(p) PROVE SnapInv'
    <2>1. OnlyAt(p, "undo_keyfile") /\ pc[p] = "undo_snapshots"
      BY <1>28, StepControl DEF UndoSnapshots, PC, KeepPC, PutPC, UndoPC, Step, At
    <2>2. /\ UNCHANGED head
          /\ Unique(snapshots') /\ Unique(kept'.snapshots)
          /\ ~undoFailed' => /\ ~undoFailed
                             /\ snapshots' = IF kept.snapshots = {} THEN snapshots
                                                                    ELSE kept.snapshots
                             /\ kept'.head = kept.head
      BY <1>28 DEF UndoSnapshots, Step, locals, aside, disk, ghosts, TypeInv, TypeOK, Saved, UndoRenameFails, SnapInv, Unique
    <2>3. \A q \in Procs : LinkNewer(q)' /\ (~undoFailed' => BackupHead(q)' /\ ImportHead(q)')
      BY <2>1, <2>2 DEF SnapInv, OnlyAt, LinkNewer, BackupHead, ImportHead, HeadIn, KeepPC, PutPC, UndoPC
    <2>4. KeptOnlyInImport'
      BY <2>1 DEF OnlyAt, KeptOnlyInImport, KeepPC, PutPC, UndoPC
    <2> QED
      BY <2>1, <2>2, <2>3, <2>4 DEF SnapInv, HeadIn, Unique, ImportHead, KeepPC, PutPC, UndoPC
  <1>29. ASSUME NEW p \in Procs, UndoKeyfile(p) PROVE SnapInv'
    <2>1. OnlyAt(p, "undo_head") /\ pc[p] = "undo_keyfile"
      BY <1>29, StepControl DEF UndoKeyfile, PC, KeepPC, PutPC, UndoPC, Step, At
    <2>2. /\ UNCHANGED <<head, snapshots>> /\ kept'.snapshots = kept.snapshots
          /\ ~undoFailed' => ~undoFailed /\ kept'.head = kept.head
      BY <1>29 DEF UndoKeyfile, Step, locals, aside, disk, ghosts, TypeInv, TypeOK, Saved, UndoRenameFails
    <2>3. \A q \in Procs : LinkNewer(q)' /\ (~undoFailed' => BackupHead(q)' /\ ImportHead(q)')
      BY <2>1, <2>2 DEF SnapInv, OnlyAt, LinkNewer, BackupHead, ImportHead, HeadIn, KeepPC, PutPC, UndoPC
    <2>4. KeptOnlyInImport'
      BY <2>1 DEF OnlyAt, KeptOnlyInImport, KeepPC, PutPC, UndoPC
    <2> QED
      BY <2>1, <2>2, <2>3, <2>4 DEF SnapInv, HeadIn, Unique, ImportHead, KeepPC, PutPC, UndoPC
  <1>30. ASSUME NEW p \in Procs, UndoHead(p) PROVE SnapInv'
    <2>1. OnlyAt(p, "undo_marker") /\ pc[p] = "undo_head"
      BY <1>30, StepControl DEF UndoHead, PC, KeepPC, PutPC, UndoPC, Step, At
    <2>2. /\ UNCHANGED <<snapshots>> /\ kept'.snapshots = kept.snapshots
          /\ ~undoFailed' => ~undoFailed /\ head' = IF kept.head = None THEN head ELSE kept.head
      BY <1>30 DEF UndoHead, Step, locals, aside, disk, ghosts, TypeInv, TypeOK, Saved, UndoRenameFails
    <2>3. \A q \in Procs : LinkNewer(q)' /\ (~undoFailed' => BackupHead(q)' /\ ImportHead(q)')
      BY <2>1, <2>2 DEF SnapInv, OnlyAt, LinkNewer, BackupHead, ImportHead, HeadIn, KeepPC, PutPC, UndoPC
    <2>4. KeptOnlyInImport'
      BY <2>1 DEF OnlyAt, KeptOnlyInImport, KeepPC, PutPC, UndoPC
    <2> QED
      BY <2>1, <2>2, <2>3, <2>4 DEF SnapInv, HeadIn, Unique, ImportHead, KeepPC, PutPC, UndoPC
  <1>31. ASSUME NEW p \in Procs, UndoMarker(p) PROVE SnapInv'
    <2>1. OnlyAt(p, "idle")
      BY <1>31, ExitControl DEF UndoMarker, At
    <2> QED
      BY <1>31, <2>1, SnapQuiet DEF UndoMarker, LeaveKept, PC, KeepPC, PutPC, UndoPC, disk, ghosts
  <1>32. ASSUME NEW p \in Procs, ForgetKey(p) PROVE SnapInv'
    <2>1. OnlyAt(p, "idle")
      BY <1>32, ExitControl DEF ForgetKey, At
    <2> QED
      BY <1>32, <2>1, SnapQuiet DEF ForgetKey, LeaveKept, PC, KeepPC, PutPC, UndoPC, disk, ghosts
  <1>33. ASSUME NEW p \in Procs, Crash(p) PROVE SnapInv'
    <2>1. OnlyAt(p, "idle")
      BY <1>33, ExitControl DEF Crash, At
    <2> QED
      BY <1>33, <2>1, SnapQuiet DEF Crash, LeaveKept, PC, KeepPC, PutPC, UndoPC, disk, ghosts
  <1>34. CASE KeyringCleared \/ OrphanPublishes \/ UNCHANGED vars
    <2>1. UNCHANGED <<head, snapshots, kept, undoFailed, pc, snap, kit>>
      BY <1>34 DEF KeyringCleared, OrphanPublishes, vars, disk, aside, locals, ghosts
    <2> QED
      BY <2>1 DEF SnapInv, KeptOnlyInImport, HeadIn, Unique, LinkNewer, BackupHead, NewerThanOthers, ImportHead
  <1> QED
    BY <1>1, <1>2, <1>3, <1>4, <1>4a, <1>5, <1>6, <1>7, <1>8, <1>9, <1>10, <1>11, <1>12, <1>13, <1>14, <1>14a,
       <1>15, <1>16, <1>17, <1>18, <1>19, <1>20, <1>21, <1>22, <1>23, <1>24, <1>25, <1>26, <1>27, <1>28, <1>29,
       <1>30, <1>31, <1>32, <1>33, <1>34
       DEF Next, Command, KeyStep, BackupStep, ImportStep

(* head.json names a snapshot on disk in every state a command, a failure  *)
(* or a kill can leave, however many snapshots and imports there are.      *)
THEOREM HeadAlwaysOnDisk == Spec => []HeadOnDisk
  <1>1. SnapInv => HeadOnDisk
    BY DEF SnapInv, HeadIn, HeadOnDisk
  <1> QED
    BY <1>1, TypeInvInit, TypeInvNext, SnapInvInit, SnapInvNext, PTL DEF Spec

(* No two snapshots on disk ever share a generation.                       *)
THEOREM GenerationsAlwaysUnique == Spec => []GenerationsUnique
  <1>1. SnapInv => GenerationsUnique
    BY DEF SnapInv, Unique, GenerationsUnique
  <1> QED
    BY <1>1, TypeInvInit, TypeInvNext, SnapInvInit, SnapInvNext, PTL DEF Spec

-----------------------------------------------------------------------------
(* Keys.  The keyring caches nothing but the keyfile's own key, unless an  *)
(* import left its marker; while an import runs this holds of the old set, *)
(* wherever its files are.                                                 *)

KeysMatch(k, h, m) ==
    /\ k = None => h = None /\ keyring = None
    /\ k # None /\ keyring # None /\ ~m => keyring = k
    /\ k # None /\ h # None => h.key = k

OldKey == IF kept.keyfile # None THEN kept.keyfile ELSE keyfile
OldHead == IF kept.head # None THEN kept.head ELSE head

KeysAt(p) ==
    /\ pc[p] \in {"cache", "unlock_store"} => masterKey[p] = keyfile
    /\ pc[p] = "unlock_clear" => keyfile # None /\ keyring \in {None, keyfile}
    /\ pc[p] \in BackupPC => snap[p].key = keyfile
    /\ pc[p] \in {"push"} \cup KeepPC \cup PutPC => kit[p].keyfile = kit[p].snap.key
    /\ pc[p] = "forget" => marker /\ keyfile # None

OldSetAt(p) ==
    /\ pc[p] \in KeepPC \cup UndoPC =>
         /\ KeysMatch(OldKey, OldHead, marker \/ kept.marker)
         /\ kept.keyfile # None => keyfile = None
         /\ kept.head # None => head = None
    /\ pc[p] \in PutPC \cup {"rollback"} => KeysMatch(kept.keyfile, kept.head, kept.marker)
    /\ pc[p] = "keep_keyfile" => kept.keyfile = None
    /\ pc[p] \in {"keep_keyfile", "keep_head"} => kept.head = None
    /\ pc[p] \in KeepPC => ~kept.marker
    /\ pc[p] \in {"undo_head", "undo_marker"} => kept.keyfile = None
    /\ pc[p] = "undo_marker" => kept.head = None

NewSetAt(p) ==
    /\ pc[p] \in (KeepPC \ {"keep_keyfile"}) \cup {"put_snapshots", "put_keyfile"}
         => keyfile = None
    /\ pc[p] \in {"keep_snapshots", "keep_marker", "put_snapshots", "put_keyfile", "put_head"}
         => head = None
    /\ pc[p] \in PutPC => ~marker
    /\ pc[p] \in {"put_head", "put_marker"} => keyfile = kit[p].keyfile
    /\ pc[p] = "put_marker" => head = kit[p].snap

KeysGood ==
    /\ (\A p \in Procs : pc[p] \notin ImportPC \ {"forget"}) =>
          KeysMatch(keyfile, head, marker)
    /\ \A p \in Procs : KeysAt(p) /\ OldSetAt(p) /\ NewSetAt(p)
    /\ HeadOpens
    /\ KitsOpen

KeyInv == ~torn => KeysGood

(* What a killed helper's transport may still publish opens as well.       *)
OrphansOpen == ~torn => \A k \in orphans : k.keyfile = k.snap.key

LEMMA KeysNow ==
    ASSUME TypeInv, KeysGood, NEW p \in Procs,
           pc[p] \notin ImportPC \ {"forget"},
           pc[p] = "idle" => lock = None
    PROVE  KeysMatch(keyfile, head, marker)
  <1>1. \A q \in Procs : q # p => pc[q] = "idle"
    BY DEF TypeInv, LockHeld
  <1> QED
    BY <1>1 DEF KeysGood, ImportPC, KeepPC, PutPC, UndoPC

(* A step to a place outside an import.                                    *)
LEMMA KeysQuiet ==
    ASSUME NEW p \in Procs, NEW l \in PC \ (ImportPC \ {"forget"}), OnlyAt(p, l),
           KeysMatch(keyfile, head, marker)', KeysAt(p)', KitsOpen'
    PROVE  KeysGood'
  <1>1. \A q \in Procs : pc'[q] \notin ImportPC \ {"forget"}
    BY DEF OnlyAt, ImportPC, KeepPC, PutPC, UndoPC
  <1>2. \A q \in Procs : OldSetAt(q)' /\ NewSetAt(q)'
    BY <1>1 DEF OldSetAt, NewSetAt, ImportPC, KeepPC, PutPC, UndoPC
  <1>3. \A q \in Procs : KeysAt(q)'
    BY DEF OnlyAt, KeysAt, BackupPC, KeepPC, PutPC
  <1>4. HeadOpens'
    BY DEF KeysMatch, HeadOpens
  <1> QED
    BY <1>2, <1>3, <1>4 DEF KeysGood

(* A step to a place within an import.                                     *)
LEMMA KeysMoved ==
    ASSUME NEW p \in Procs, NEW l \in ImportPC \ {"forget"}, OnlyAt(p, l),
           KeysAt(p)', OldSetAt(p)', NewSetAt(p)', HeadOpens', KitsOpen'
    PROVE  KeysGood'
  <1>1. \A q \in Procs : KeysAt(q)' /\ OldSetAt(q)' /\ NewSetAt(q)'
    BY DEF OnlyAt, KeysAt, OldSetAt, NewSetAt, BackupPC, KeepPC, PutPC, UndoPC
  <1> QED
    BY <1>1 DEF KeysGood, OnlyAt

LEMMA KeyInvInit == Init => KeyInv
  BY DEF Init, KeyInv, KeysGood, KeysMatch, KeysAt, OldSetAt, NewSetAt, HeadOpens, KitsOpen,
     EmptyDir, ImportPC, BackupPC, KeepPC, PutPC, UndoPC

LEMMA KeyInvNext == TypeInv /\ SnapInv /\ KeyInv /\ OrphansOpen /\ [Next]_vars => KeyInv'
  <1> SUFFICES ASSUME TypeInv, SnapInv, KeyInv, OrphansOpen, [Next]_vars, ~torn' PROVE KeysGood'
    BY DEF KeyInv
  <1> USE DEF ImportPC, KeyInv
  <1>1. ASSUME NEW p \in Procs, CmdInit(p) PROVE KeysGood'
    <2>1. OnlyAt(p, "cache") /\ pc[p] = "idle" /\ lock = None
      BY <1>1, EnterControl DEF CmdInit, Enter, PC, BackupPC
    <2>2. KeysGood /\ KeysMatch(keyfile, head, marker)
      BY <1>1, <2>1, KeysNow DEF CmdInit, KeepPC, PutPC, UndoPC, ghosts
    <2>3. KeysMatch(keyfile, head, marker)' /\ KitsOpen'
      BY <1>1, <2>2 DEF CmdInit, KeysMatch, KeysGood, KitsOpen, disk, remote, ghosts, TypeInv, TypeOK
    <2>4. KeysAt(p)'
      BY <1>1, <2>1, <2>2 DEF CmdInit, OnlyAt, KeysAt, KeysMatch, TypeInv, TypeOK, disk,
         BackupPC, KeepPC, PutPC
    <2> QED
      BY <2>1, <2>3, <2>4, KeysQuiet DEF PC, BackupPC, KeepPC, PutPC, UndoPC
  <1>2. ASSUME NEW p \in Procs, CmdRotatePassphrase(p) PROVE KeysGood'
    <2>1. OnlyAt(p, "cache") /\ pc[p] = "idle" /\ lock = None
      BY <1>2, EnterControl DEF CmdRotatePassphrase, Enter, PC, BackupPC
    <2>2. KeysGood /\ KeysMatch(keyfile, head, marker)
      BY <1>2, <2>1, KeysNow DEF CmdRotatePassphrase, KeepPC, PutPC, UndoPC, ghosts
    <2>3. KeysMatch(keyfile, head, marker)' /\ KitsOpen'
      BY <1>2, <2>2 DEF CmdRotatePassphrase, KeysMatch, KeysGood, KitsOpen, disk, remote, ghosts, TypeInv, TypeOK
    <2>4. KeysAt(p)'
      BY <1>2, <2>1, <2>2 DEF CmdRotatePassphrase, OnlyAt, KeysAt, KeysMatch, TypeInv, TypeOK, disk,
         BackupPC, KeepPC, PutPC
    <2> QED
      BY <2>1, <2>3, <2>4, KeysQuiet DEF PC, BackupPC, KeepPC, PutPC, UndoPC
  <1>3. ASSUME NEW p \in Procs, CmdUnlock(p) PROVE KeysGood'
    <2>1. OnlyAt(p, "unlock_store") /\ pc[p] = "idle" /\ lock = None
      BY <1>3, EnterControl DEF CmdUnlock, Enter, PC, BackupPC
    <2>2. KeysGood /\ KeysMatch(keyfile, head, marker)
      BY <1>3, <2>1, KeysNow DEF CmdUnlock, KeepPC, PutPC, UndoPC, ghosts
    <2>3. KeysMatch(keyfile, head, marker)' /\ KitsOpen'
      BY <1>3, <2>2 DEF CmdUnlock, KeysMatch, KeysGood, KitsOpen, disk, remote, ghosts, TypeInv, TypeOK
    <2>4. KeysAt(p)'
      BY <1>3, <2>1, <2>2 DEF CmdUnlock, OnlyAt, KeysAt, KeysMatch, TypeInv, TypeOK, disk,
         BackupPC, KeepPC, PutPC
    <2> QED
      BY <2>1, <2>3, <2>4, KeysQuiet DEF PC, BackupPC, KeepPC, PutPC, UndoPC
  <1>4. ASSUME NEW p \in Procs, CmdBackup(p) PROVE KeysGood'
    <2>1. OnlyAt(p, "load") /\ pc[p] = "idle" /\ lock = None
      BY <1>4, EnterControl DEF CmdBackup, Enter, PC, BackupPC
    <2>2. KeysGood /\ KeysMatch(keyfile, head, marker)
      BY <1>4, <2>1, KeysNow DEF CmdBackup, KeepPC, PutPC, UndoPC, ghosts
    <2>3. KeysMatch(keyfile, head, marker)' /\ KitsOpen'
      BY <1>4, <2>2 DEF CmdBackup, KeysMatch, KeysGood, KitsOpen, disk, remote, ghosts, TypeInv, TypeOK
    <2>4. KeysAt(p)'
      BY <2>1 DEF OnlyAt, KeysAt, BackupPC, KeepPC, PutPC
    <2> QED
      BY <2>1, <2>3, <2>4, KeysQuiet DEF PC, BackupPC, KeepPC, PutPC, UndoPC
  <1>4a. ASSUME NEW p \in Procs, LoadKey(p) PROVE KeysGood'
    <2>1. pc[p] = "load" /\ UNCHANGED <<keyfile, head, marker, keyring, kits, torn>>
      BY <1>4a DEF LoadKey, At, disk, remote, ghosts
    <2>2. KeysGood /\ KeysMatch(keyfile, head, marker)
      BY <2>1, KeysNow DEF KeepPC, PutPC, UndoPC
    <2>3. KeysMatch(keyfile, head, marker)' /\ KitsOpen'
      BY <2>1, <2>2 DEF KeysMatch, KeysGood, KitsOpen
    <2>4. CASE Exit(p)
      <3>1. OnlyAt(p, "idle")
        BY <2>1, <2>4, ExitControl
      <3>2. KeysAt(p)'
        BY <3>1 DEF OnlyAt, KeysAt, BackupPC, KeepPC, PutPC
      <3> QED
        BY <2>3, <3>1, <3>2, KeysQuiet DEF PC, KeepPC, PutPC, UndoPC
    <2>5. CASE ~Exit(p)
      <3>1. OnlyAt(p, "link") /\ keyring # None
        BY <1>4a, <2>1, <2>5, GotoControl DEF LoadKey, PC, BackupPC
      <3>2. keyring = keyfile
        BY <2>1, <2>2, <3>1 DEF KeysMatch, TypeInv, LocalsSet
      <3>3. snap'[p].key = keyring
        BY <1>4a, <2>5 DEF LoadKey, TypeInv, TypeOK
      <3>4. KeysAt(p)'
        BY <2>1, <3>1, <3>2, <3>3 DEF OnlyAt, KeysAt, KeepPC, PutPC
      <3> QED
        BY <2>3, <3>1, <3>4, KeysQuiet DEF PC, BackupPC, KeepPC, PutPC, UndoPC
    <2> QED
      BY <2>4, <2>5
  <1>5. ASSUME NEW p \in Procs, CmdImport(p) PROVE KeysGood'
    <2>1. PICK l \in {"keep_keyfile", "put_snapshots"} :
            /\ Enter(p, l)
            /\ l = "put_snapshots" => keyfile = None /\ head = None /\ ~marker
      BY <1>5 DEF CmdImport, StateHasRecoveryData
    <2>2. OnlyAt(p, l) /\ pc[p] = "idle" /\ lock = None
      BY <2>1, EnterControl DEF Enter, PC, KeepPC, PutPC
    <2>3. KeysGood /\ KeysMatch(keyfile, head, marker)
      BY <1>5, <2>2, KeysNow DEF CmdImport, KeepPC, PutPC, UndoPC
    <2>4. kept = EmptyDir
      BY <2>2, KeptEmpty DEF KeepPC, PutPC, UndoPC
    <2>5. PICK k \in kits : kit' = [kit EXCEPT ![p] = k]
      BY <1>5 DEF CmdImport
    <2>6. UNCHANGED <<keyfile, head, marker, kept, keyring, kits, torn>>
      BY <1>5 DEF CmdImport, disk, aside, remote
    <2>7. KeysAt(p)'
      BY <2>1, <2>2, <2>3, <2>5, <2>6 DEF OnlyAt, KeysAt, KeysGood, KitsOpen, TypeInv, TypeOK, BackupPC, KeepPC,
         PutPC
    <2>8. OldSetAt(p)' /\ NewSetAt(p)'
      BY <2>1, <2>2, <2>3, <2>4, <2>6 DEF OnlyAt, OldSetAt, NewSetAt, OldKey, OldHead, KeysMatch,
         EmptyDir, TypeInv, TypeOK, KeepPC, PutPC, UndoPC
    <2>9. HeadOpens' /\ KitsOpen'
      BY <2>3, <2>6 DEF KeysGood, HeadOpens, KitsOpen
    <2> QED
      BY <2>1, <2>2, <2>7, <2>8, <2>9, KeysMoved DEF KeepPC, PutPC
  <1>6. ASSUME NEW p \in Procs, CacheKey(p) PROVE KeysGood'
    <2>1. OnlyAt(p, "idle") /\ pc[p] \in {"cache"}
      BY <1>6, ExitControl DEF CacheKey, At
    <2>2. KeysGood /\ KeysMatch(keyfile, head, marker)
      BY <1>6, <2>1, KeysNow DEF CacheKey, KeepPC, PutPC, UndoPC, ghosts
    <2>3. KeysMatch(keyfile, head, marker)' /\ KitsOpen'
      BY <1>6, <2>1, <2>2 DEF CacheKey, KeysMatch, KeysAt, KeysGood, KitsOpen, disk, remote, ghosts,
         BackupPC, TypeInv, TypeOK, LocalsSet
    <2>4. KeysAt(p)'
      BY <2>1 DEF OnlyAt, KeysAt, BackupPC, KeepPC, PutPC
    <2> QED
      BY <2>1, <2>3, <2>4, KeysQuiet DEF PC, KeepPC, PutPC, UndoPC
  <1>7. ASSUME NEW p \in Procs, UnlockStore(p) PROVE KeysGood'
    <2>1. PICK l \in {"idle", "unlock_clear"} :
            /\ OnlyAt(p, l)
            /\ l = "unlock_clear" => keyring' = masterKey[p]
            /\ keyring' \in {keyring, masterKey[p]}
      <3>1. CASE Step(p, "unlock_store", "unlock_clear") /\ keyring' = masterKey[p]
        BY <3>1, StepControl DEF PC
      <3>2. CASE At(p, "unlock_store") /\ Exit(p) /\ UNCHANGED keyring
        BY <3>2, ExitControl DEF At
      <3> QED
        BY <1>7, <3>1, <3>2 DEF UnlockStore
    <2>2. pc[p] = "unlock_store" /\ UNCHANGED <<keyfile, head, marker, kits, torn>>
      BY <1>7 DEF UnlockStore, Step, At, disk, remote, ghosts
    <2>3. KeysGood /\ KeysMatch(keyfile, head, marker)
      BY <2>2, KeysNow DEF KeepPC, PutPC, UndoPC
    <2>4. masterKey[p] = keyfile /\ keyfile # None
      BY <2>2, <2>3 DEF KeysGood, KeysAt, TypeInv, LocalsSet
    <2>5. KeysMatch(keyfile, head, marker)' /\ KitsOpen'
      BY <2>1, <2>2, <2>3, <2>4 DEF KeysMatch, KeysGood, KitsOpen
    <2>6. KeysAt(p)'
      BY <2>1, <2>2, <2>4 DEF OnlyAt, KeysAt, BackupPC, KeepPC, PutPC
    <2> QED
      BY <2>1, <2>5, <2>6, KeysQuiet DEF PC, KeepPC, PutPC, UndoPC
  <1>8. ASSUME NEW p \in Procs, UnlockClear(p) PROVE KeysGood'
    <2>1. OnlyAt(p, "idle") /\ pc[p] \in {"unlock_clear"}
      BY <1>8, ExitControl DEF UnlockClear, At
    <2>2. KeysGood /\ KeysMatch(keyfile, head, marker)
      BY <1>8, <2>1, KeysNow DEF UnlockClear, KeepPC, PutPC, UndoPC, ghosts
    <2>3. KeysMatch(keyfile, head, marker)' /\ KitsOpen'
      BY <1>8, <2>1, <2>2 DEF UnlockClear, KeysMatch, KeysAt, KeysGood, KitsOpen, disk, remote, ghosts,
         BackupPC, TypeInv, TypeOK, LocalsSet
    <2>4. KeysAt(p)'
      BY <2>1 DEF OnlyAt, KeysAt, BackupPC, KeepPC, PutPC
    <2> QED
      BY <2>1, <2>3, <2>4, KeysQuiet DEF PC, KeepPC, PutPC, UndoPC
  <1>9. ASSUME NEW p \in Procs, LinkSnapshot(p) PROVE KeysGood'
    <2>1. OnlyAt(p, "head") /\ pc[p] = "link"
      BY <1>9, StepControl DEF LinkSnapshot, PC, BackupPC, KeepPC, PutPC, UndoPC, Step, At
    <2>2. KeysGood /\ KeysMatch(keyfile, head, marker)
      BY <1>9, <2>1, KeysNow DEF LinkSnapshot, KeepPC, PutPC, UndoPC, ghosts
    <2>3. KeysMatch(keyfile, head, marker)' /\ KitsOpen'
      BY <1>9, <2>1, <2>2 DEF LinkSnapshot, KeysMatch, KeysAt, KeysGood, KitsOpen, disk, remote, ghosts,
         BackupPC, TypeInv, TypeOK, LocalsSet
    <2>4. KeysAt(p)'
      BY <1>9, <2>1, <2>2 DEF LinkSnapshot, Step, locals, OnlyAt, KeysGood, KeysAt, disk, TypeInv, TypeOK,
         BackupPC, KeepPC, PutPC
    <2> QED
      BY <2>1, <2>3, <2>4, KeysQuiet DEF PC, BackupPC, KeepPC, PutPC, UndoPC
  <1>10. ASSUME NEW p \in Procs, SaveHead(p) PROVE KeysGood'
    <2>1. OnlyAt(p, "rotate") /\ pc[p] = "head"
      BY <1>10, StepControl DEF SaveHead, PC, BackupPC, KeepPC, PutPC, UndoPC, Step, At
    <2>2. KeysGood /\ KeysMatch(keyfile, head, marker)
      BY <1>10, <2>1, KeysNow DEF SaveHead, KeepPC, PutPC, UndoPC, ghosts
    <2>3. KeysMatch(keyfile, head, marker)' /\ KitsOpen'
      BY <1>10, <2>1, <2>2 DEF SaveHead, KeysMatch, KeysAt, KeysGood, KitsOpen, disk, remote, ghosts,
         BackupPC, TypeInv, TypeOK, LocalsSet
    <2>4. KeysAt(p)'
      BY <1>10, <2>1, <2>2 DEF SaveHead, Step, locals, OnlyAt, KeysGood, KeysAt, disk, TypeInv, TypeOK,
         BackupPC, KeepPC, PutPC
    <2> QED
      BY <2>1, <2>3, <2>4, KeysQuiet DEF PC, BackupPC, KeepPC, PutPC, UndoPC
  <1>11. ASSUME NEW p \in Procs, BackupFail(p) PROVE KeysGood'
    <2>1. OnlyAt(p, "idle") /\ pc[p] \in {"link", "head"}
      BY <1>11, ExitControl DEF BackupFail, At
    <2>2. KeysGood /\ KeysMatch(keyfile, head, marker)
      BY <1>11, <2>1, KeysNow DEF BackupFail, KeepPC, PutPC, UndoPC, ghosts
    <2>3. KeysMatch(keyfile, head, marker)' /\ KitsOpen'
      BY <1>11, <2>1, <2>2 DEF BackupFail, KeysMatch, KeysAt, KeysGood, KitsOpen, disk, remote, ghosts,
         BackupPC, TypeInv, TypeOK, LocalsSet
    <2>4. KeysAt(p)'
      BY <2>1 DEF OnlyAt, KeysAt, BackupPC, KeepPC, PutPC
    <2> QED
      BY <2>1, <2>3, <2>4, KeysQuiet DEF PC, KeepPC, PutPC, UndoPC
  <1>12. ASSUME NEW p \in Procs, RotateOldest(p) PROVE KeysGood'
    <2>1. pc[p] = "rotate" /\ UNCHANGED <<keyfile, head, marker, kept, keyring, kits, torn, pc,
                                          masterKey, snap, kit>>
      BY <1>12 DEF RotateOldest, At, locals, aside, remote, ghosts
    <2> QED
      BY <2>1 DEF KeysGood, KeysMatch, KeysAt, OldSetAt, OldKey, OldHead, NewSetAt, HeadOpens,
         KitsOpen
  <1>13. ASSUME NEW p \in Procs, FinishRotation(p) PROVE KeysGood'
    <2>1. PICK l \in {"idle", "stage"} : OnlyAt(p, l) /\ (l = "stage" => snap' = snap)
      <3>1. CASE Step(p, "rotate", "stage")
        BY <3>1, StepControl DEF Step, locals, PC, BackupPC
      <3>2. CASE At(p, "rotate") /\ Exit(p)
        BY <3>2, ExitControl DEF At
      <3> QED
        BY <1>13, <3>1, <3>2 DEF FinishRotation
    <2>2. pc[p] = "rotate" /\ UNCHANGED <<keyfile, head, marker, keyring, kits, torn>>
      BY <1>13 DEF FinishRotation, Step, At, disk, remote, ghosts
    <2>3. KeysGood /\ KeysMatch(keyfile, head, marker)
      BY <2>2, KeysNow DEF KeepPC, PutPC, UndoPC
    <2>4. KeysMatch(keyfile, head, marker)' /\ KitsOpen'
      BY <2>2, <2>3 DEF KeysMatch, KeysGood, KitsOpen
    <2>5. KeysAt(p)'
      BY <2>1, <2>2, <2>3 DEF OnlyAt, KeysGood, KeysAt, BackupPC, KeepPC, PutPC
    <2> QED
      BY <2>1, <2>4, <2>5, KeysQuiet DEF PC, BackupPC, KeepPC, PutPC, UndoPC
  <1>14. ASSUME NEW p \in Procs, StageKit(p) PROVE KeysGood'
    <2>1. PICK l \in {"push", "record_fail"} :
            /\ Goto(p, l) /\ UNCHANGED <<lock, snap>>
            /\ l = "push" => kit' = [kit EXCEPT ![p] = [keyfile |-> keyfile, snap |-> snap[p]]]
      BY <1>14 DEF StageKit, Step, locals
    <2>2. pc[p] = "stage" /\ UNCHANGED <<keyfile, head, marker, keyring, kits, torn>>
      BY <1>14 DEF StageKit, Step, At, disk, remote, ghosts
    <2>3. OnlyAt(p, l)
      BY <2>1, <2>2, GotoControl DEF PC, BackupPC
    <2>4. KeysGood /\ KeysMatch(keyfile, head, marker)
      BY <2>2, KeysNow DEF KeepPC, PutPC, UndoPC
    <2>5. KeysMatch(keyfile, head, marker)' /\ KitsOpen'
      BY <2>2, <2>4 DEF KeysMatch, KeysGood, KitsOpen
    <2>6. KeysAt(p)'
      BY <2>1, <2>2, <2>3, <2>4 DEF OnlyAt, KeysGood, KeysAt, TypeInv, TypeOK, BackupPC, KeepPC,
         PutPC
    <2> QED
      BY <2>3, <2>5, <2>6, KeysQuiet DEF PC, BackupPC, KeepPC, PutPC, UndoPC
  <1>14a. ASSUME NEW p \in Procs, Publish(p) PROVE KeysGood'
    <2>1. /\ pc[p] = "push" /\ kits' = kits \cup {kit[p]} /\ ~torn
          /\ UNCHANGED <<keyfile, head, marker, kept, keyring, pc, masterKey, snap, kit, torn>>
      BY <1>14a DEF Publish, At, disk, aside, locals, ghosts
    <2>2. KeysGood /\ kit[p].keyfile = kit[p].snap.key
      BY <2>1 DEF KeysGood, KeysAt
    <2>3. KitsOpen'
      BY <2>1, <2>2 DEF KeysGood, KitsOpen
    <2> QED
      BY <2>1, <2>2, <2>3 DEF KeysGood, KeysMatch, KeysAt, OldSetAt, OldKey, OldHead, NewSetAt, HeadOpens
  <1>15. ASSUME NEW p \in Procs, PushKit(p) PROVE KeysGood'
    <2>1. PICK l \in {"record_ok", "record_fail"} : Step(p, "push", l)
      BY <1>15 DEF PushKit
    <2>2. OnlyAt(p, l) /\ pc[p] = "push" /\ UNCHANGED <<snap, keyfile, head, marker, keyring, kits, torn>>
      BY <1>15, <2>1, StepControl DEF PushKit, PC, BackupPC, Step, At, locals, disk, remote, ghosts
    <2>3. KeysGood /\ KeysMatch(keyfile, head, marker)
      BY <2>2, KeysNow DEF KeepPC, PutPC, UndoPC
    <2>4. KeysMatch(keyfile, head, marker)' /\ KitsOpen'
      BY <2>2, <2>3 DEF KeysMatch, KeysGood, KitsOpen
    <2>5. KeysAt(p)'
      BY <2>2, <2>3 DEF OnlyAt, KeysGood, KeysAt, BackupPC, KeepPC, PutPC
    <2> QED
      BY <2>2, <2>4, <2>5, KeysQuiet DEF PC, BackupPC, KeepPC, PutPC, UndoPC
  <1>16. ASSUME NEW p \in Procs, RecordAttempt(p) PROVE KeysGood'
    <2>1. OnlyAt(p, "idle") /\ pc[p] \in {"record_ok", "record_fail"}
      BY <1>16, ExitControl DEF RecordAttempt, At
    <2>2. KeysGood /\ KeysMatch(keyfile, head, marker)
      BY <1>16, <2>1, KeysNow DEF RecordAttempt, KeepPC, PutPC, UndoPC, ghosts
    <2>3. KeysMatch(keyfile, head, marker)' /\ KitsOpen'
      BY <1>16, <2>1, <2>2 DEF RecordAttempt, KeysMatch, KeysAt, KeysGood, KitsOpen, disk, remote, ghosts,
         BackupPC, TypeInv, TypeOK, LocalsSet
    <2>4. KeysAt(p)'
      BY <2>1 DEF OnlyAt, KeysAt, BackupPC, KeepPC, PutPC
    <2> QED
      BY <2>1, <2>3, <2>4, KeysQuiet DEF PC, KeepPC, PutPC, UndoPC
  <1>17. ASSUME NEW p \in Procs, KeepKeyfile(p) PROVE KeysGood'
    <2>1. OnlyAt(p, "keep_head") /\ pc[p] = "keep_keyfile"
      BY <1>17, StepControl DEF KeepKeyfile, PC, KeepPC, PutPC, UndoPC, Step, At
    <2>2. ~torn /\ UNCHANGED <<kits, keyring, kit>>
      BY <1>17 DEF KeepKeyfile, UndoRenameFails, Step, locals, remote, ghosts
    <2>3. KeysGood /\ KeysAt(p) /\ OldSetAt(p) /\ NewSetAt(p) /\ HeadOpens /\ KitsOpen'
      BY <2>2 DEF KeysGood, KitsOpen
    <2>4. /\ kept'.keyfile = keyfile /\ kept'.head = kept.head /\ kept'.marker = kept.marker
          /\ keyfile' = None /\ UNCHANGED <<head, marker>>
      BY <1>17 DEF KeepKeyfile, UndoRenameFails, disk, aside, ghosts, TypeInv, TypeOK, Saved
    <2>5. KeysAt(p)' /\ NewSetAt(p)'
      BY <2>1, <2>2, <2>3, <2>4 DEF OnlyAt, KeysAt, NewSetAt, BackupPC, KeepPC, PutPC, UndoPC
    <2>6. OldSetAt(p)'
      BY <2>1, <2>2, <2>3, <2>4 DEF OnlyAt, OldSetAt, NewSetAt, OldKey, OldHead, KeysMatch, KeepPC, PutPC, UndoPC,
         TypeInv, TypeOK, Saved
    <2>7. HeadOpens'
      BY <2>1, <2>2, <2>3, <2>4 DEF HeadOpens, KeysAt, OldSetAt, NewSetAt, OldKey, OldHead, KeysMatch, KeepPC, PutPC, UndoPC
    <2> QED
      BY <2>1, <2>3, <2>5, <2>6, <2>7, KeysMoved DEF KeepPC, PutPC, UndoPC
  <1>18. ASSUME NEW p \in Procs, KeepHead(p) PROVE KeysGood'
    <2>1. OnlyAt(p, "keep_snapshots") /\ pc[p] = "keep_head"
      BY <1>18, StepControl DEF KeepHead, PC, KeepPC, PutPC, UndoPC, Step, At
    <2>2. ~torn /\ UNCHANGED <<kits, keyring, kit>>
      BY <1>18 DEF KeepHead, UndoRenameFails, Step, locals, remote, ghosts
    <2>3. KeysGood /\ KeysAt(p) /\ OldSetAt(p) /\ NewSetAt(p) /\ HeadOpens /\ KitsOpen'
      BY <2>2 DEF KeysGood, KitsOpen
    <2>4. /\ kept'.keyfile = kept.keyfile /\ kept'.head = head /\ kept'.marker = kept.marker
          /\ head' = None /\ UNCHANGED <<keyfile, marker>>
      BY <1>18 DEF KeepHead, UndoRenameFails, disk, aside, ghosts, TypeInv, TypeOK, Saved
    <2>5. KeysAt(p)' /\ NewSetAt(p)'
      BY <2>1, <2>2, <2>3, <2>4 DEF OnlyAt, KeysAt, NewSetAt, BackupPC, KeepPC, PutPC, UndoPC
    <2>6. OldSetAt(p)'
      BY <2>1, <2>2, <2>3, <2>4 DEF OnlyAt, OldSetAt, NewSetAt, OldKey, OldHead, KeysMatch, KeepPC, PutPC, UndoPC,
         TypeInv, TypeOK, Saved
    <2>7. HeadOpens'
      BY <2>1, <2>2, <2>3, <2>4 DEF HeadOpens, KeysAt, OldSetAt, NewSetAt, OldKey, OldHead, KeysMatch, KeepPC, PutPC, UndoPC
    <2> QED
      BY <2>1, <2>3, <2>5, <2>6, <2>7, KeysMoved DEF KeepPC, PutPC, UndoPC
  <1>19. ASSUME NEW p \in Procs, KeepSnapshots(p) PROVE KeysGood'
    <2>1. OnlyAt(p, "keep_marker") /\ pc[p] = "keep_snapshots"
      BY <1>19, StepControl DEF KeepSnapshots, PC, KeepPC, PutPC, UndoPC, Step, At
    <2>2. ~torn /\ UNCHANGED <<kits, keyring, kit>>
      BY <1>19 DEF KeepSnapshots, UndoRenameFails, Step, locals, remote, ghosts
    <2>3. KeysGood /\ KeysAt(p) /\ OldSetAt(p) /\ NewSetAt(p) /\ HeadOpens /\ KitsOpen'
      BY <2>2 DEF KeysGood, KitsOpen
    <2>4. /\ kept'.keyfile = kept.keyfile /\ kept'.head = kept.head /\ kept'.marker = kept.marker
          /\ UNCHANGED <<keyfile, head, marker>>
      BY <1>19 DEF KeepSnapshots, UndoRenameFails, disk, aside, ghosts, TypeInv, TypeOK, Saved
    <2>5. KeysAt(p)' /\ NewSetAt(p)'
      BY <2>1, <2>2, <2>3, <2>4 DEF OnlyAt, KeysAt, NewSetAt, BackupPC, KeepPC, PutPC, UndoPC
    <2>6. OldSetAt(p)'
      BY <2>1, <2>2, <2>3, <2>4 DEF OnlyAt, OldSetAt, NewSetAt, OldKey, OldHead, KeysMatch, KeepPC, PutPC, UndoPC,
         TypeInv, TypeOK, Saved
    <2>7. HeadOpens'
      BY <2>1, <2>2, <2>3, <2>4 DEF HeadOpens, KeysAt, OldSetAt, NewSetAt, OldKey, OldHead, KeysMatch, KeepPC, PutPC, UndoPC
    <2> QED
      BY <2>1, <2>3, <2>5, <2>6, <2>7, KeysMoved DEF KeepPC, PutPC, UndoPC
  <1>20. ASSUME NEW p \in Procs, KeepMarker(p) PROVE KeysGood'
    <2>1. OnlyAt(p, "put_snapshots") /\ pc[p] = "keep_marker"
      BY <1>20, StepControl DEF KeepMarker, PC, KeepPC, PutPC, UndoPC, Step, At
    <2>2. ~torn /\ UNCHANGED <<kits, keyring, kit>>
      BY <1>20 DEF KeepMarker, UndoRenameFails, Step, locals, remote, ghosts
    <2>3. KeysGood /\ KeysAt(p) /\ OldSetAt(p) /\ NewSetAt(p) /\ HeadOpens /\ KitsOpen'
      BY <2>2 DEF KeysGood, KitsOpen
    <2>4. /\ kept'.keyfile = kept.keyfile /\ kept'.head = kept.head /\ kept'.marker = marker
          /\ marker' = FALSE /\ UNCHANGED <<keyfile, head>>
      BY <1>20 DEF KeepMarker, UndoRenameFails, disk, aside, ghosts, TypeInv, TypeOK, Saved
    <2>5. KeysAt(p)' /\ NewSetAt(p)'
      BY <2>1, <2>2, <2>3, <2>4 DEF OnlyAt, KeysAt, NewSetAt, BackupPC, KeepPC, PutPC, UndoPC
    <2>6. OldSetAt(p)'
      BY <2>1, <2>2, <2>3, <2>4 DEF OnlyAt, OldSetAt, NewSetAt, OldKey, OldHead, KeysMatch, KeepPC, PutPC, UndoPC,
         TypeInv, TypeOK, Saved
    <2>7. HeadOpens'
      BY <2>1, <2>2, <2>3, <2>4 DEF HeadOpens, KeysAt, OldSetAt, NewSetAt, OldKey, OldHead, KeysMatch, KeepPC, PutPC, UndoPC
    <2> QED
      BY <2>1, <2>3, <2>5, <2>6, <2>7, KeysMoved DEF KeepPC, PutPC, UndoPC
  <1>21. ASSUME NEW p \in Procs, KeepFail(p) PROVE KeysGood'
    <2>1. OnlyAt(p, "undo_snapshots") /\ pc[p] \in KeepPC
      BY <1>21, GotoControl DEF KeepFail, PC, KeepPC, PutPC, UndoPC, Step, At
    <2>2. ~torn /\ UNCHANGED <<kits, keyring, kit>>
      BY <1>21 DEF KeepFail, UndoRenameFails, Step, locals, remote, ghosts
    <2>3. KeysGood /\ KeysAt(p) /\ OldSetAt(p) /\ NewSetAt(p) /\ HeadOpens /\ KitsOpen'
      BY <2>2 DEF KeysGood, KitsOpen
    <2>4. UNCHANGED <<keyfile, head, marker, kept>>
      BY <1>21 DEF KeepFail, UndoRenameFails, disk, aside, ghosts, TypeInv, TypeOK, Saved
    <2>5. KeysAt(p)' /\ NewSetAt(p)'
      BY <2>1, <2>2, <2>3, <2>4 DEF OnlyAt, KeysAt, NewSetAt, BackupPC, KeepPC, PutPC, UndoPC
    <2>6. OldSetAt(p)'
      BY <2>1, <2>2, <2>3, <2>4 DEF OnlyAt, OldSetAt, NewSetAt, OldKey, OldHead, KeysMatch, KeepPC, PutPC, UndoPC,
         TypeInv, TypeOK, Saved
    <2>7. HeadOpens'
      BY <2>1, <2>2, <2>3, <2>4 DEF HeadOpens, KeysAt, OldSetAt, NewSetAt, OldKey, OldHead, KeysMatch, KeepPC, PutPC, UndoPC
    <2> QED
      BY <2>1, <2>3, <2>5, <2>6, <2>7, KeysMoved DEF KeepPC, PutPC, UndoPC
  <1>22. ASSUME NEW p \in Procs, PutSnapshots(p) PROVE KeysGood'
    <2>1. OnlyAt(p, "put_keyfile") /\ pc[p] = "put_snapshots"
      BY <1>22, StepControl DEF PutSnapshots, PC, KeepPC, PutPC, UndoPC, Step, At
    <2>2. ~torn /\ UNCHANGED <<kits, keyring, kit>>
      BY <1>22 DEF PutSnapshots, UndoRenameFails, Step, locals, remote, ghosts
    <2>3. KeysGood /\ KeysAt(p) /\ OldSetAt(p) /\ NewSetAt(p) /\ HeadOpens /\ KitsOpen'
      BY <2>2 DEF KeysGood, KitsOpen
    <2>4. UNCHANGED <<keyfile, head, marker, kept>>
      BY <1>22 DEF PutSnapshots, UndoRenameFails, disk, aside, ghosts, TypeInv, TypeOK, Saved
    <2>5. KeysAt(p)' /\ NewSetAt(p)'
      BY <2>1, <2>2, <2>3, <2>4 DEF OnlyAt, KeysAt, NewSetAt, BackupPC, KeepPC, PutPC, UndoPC
    <2>6. OldSetAt(p)'
      BY <2>1, <2>2, <2>3, <2>4 DEF OnlyAt, OldSetAt, NewSetAt, OldKey, OldHead, KeysMatch, KeepPC, PutPC, UndoPC,
         TypeInv, TypeOK, Saved
    <2>7. HeadOpens'
      BY <2>1, <2>2, <2>3, <2>4 DEF HeadOpens, KeysAt, OldSetAt, NewSetAt, OldKey, OldHead, KeysMatch, KeepPC, PutPC, UndoPC
    <2> QED
      BY <2>1, <2>3, <2>5, <2>6, <2>7, KeysMoved DEF KeepPC, PutPC, UndoPC
  <1>23. ASSUME NEW p \in Procs, PutKeyfile(p) PROVE KeysGood'
    <2>1. OnlyAt(p, "put_head") /\ pc[p] = "put_keyfile"
      BY <1>23, StepControl DEF PutKeyfile, PC, KeepPC, PutPC, UndoPC, Step, At
    <2>2. ~torn /\ UNCHANGED <<kits, keyring, kit>>
      BY <1>23 DEF PutKeyfile, UndoRenameFails, Step, locals, remote, ghosts
    <2>3. KeysGood /\ KeysAt(p) /\ OldSetAt(p) /\ NewSetAt(p) /\ HeadOpens /\ KitsOpen'
      BY <2>2 DEF KeysGood, KitsOpen
    <2>4. keyfile' = kit[p].keyfile /\ UNCHANGED <<head, marker, kept>>
      BY <1>23 DEF PutKeyfile, UndoRenameFails, disk, aside, ghosts, TypeInv, TypeOK, Saved
    <2>5. KeysAt(p)' /\ NewSetAt(p)'
      BY <2>1, <2>2, <2>3, <2>4 DEF OnlyAt, KeysAt, NewSetAt, BackupPC, KeepPC, PutPC, UndoPC
    <2>6. OldSetAt(p)'
      BY <2>1, <2>2, <2>3, <2>4 DEF OnlyAt, OldSetAt, NewSetAt, OldKey, OldHead, KeysMatch, KeepPC, PutPC, UndoPC,
         TypeInv, TypeOK, Saved
    <2>7. HeadOpens'
      BY <2>1, <2>2, <2>3, <2>4 DEF HeadOpens, KeysAt, OldSetAt, NewSetAt, OldKey, OldHead, KeysMatch, KeepPC, PutPC, UndoPC
    <2> QED
      BY <2>1, <2>3, <2>5, <2>6, <2>7, KeysMoved DEF KeepPC, PutPC, UndoPC
  <1>24. ASSUME NEW p \in Procs, PutHead(p) PROVE KeysGood'
    <2>1. OnlyAt(p, "put_marker") /\ pc[p] = "put_head"
      BY <1>24, StepControl DEF PutHead, PC, KeepPC, PutPC, UndoPC, Step, At
    <2>2. ~torn /\ UNCHANGED <<kits, keyring, kit>>
      BY <1>24 DEF PutHead, UndoRenameFails, Step, locals, remote, ghosts
    <2>3. KeysGood /\ KeysAt(p) /\ OldSetAt(p) /\ NewSetAt(p) /\ HeadOpens /\ KitsOpen'
      BY <2>2 DEF KeysGood, KitsOpen
    <2>4. head' = kit[p].snap /\ UNCHANGED <<keyfile, marker, kept>>
      BY <1>24 DEF PutHead, UndoRenameFails, disk, aside, ghosts, TypeInv, TypeOK, Saved
    <2>5. KeysAt(p)' /\ NewSetAt(p)'
      BY <2>1, <2>2, <2>3, <2>4 DEF OnlyAt, KeysAt, NewSetAt, BackupPC, KeepPC, PutPC, UndoPC
    <2>6. OldSetAt(p)'
      BY <2>1, <2>2, <2>3, <2>4 DEF OnlyAt, OldSetAt, NewSetAt, OldKey, OldHead, KeysMatch, KeepPC, PutPC, UndoPC,
         TypeInv, TypeOK, Saved
    <2>7. HeadOpens'
      BY <2>1, <2>2, <2>3, <2>4 DEF HeadOpens, KeysAt, OldSetAt, NewSetAt, OldKey, OldHead, KeysMatch, KeepPC, PutPC, UndoPC
    <2> QED
      BY <2>1, <2>3, <2>5, <2>6, <2>7, KeysMoved DEF KeepPC, PutPC, UndoPC
  <1>25. ASSUME NEW p \in Procs, PutMarker(p) PROVE KeysGood'
    <2>1. OnlyAt(p, "forget") /\ pc[p] = "put_marker"
      BY <1>25, StepControl DEF PutMarker, PC, PutPC, Step, At
    <2>2. ~torn /\ marker' = TRUE /\ UNCHANGED <<keyfile, head, kits, keyring>>
      BY <1>25 DEF PutMarker, remote, ghosts
    <2>3. KeysGood /\ KeysAt(p) /\ NewSetAt(p) /\ KitsOpen'
      BY <2>2 DEF KeysGood, KitsOpen
    <2>4. keyfile \in Keys
      BY <2>1, <2>3 DEF NewSetAt, TypeInv, LocalsSet, PutPC, Kit
    <2>5. KeysAt(p)'
      BY <2>1, <2>2, <2>4 DEF OnlyAt, KeysAt, BackupPC, KeepPC, PutPC
    <2>6. KeysMatch(keyfile, head, marker)'
      BY <2>1, <2>2, <2>3, <2>4 DEF KeysMatch, KeysAt, NewSetAt, PutPC
    <2> QED
      BY <2>1, <2>3, <2>5, <2>6, KeysQuiet DEF PC
  <1>26. ASSUME NEW p \in Procs, PutFail(p) PROVE KeysGood'
    <2>1. OnlyAt(p, "rollback") /\ pc[p] \in PutPC
      BY <1>26, GotoControl DEF PutFail, PC, KeepPC, PutPC, UndoPC, Step, At
    <2>2. ~torn /\ UNCHANGED <<kits, keyring, kit>>
      BY <1>26 DEF PutFail, UndoRenameFails, Step, locals, remote, ghosts
    <2>3. KeysGood /\ KeysAt(p) /\ OldSetAt(p) /\ NewSetAt(p) /\ HeadOpens /\ KitsOpen'
      BY <2>2 DEF KeysGood, KitsOpen
    <2>4. UNCHANGED <<keyfile, head, marker, kept>>
      BY <1>26 DEF PutFail, UndoRenameFails, disk, aside, ghosts, TypeInv, TypeOK, Saved
    <2>5. KeysAt(p)' /\ NewSetAt(p)'
      BY <2>1, <2>2, <2>3, <2>4 DEF OnlyAt, KeysAt, NewSetAt, BackupPC, KeepPC, PutPC, UndoPC
    <2>6. OldSetAt(p)'
      BY <2>1, <2>2, <2>3, <2>4 DEF OnlyAt, OldSetAt, NewSetAt, OldKey, OldHead, KeysMatch, KeepPC, PutPC, UndoPC,
         TypeInv, TypeOK, Saved
    <2>7. HeadOpens'
      BY <2>1, <2>2, <2>3, <2>4 DEF HeadOpens, KeysAt, OldSetAt, NewSetAt, OldKey, OldHead, KeysMatch, KeepPC, PutPC, UndoPC
    <2> QED
      BY <2>1, <2>3, <2>5, <2>6, <2>7, KeysMoved DEF KeepPC, PutPC, UndoPC
  <1>27. ASSUME NEW p \in Procs, Rollback(p) PROVE KeysGood'
    <2>1. OnlyAt(p, "undo_snapshots") /\ pc[p] = "rollback"
      BY <1>27, StepControl DEF Rollback, PC, KeepPC, PutPC, UndoPC, Step, At
    <2>2. ~torn /\ UNCHANGED <<kits, keyring, kit>>
      BY <1>27 DEF Rollback, UndoRenameFails, Step, locals, remote, ghosts
    <2>3. KeysGood /\ KeysAt(p) /\ OldSetAt(p) /\ NewSetAt(p) /\ HeadOpens /\ KitsOpen'
      BY <2>2 DEF KeysGood, KitsOpen
    <2>4. keyfile' = None /\ head' = None /\ marker' = FALSE /\ UNCHANGED kept
      BY <1>27 DEF Rollback, UndoRenameFails, disk, aside, ghosts, TypeInv, TypeOK, Saved
    <2>5. KeysAt(p)' /\ NewSetAt(p)'
      BY <2>1, <2>2, <2>3, <2>4 DEF OnlyAt, KeysAt, NewSetAt, BackupPC, KeepPC, PutPC, UndoPC
    <2>6. OldSetAt(p)'
      BY <2>1, <2>2, <2>3, <2>4 DEF OnlyAt, OldSetAt, NewSetAt, OldKey, OldHead, KeysMatch, KeepPC, PutPC, UndoPC,
         TypeInv, TypeOK, Saved
    <2>7. HeadOpens'
      BY <2>1, <2>2, <2>3, <2>4 DEF HeadOpens, KeysAt, OldSetAt, NewSetAt, OldKey, OldHead, KeysMatch, KeepPC, PutPC, UndoPC
    <2> QED
      BY <2>1, <2>3, <2>5, <2>6, <2>7, KeysMoved DEF KeepPC, PutPC, UndoPC
  <1>28. ASSUME NEW p \in Procs, UndoSnapshots(p) PROVE KeysGood'
    <2>1. OnlyAt(p, "undo_keyfile") /\ pc[p] = "undo_snapshots"
      BY <1>28, StepControl DEF UndoSnapshots, PC, KeepPC, PutPC, UndoPC, Step, At
    <2>2. ~torn /\ UNCHANGED <<kits, keyring, kit>>
      BY <1>28 DEF UndoSnapshots, UndoRenameFails, Step, locals, remote, ghosts
    <2>3. KeysGood /\ KeysAt(p) /\ OldSetAt(p) /\ NewSetAt(p) /\ HeadOpens /\ KitsOpen'
      BY <2>2 DEF KeysGood, KitsOpen
    <2>4. /\ kept'.keyfile = kept.keyfile /\ kept'.head = kept.head /\ kept'.marker = kept.marker
          /\ UNCHANGED <<keyfile, head, marker>>
      BY <1>28 DEF UndoSnapshots, UndoRenameFails, disk, aside, ghosts, TypeInv, TypeOK, Saved
    <2>5. KeysAt(p)' /\ NewSetAt(p)'
      BY <2>1, <2>2, <2>3, <2>4 DEF OnlyAt, KeysAt, NewSetAt, BackupPC, KeepPC, PutPC, UndoPC
    <2>6. OldSetAt(p)'
      BY <2>1, <2>2, <2>3, <2>4 DEF OnlyAt, OldSetAt, NewSetAt, OldKey, OldHead, KeysMatch, KeepPC, PutPC, UndoPC,
         TypeInv, TypeOK, Saved
    <2>7. HeadOpens'
      BY <2>1, <2>2, <2>3, <2>4 DEF HeadOpens, KeysAt, OldSetAt, NewSetAt, OldKey, OldHead, KeysMatch, KeepPC, PutPC, UndoPC
    <2> QED
      BY <2>1, <2>3, <2>5, <2>6, <2>7, KeysMoved DEF KeepPC, PutPC, UndoPC
  <1>29. ASSUME NEW p \in Procs, UndoKeyfile(p) PROVE KeysGood'
    <2>1. OnlyAt(p, "undo_head") /\ pc[p] = "undo_keyfile"
      BY <1>29, StepControl DEF UndoKeyfile, PC, KeepPC, PutPC, UndoPC, Step, At
    <2>2. ~torn /\ UNCHANGED <<kits, keyring, kit>>
      BY <1>29 DEF UndoKeyfile, UndoRenameFails, Step, locals, remote, ghosts
    <2>3. KeysGood /\ KeysAt(p) /\ OldSetAt(p) /\ NewSetAt(p) /\ HeadOpens /\ KitsOpen'
      BY <2>2 DEF KeysGood, KitsOpen
    <2>4. /\ keyfile' = IF kept.keyfile = None THEN keyfile ELSE kept.keyfile
          /\ kept'.keyfile = None /\ kept'.head = kept.head /\ kept'.marker = kept.marker
          /\ UNCHANGED <<head, marker>>
      BY <1>29 DEF UndoKeyfile, UndoRenameFails, disk, aside, ghosts, TypeInv, TypeOK, Saved
    <2>5. KeysAt(p)' /\ NewSetAt(p)'
      BY <2>1, <2>2, <2>3, <2>4 DEF OnlyAt, KeysAt, NewSetAt, BackupPC, KeepPC, PutPC, UndoPC
    <2>6. OldSetAt(p)'
      BY <2>1, <2>2, <2>3, <2>4 DEF OnlyAt, OldSetAt, NewSetAt, OldKey, OldHead, KeysMatch, KeepPC, PutPC, UndoPC,
         TypeInv, TypeOK, Saved
    <2>7. HeadOpens'
      BY <2>1, <2>2, <2>3, <2>4 DEF HeadOpens, KeysAt, OldSetAt, NewSetAt, OldKey, OldHead, KeysMatch, KeepPC, PutPC, UndoPC
    <2> QED
      BY <2>1, <2>3, <2>5, <2>6, <2>7, KeysMoved DEF KeepPC, PutPC, UndoPC
  <1>30. ASSUME NEW p \in Procs, UndoHead(p) PROVE KeysGood'
    <2>1. OnlyAt(p, "undo_marker") /\ pc[p] = "undo_head"
      BY <1>30, StepControl DEF UndoHead, PC, KeepPC, PutPC, UndoPC, Step, At
    <2>2. ~torn /\ UNCHANGED <<kits, keyring, kit>>
      BY <1>30 DEF UndoHead, UndoRenameFails, Step, locals, remote, ghosts
    <2>3. KeysGood /\ KeysAt(p) /\ OldSetAt(p) /\ NewSetAt(p) /\ HeadOpens /\ KitsOpen'
      BY <2>2 DEF KeysGood, KitsOpen
    <2>4. /\ head' = IF kept.head = None THEN head ELSE kept.head
          /\ kept'.keyfile = kept.keyfile /\ kept'.head = None /\ kept'.marker = kept.marker
          /\ UNCHANGED <<keyfile, marker>>
      BY <1>30 DEF UndoHead, UndoRenameFails, disk, aside, ghosts, TypeInv, TypeOK, Saved
    <2>5. KeysAt(p)' /\ NewSetAt(p)'
      BY <2>1, <2>2, <2>3, <2>4 DEF OnlyAt, KeysAt, NewSetAt, BackupPC, KeepPC, PutPC, UndoPC
    <2>6. OldSetAt(p)'
      BY <2>1, <2>2, <2>3, <2>4 DEF OnlyAt, OldSetAt, NewSetAt, OldKey, OldHead, KeysMatch, KeepPC, PutPC, UndoPC,
         TypeInv, TypeOK, Saved
    <2>7. HeadOpens'
      BY <2>1, <2>2, <2>3, <2>4 DEF HeadOpens, KeysAt, OldSetAt, NewSetAt, OldKey, OldHead, KeysMatch, KeepPC, PutPC, UndoPC
    <2> QED
      BY <2>1, <2>3, <2>5, <2>6, <2>7, KeysMoved DEF KeepPC, PutPC, UndoPC
  <1>31. ASSUME NEW p \in Procs, UndoMarker(p) PROVE KeysGood'
    <2>1. OnlyAt(p, "idle") /\ pc[p] = "undo_marker"
      BY <1>31, ExitControl DEF UndoMarker, At
    <2>2. ~torn /\ marker' = (marker \/ kept.marker) /\ UNCHANGED <<keyfile, head, kits, keyring>>
      BY <1>31 DEF UndoMarker, remote
    <2>3. KeysGood /\ OldSetAt(p) /\ KitsOpen'
      BY <2>2 DEF KeysGood, KitsOpen
    <2>4. KeysMatch(keyfile, head, marker)'
      BY <2>1, <2>2, <2>3 DEF KeysMatch, OldSetAt, OldKey, OldHead, UndoPC
    <2>5. KeysAt(p)'
      BY <2>1 DEF OnlyAt, KeysAt, BackupPC, KeepPC, PutPC
    <2> QED
      BY <2>1, <2>3, <2>4, <2>5, KeysQuiet DEF PC, KeepPC, PutPC, UndoPC
  <1>32. ASSUME NEW p \in Procs, ForgetKey(p) PROVE KeysGood'
    <2>1. OnlyAt(p, "idle") /\ pc[p] \in {"forget"}
      BY <1>32, ExitControl DEF ForgetKey, At
    <2>2. KeysGood /\ KeysMatch(keyfile, head, marker)
      BY <1>32, <2>1, KeysNow DEF ForgetKey, KeepPC, PutPC, UndoPC, ghosts
    <2>3. KeysMatch(keyfile, head, marker)' /\ KitsOpen'
      BY <1>32, <2>1, <2>2 DEF ForgetKey, KeysMatch, KeysAt, KeysGood, KitsOpen, disk, remote, ghosts,
         BackupPC, TypeInv, TypeOK, LocalsSet
    <2>4. KeysAt(p)'
      BY <2>1 DEF OnlyAt, KeysAt, BackupPC, KeepPC, PutPC
    <2> QED
      BY <2>1, <2>3, <2>4, KeysQuiet DEF PC, KeepPC, PutPC, UndoPC
  <1>33. ASSUME NEW p \in Procs, Crash(p) PROVE KeysGood'
    <2>1. OnlyAt(p, "idle") /\ pc[p] # "idle"
      BY <1>33, ExitControl DEF Crash
    <2>2. ~torn /\ pc[p] \notin ImportWindow /\ UNCHANGED <<keyfile, head, marker, kits, keyring>>
      BY <1>33 DEF Crash, disk
    <2>3. KeysGood /\ OldSetAt(p) /\ KitsOpen'
      BY <2>2 DEF KeysGood, KitsOpen
    <2>4. KeysMatch(keyfile, head, marker)
      <3>1. CASE pc[p] = "keep_keyfile"
        BY <2>3, <3>1 DEF OldSetAt, OldKey, OldHead, KeepPC, KeysMatch, TypeInv, TypeOK, Saved
      <3>2. CASE pc[p] # "keep_keyfile"
        BY <2>1, <2>2, <2>3, <3>2, KeysNow DEF ImportWindow, KeepPC, PutPC, UndoPC
      <3> QED
        BY <3>1, <3>2
    <2>5. KeysMatch(keyfile, head, marker)'
      BY <2>2, <2>4 DEF KeysMatch
    <2>6. KeysAt(p)'
      BY <2>1 DEF OnlyAt, KeysAt, BackupPC, KeepPC, PutPC
    <2> QED
      BY <2>1, <2>3, <2>5, <2>6, KeysQuiet DEF PC, KeepPC, PutPC, UndoPC
  <1>34. CASE KeyringCleared
    <2>1. /\ keyring' = None
          /\ UNCHANGED <<keyfile, head, marker, kept, kits, torn, pc, masterKey, snap, kit>>
      BY <1>34 DEF KeyringCleared, disk, aside, remote, locals, ghosts
    <2> QED
      BY <2>1 DEF KeysGood, KeysMatch, KeysAt, OldSetAt, OldKey, OldHead, NewSetAt, HeadOpens,
         KitsOpen
  <1>34a. CASE OrphanPublishes
    <2>1. /\ \E k \in orphans : kits' = kits \cup {k}
          /\ UNCHANGED <<keyfile, head, marker, kept, keyring, pc, masterKey, snap, kit, torn>>
      BY <1>34a DEF OrphanPublishes, disk, aside, locals, ghosts
    <2>2. KeysGood
      BY <2>1
    <2>3. KitsOpen'
      BY <2>1, <2>2 DEF KeysGood, KitsOpen, OrphansOpen
    <2> QED
      BY <2>1, <2>2, <2>3 DEF KeysGood, KeysMatch, KeysAt, OldSetAt, OldKey, OldHead, NewSetAt, HeadOpens
  <1>35. CASE UNCHANGED vars
    <2>1. UNCHANGED <<keyfile, head, marker, kept, keyring, kits, torn, pc, masterKey, snap, kit>>
      BY <1>35 DEF vars, disk, aside, remote, locals, ghosts
    <2> QED
      BY <2>1 DEF KeysGood, KeysMatch, KeysAt, OldSetAt, OldKey, OldHead, NewSetAt, HeadOpens,
         KitsOpen
  <1> QED
    BY <1>1, <1>2, <1>3, <1>4, <1>4a, <1>5, <1>6, <1>7, <1>8, <1>9, <1>10, <1>11, <1>12, <1>13, <1>14, <1>14a,
       <1>15, <1>16, <1>17, <1>18, <1>19, <1>20, <1>21, <1>22, <1>23, <1>24, <1>25, <1>26, <1>27, <1>28, <1>29,
       <1>30, <1>31, <1>32, <1>33, <1>34, <1>34a, <1>35
       DEF Next, Command, KeyStep, BackupStep, ImportStep

LEMMA OrphansOpenNext == TypeInv /\ KeyInv /\ OrphansOpen /\ [Next]_vars => OrphansOpen'
  <1> SUFFICES ASSUME TypeInv, KeyInv, OrphansOpen, [Next]_vars, ~torn', NEW k \in orphans'
               PROVE  k.keyfile = k.snap.key
    BY DEF OrphansOpen
  <1>1. ~torn
    BY TornStays
  <1>2. CASE k \in orphans
    BY <1>1, <1>2 DEF OrphansOpen
  <1>3. CASE k \notin orphans
    <2>1. PICK p \in Procs : pc[p] = "push" /\ k = kit[p]
      BY <1>3, OrphansStep
    <2> QED
      BY <1>1, <2>1 DEF KeyInv, KeysGood, KeysAt
  <1> QED
    BY <1>2, <1>3

(* The three facts about keys, as long as no import was cut short between  *)
(* its renames: every published kit opens with its own keyfile, head.json's *)
(* snapshot opens with keyfile.json, and so does what a backup is writing. *)
THEOREM BackupsAlwaysOpen == Spec => []BackupsOpen
  <1>1. KeyInv => BackupsOpen
    BY DEF KeyInv, KeysGood, KeysAt, KitsOpen, HeadOpens, BackupUsesOwnKey, BackupsOpen
  <1>2. Init => OrphansOpen
    BY DEF Init, OrphansOpen
  <1> QED
    BY <1>1, <1>2, TypeInvInit, TypeInvNext, SnapInvInit, SnapInvNext, KeyInvInit, KeyInvNext,
       OrphansOpenNext, PTL DEF Spec

-----------------------------------------------------------------------------
(* The status file.  What is recorded as a success is the snapshot of the  *)
(* kit that was staged, pushed and found complete.                         *)

PushAt(p) ==
    /\ pc[p] = "push" => kit[p].snap = snap[p]
    /\ pc[p] = "record_ok" => \E k \in kits : k.snap = snap[p]

StatusInv == StatusHonest /\ \A p \in Procs : PushAt(p)

LEMMA StatusInvInit == Init => StatusInv
  BY DEF Init, StatusInv, StatusHonest, PushAt

\* A step away from the push, of whatever command.
LEMMA StatusKept ==
    ASSUME StatusInv, UNCHANGED <<kits, status>>,
           \A q \in Procs : \/ pc'[q] \notin {"push", "record_ok"}
                            \/ pc'[q] = pc[q] /\ snap'[q] = snap[q] /\ kit'[q] = kit[q]
    PROVE  StatusInv'
  BY DEF StatusInv, StatusHonest, PushAt

LEMMA StatusInvNext == TypeInv /\ StatusInv /\ [Next]_vars => StatusInv'
  <1> SUFFICES ASSUME TypeInv, StatusInv, [Next]_vars PROVE StatusInv'
    OBVIOUS
  <1> USE DEF TypeInv
  <1>1. ASSUME NEW p \in Procs, NEW l \in PC \ {"push", "record_ok"}, Goto(p, l), UNCHANGED <<kits, status>>,
               \A q \in Procs \ {p} : snap'[q] = snap[q] /\ kit'[q] = kit[q]
        PROVE  StatusInv'
    BY <1>1, StatusKept DEF Goto, TypeOK
  <1>2. ASSUME NEW p \in Procs, Command(p) PROVE StatusInv'
    <2>1. PICK l \in PC \ {"push", "record_ok"} : Enter(p, l)
      BY <1>2 DEF Command, CmdInit, CmdRotatePassphrase, CmdUnlock, CmdBackup, CmdImport, PC,
         BackupPC, KeepPC, PutPC, UndoPC
    <2>2. CASE CmdImport(p)
      <3>1. UNCHANGED <<kits, status, snap>> /\ \E k \in kits : kit' = [kit EXCEPT ![p] = k]
        BY <2>2 DEF CmdImport, remote
      <3>2. \A q \in Procs \ {p} : snap'[q] = snap[q] /\ kit'[q] = kit[q]
        BY <3>1 DEF TypeOK
      <3> QED BY <1>1, <2>1, <3>1, <3>2 DEF Enter
    <2>3. CASE ~CmdImport(p)
      <3>1. UNCHANGED <<kits, status, snap, kit>>
        BY <1>2, <2>3 DEF Command, CmdInit, CmdRotatePassphrase, CmdUnlock, CmdBackup, remote, locals
      <3> QED BY <1>1, <2>1, <3>1 DEF Enter
    <2> QED BY <2>2, <2>3
  <1>2a. ASSUME NEW p \in Procs, LoadKey(p) PROVE StatusInv'
    <2>1. UNCHANGED <<kits, status>> /\ \A q \in Procs \ {p} : snap'[q] = snap[q] /\ kit'[q] = kit[q]
      BY <1>2a DEF LoadKey, Exit, remote, TypeOK
    <2>2. \E l \in {"idle", "link"} : Goto(p, l)
      BY <1>2a DEF LoadKey, Exit
    <2> QED BY <1>1, <2>1, <2>2 DEF PC, BackupPC
  <1>3. ASSUME NEW p \in Procs, CacheKey(p) \/ UnlockStore(p) \/ UnlockClear(p) \/ ImportStep(p)
        PROVE  StatusInv'
    <2>1. UNCHANGED <<kits, status>> /\ (UNCHANGED <<snap, kit>> \/ Exit(p))
      BY <1>3 DEF CacheKey, UnlockStore, UnlockClear, ImportStep, KeepKeyfile, KeepHead,
         KeepSnapshots, KeepMarker, KeepFail, PutSnapshots, PutKeyfile, PutHead, PutMarker, PutFail,
         Rollback, UndoSnapshots, UndoKeyfile, UndoHead, UndoMarker, ForgetKey, UndoRenameFails,
         Step, locals, remote
    <2>2. \A q \in Procs \ {p} : snap'[q] = snap[q] /\ kit'[q] = kit[q]
      BY <2>1 DEF Exit, TypeOK
    <2>3. \E l \in PC \ {"push", "record_ok"} : Goto(p, l)
      BY <1>3 DEF CacheKey, UnlockStore, UnlockClear, ImportStep, KeepKeyfile, KeepHead,
         KeepSnapshots, KeepMarker, KeepFail, PutSnapshots, PutKeyfile, PutHead, PutMarker, PutFail,
         Rollback, UndoSnapshots, UndoKeyfile, UndoHead, UndoMarker, ForgetKey, UndoRenameFails,
         Step, Exit, PC, BackupPC, KeepPC, PutPC, UndoPC
    <2> QED BY <1>1, <2>1, <2>2, <2>3
  <1>4. ASSUME NEW p \in Procs, Crash(p) PROVE StatusInv'
    <2>1. \A q \in Procs \ {p} : snap'[q] = snap[q] /\ kit'[q] = kit[q]
      BY <1>4 DEF Crash, Exit, TypeOK
    <2> QED BY <1>1, <1>4, <2>1 DEF Crash, Exit, PC
  <1>5. ASSUME NEW p \in Procs,
               LinkSnapshot(p) \/ SaveHead(p) \/ BackupFail(p) \/ FinishRotation(p) PROVE StatusInv'
    <2>1. /\ UNCHANGED <<kits, status>> /\ (UNCHANGED <<snap, kit>> \/ Exit(p))
          /\ \E l \in PC \ {"push", "record_ok"} : Goto(p, l)
      BY <1>5 DEF LinkSnapshot, SaveHead, BackupFail, FinishRotation, Step, Exit, locals, remote, PC, BackupPC
    <2>2. \A q \in Procs \ {p} : snap'[q] = snap[q] /\ kit'[q] = kit[q]
      BY <2>1 DEF Exit, TypeOK
    <2> QED BY <1>1, <2>1, <2>2
  <1>6. ASSUME NEW p \in Procs, RotateOldest(p) PROVE StatusInv'
    BY <1>6, StatusKept DEF RotateOldest, locals, remote
  <1>7. ASSUME NEW p \in Procs, StageKit(p) PROVE StatusInv'
    <2>1. CASE Step(p, "stage", "record_fail")
      BY <1>1, <1>7, <2>1 DEF StageKit, Step, locals, remote, PC, BackupPC
    <2>2. CASE /\ At(p, "stage") /\ Goto(p, "push") /\ UNCHANGED snap
               /\ kit' = [kit EXCEPT ![p] = [keyfile |-> keyfile, snap |-> snap[p]]]
      BY <1>7, <2>2 DEF StageKit, Goto, StatusInv, StatusHonest, PushAt, TypeOK, remote
    <2> QED BY <1>7, <2>1, <2>2 DEF StageKit
  <1>8. ASSUME NEW p \in Procs, PushKit(p) PROVE StatusInv'
    <2>1. UNCHANGED <<kits, status, snap, kit>> /\ pc[p] = "push"
      BY <1>8 DEF PushKit, Step, At, locals, remote
    <2>2. \/ Goto(p, "record_ok") /\ kit[p] \in kits
          \/ Goto(p, "record_fail")
      BY <1>8 DEF PushKit, Step
    <2>3. kit[p].snap = snap[p]
      BY <2>1 DEF StatusInv, PushAt
    <2> QED BY <2>1, <2>2, <2>3 DEF Goto, StatusInv, StatusHonest, PushAt, TypeOK
  <1>9. ASSUME NEW p \in Procs, RecordAttempt(p) PROVE StatusInv'
    <2>1. kits' = kits /\ Exit(p)
      BY <1>9 DEF RecordAttempt
    <2>2. \A q \in Procs : PushAt(q)'
      BY <2>1 DEF Exit, Goto, StatusInv, PushAt, TypeOK
    <2>3. CASE status' = status
      BY <2>1, <2>2, <2>3 DEF StatusInv, StatusHonest
    <2>4. CASE pc[p] = "record_ok" /\ status' = [attempt |-> snap[p], success |-> snap[p], error |-> FALSE]
      BY <2>1, <2>2, <2>4 DEF StatusInv, StatusHonest, PushAt
    <2>5. CASE status' = [status EXCEPT !.attempt = snap[p], !.error = TRUE]
      BY <2>1, <2>2, <2>5 DEF StatusInv, StatusHonest, TypeOK, Status
    <2> QED BY <1>9, <2>2, <2>3, <2>4, <2>5 DEF StatusInv, RecordAttempt, At
  <1>10. CASE KeyringCleared \/ UNCHANGED vars
    BY <1>10, StatusKept DEF KeyringCleared, vars, locals, remote
  <1>11. ASSUME NEW p \in Procs, Publish(p) PROVE StatusInv'
    <2>1. kits \subseteq kits' /\ UNCHANGED <<status, pc, snap, kit>>
      BY <1>11 DEF Publish, locals
    <2> QED BY <2>1 DEF StatusInv, StatusHonest, PushAt
  <1>12. CASE OrphanPublishes
    BY <1>12 DEF OrphanPublishes, locals, StatusInv, StatusHonest, PushAt
  <1> QED
    BY <1>2, <1>2a, <1>3, <1>4, <1>5, <1>6, <1>7, <1>8, <1>9, <1>10, <1>11, <1>12 DEF Next, BackupStep, KeyStep

(* What `status` calls the last success is on the remote, and it shows an  *)
(* error after every attempt that is not known to have reached it          *)
(* (recordRemoteAttempt), for any number of commands, crashes and failures. *)
THEOREM StatusAlwaysHonest == Spec => []StatusHonest
  <1>1. StatusInv => StatusHonest
    BY DEF StatusInv
  <1> QED
    BY <1>1, TypeInvInit, TypeInvNext, StatusInvInit, StatusInvNext, PTL DEF Spec

-----------------------------------------------------------------------------
(* The keys.  Nothing overwrites a keyfile that no directory holds: while  *)
(* an import installs or removes one, every key init made here is aside.   *)

HeldAside(k) == kept.keyfile = k \/ \E d \in preserved : d.keyfile = k

AsideAt(p) ==
    /\ pc[p] = "keep_keyfile" => kept.keyfile = None
    /\ pc[p] \in {"keep_head", "keep_snapshots", "keep_marker", "put_snapshots", "put_keyfile"} =>
         keyfile = None
    /\ pc[p] \in {"put_head", "put_marker", "rollback"} => \A k \in usedKeys : HeldAside(k)
    /\ pc[p] \in {"undo_snapshots", "undo_keyfile"} => keyfile = None \/ kept.keyfile = None

KeysHeld == KeysPreserved /\ \A p \in Procs : AsideAt(p)

AsideSteps == {"keep_keyfile", "keep_head", "keep_snapshots", "keep_marker", "put_snapshots", "put_keyfile",
               "put_head", "put_marker", "rollback", "undo_snapshots", "undo_keyfile"}

LEMMA KeysHeldInit == Init => KeysHeld
  BY DEF Init, KeysHeld, KeysPreserved, AsideAt

\* A step that takes no keyfile away, to a place that asks nothing of them.
LEMMA KeysLeft ==
    ASSUME TypeOK, KeysHeld, NEW p \in Procs, NEW l \in PC \ AsideSteps, OnlyAt(p, l), usedKeys' = usedKeys,
           keyfile' = keyfile,
           kept' = kept \/ kept.keyfile = None \/ (\E d \in preserved' : d.keyfile = kept.keyfile),
           preserved \subseteq preserved'
    PROVE  KeysHeld'
  <1>1. \A q \in Procs : AsideAt(q)'
    BY DEF OnlyAt, AsideAt, AsideSteps
  <1>2. KeysPreserved'
    BY DEF KeysHeld, KeysPreserved, TypeOK
  <1> QED BY <1>1, <1>2 DEF KeysHeld

LEMMA LeaveKeptHolds ==
    ASSUME TypeInv, LeaveKept
    PROVE  /\ preserved \subseteq preserved'
           /\ kept.keyfile = None \/ \E d \in preserved' : d.keyfile = kept.keyfile
  BY DEF LeaveKept, EmptyDir

LEMMA KeysHeldNext == TypeInv /\ SnapInv /\ KeysHeld /\ [Next]_vars => KeysHeld'
  <1> SUFFICES ASSUME TypeInv, SnapInv, KeysHeld, [Next]_vars PROVE KeysHeld'
    OBVIOUS
  <1> USE DEF TypeInv
  <1>1. ASSUME NEW p \in Procs, CmdInit(p) PROVE KeysHeld'
    <2>1. OnlyAt(p, "cache")
      BY <1>1, EnterControl DEF CmdInit, PC
    <2>2. keyfile = None /\ usedKeys' = usedKeys \cup {keyfile'} /\ UNCHANGED <<kept, preserved>>
      BY <1>1 DEF CmdInit, aside
    <2> QED BY <2>1, <2>2 DEF KeysHeld, KeysPreserved, OnlyAt, AsideAt, TypeOK
  <1>2. ASSUME NEW p \in Procs, CmdRotatePassphrase(p) \/ CmdUnlock(p) \/ CmdBackup(p) PROVE KeysHeld'
    <2>1. \E l \in {"cache", "unlock_store", "load"} : OnlyAt(p, l)
      BY <1>2, EnterControl DEF CmdRotatePassphrase, CmdUnlock, CmdBackup, PC, BackupPC
    <2> QED BY <1>2, <2>1, KeysLeft DEF CmdRotatePassphrase, CmdUnlock, CmdBackup, disk, aside, ghosts,
         AsideSteps, PC, BackupPC
  <1>3. ASSUME NEW p \in Procs, CmdImport(p) PROVE KeysHeld'
    <2>1. OnlyAt(p, IF StateHasRecoveryData THEN "keep_keyfile" ELSE "put_snapshots")
          /\ pc[p] = "idle" /\ lock = None
      BY <1>3, EnterControl DEF CmdImport, Enter, PC, KeepPC, PutPC
    <2>2. kept = EmptyDir
      BY <2>1, KeptEmpty DEF ImportPC, KeepPC, PutPC, UndoPC
    <2>3. UNCHANGED <<keyfile, kept, preserved, usedKeys>>
      BY <1>3 DEF CmdImport, disk, aside
    <2> QED BY <2>1, <2>2, <2>3 DEF KeysHeld, KeysPreserved, AsideAt, OnlyAt, EmptyDir, StateHasRecoveryData
  <1>4. ASSUME NEW p \in Procs, CacheKey(p) \/ UnlockStore(p) \/ UnlockClear(p) PROVE KeysHeld'
    <2>1. \E l \in {"idle", "unlock_clear"} : OnlyAt(p, l)
      BY <1>4, ExitControl, StepControl DEF CacheKey, UnlockStore, UnlockClear, At, PC
    <2> QED BY <1>4, <2>1, KeysLeft DEF CacheKey, UnlockStore, UnlockClear, disk, aside, ghosts, AsideSteps, PC
  <1>4a. ASSUME NEW p \in Procs, LoadKey(p) PROVE KeysHeld'
    <2>1. \E l \in {"idle", "link"} : OnlyAt(p, l)
      BY <1>4a, ExitControl, GotoControl DEF LoadKey, At, PC, BackupPC
    <2> QED BY <1>4a, <2>1, KeysLeft DEF LoadKey, disk, aside, ghosts, AsideSteps, PC, BackupPC
  <1>5. ASSUME NEW p \in Procs, LinkSnapshot(p) \/ SaveHead(p) \/ BackupFail(p) \/ FinishRotation(p)
               \/ PushKit(p) \/ RecordAttempt(p)
        PROVE  KeysHeld'
    <2>1. \E l \in {"head", "rotate", "idle", "stage", "record_ok", "record_fail"} : OnlyAt(p, l)
      BY <1>5, ExitControl, StepControl DEF LinkSnapshot, SaveHead, BackupFail, FinishRotation, PushKit,
         RecordAttempt, At, PC, BackupPC
    <2> QED BY <1>5, <2>1, KeysLeft DEF LinkSnapshot, SaveHead, BackupFail, FinishRotation, PushKit,
         RecordAttempt, disk, aside, ghosts, AsideSteps, PC, BackupPC
  <1>6. ASSUME NEW p \in Procs, StageKit(p) PROVE KeysHeld'
    <2>1. \E l \in {"push", "record_fail"} : OnlyAt(p, l)
      BY <1>6, GotoControl, StepControl DEF StageKit, At, PC, BackupPC
    <2> QED BY <1>6, <2>1, KeysLeft DEF StageKit, disk, aside, ghosts, AsideSteps, PC, BackupPC
  <1>7. ASSUME NEW p \in Procs, RotateOldest(p) PROVE KeysHeld'
    BY <1>7 DEF RotateOldest, aside, ghosts, KeysHeld, KeysPreserved, AsideAt, HeldAside
  <1>8. ASSUME NEW p \in Procs, KeepKeyfile(p) PROVE KeysHeld'
    <2>1. OnlyAt(p, "keep_head") /\ pc[p] = "keep_keyfile"
      BY <1>8, StepControl DEF KeepKeyfile, Step, At, PC, KeepPC
    <2>2. kept'.keyfile = keyfile /\ keyfile' = None /\ kept.keyfile = None
          /\ UNCHANGED <<preserved, usedKeys>>
      BY <1>8, <2>1 DEF KeepKeyfile, ghosts, TypeOK, Saved, KeysHeld, AsideAt
    <2> QED BY <2>1, <2>2 DEF KeysHeld, KeysPreserved, AsideAt, OnlyAt, TypeOK
  <1>9. ASSUME NEW p \in Procs, KeepHead(p) \/ KeepSnapshots(p) \/ KeepMarker(p) PROVE KeysHeld'
    <2>1. \E l \in {"keep_snapshots", "keep_marker", "put_snapshots"} : OnlyAt(p, l)
      BY <1>9, StepControl DEF KeepHead, KeepSnapshots, KeepMarker, PC, KeepPC, PutPC
    <2>2. pc[p] \in {"keep_head", "keep_snapshots", "keep_marker"}
      BY <1>9 DEF KeepHead, KeepSnapshots, KeepMarker, Step, At
    <2>3. kept'.keyfile = kept.keyfile /\ UNCHANGED <<keyfile, preserved, usedKeys>>
      BY <1>9 DEF KeepHead, KeepSnapshots, KeepMarker, ghosts, TypeOK, Saved
    <2> QED BY <2>1, <2>2, <2>3 DEF KeysHeld, KeysPreserved, AsideAt, OnlyAt
  <1>10. ASSUME NEW p \in Procs, KeepFail(p) PROVE KeysHeld'
    <2>1. OnlyAt(p, "undo_snapshots") /\ pc[p] \in KeepPC /\ UNCHANGED <<keyfile, kept, preserved, usedKeys>>
      BY <1>10, GotoControl DEF KeepFail, PC, KeepPC, UndoPC, disk, aside, ghosts
    <2> QED BY <2>1 DEF KeysHeld, KeysPreserved, AsideAt, OnlyAt, KeepPC
  <1>11. ASSUME NEW p \in Procs, PutSnapshots(p) PROVE KeysHeld'
    <2>1. OnlyAt(p, "put_keyfile") /\ pc[p] = "put_snapshots" /\ UNCHANGED <<keyfile, kept, preserved, usedKeys>>
      BY <1>11, StepControl DEF PutSnapshots, Step, At, PC, PutPC, aside, ghosts
    <2> QED BY <2>1 DEF KeysHeld, KeysPreserved, AsideAt, OnlyAt
  <1>12. ASSUME NEW p \in Procs, PutKeyfile(p) PROVE KeysHeld'
    <2>1. OnlyAt(p, "put_head") /\ pc[p] = "put_keyfile" /\ UNCHANGED <<kept, preserved, usedKeys>>
      BY <1>12, StepControl DEF PutKeyfile, Step, At, PC, PutPC, aside, ghosts
    <2>2. \A k \in usedKeys : HeldAside(k)
      BY <2>1 DEF KeysHeld, KeysPreserved, AsideAt, HeldAside, TypeOK
    <2> QED BY <2>1, <2>2 DEF KeysHeld, KeysPreserved, AsideAt, OnlyAt, HeldAside
  <1>13. ASSUME NEW p \in Procs, PutHead(p) PROVE KeysHeld'
    <2>1. OnlyAt(p, "put_marker") /\ pc[p] = "put_head" /\ UNCHANGED <<keyfile, kept, preserved, usedKeys>>
      BY <1>13, StepControl DEF PutHead, Step, At, PC, PutPC, aside, ghosts
    <2> QED BY <2>1 DEF KeysHeld, KeysPreserved, AsideAt, OnlyAt, HeldAside
  <1>14. ASSUME NEW p \in Procs, PutMarker(p) PROVE KeysHeld'
    <2>1. OnlyAt(p, "forget")
      BY <1>14, StepControl DEF PutMarker, PC, PutPC
    <2> QED BY <1>14, <2>1, KeysLeft DEF PutMarker, aside, ghosts, AsideSteps, PC
  <1>15. ASSUME NEW p \in Procs, PutFail(p) PROVE KeysHeld'
    <2>1. OnlyAt(p, "rollback") /\ pc[p] \in PutPC /\ UNCHANGED <<keyfile, kept, preserved, usedKeys>>
      BY <1>15, GotoControl DEF PutFail, PC, PutPC, disk, aside, ghosts
    <2>2. \A k \in usedKeys : HeldAside(k)
      BY <2>1 DEF KeysHeld, KeysPreserved, AsideAt, HeldAside, TypeOK, PutPC
    <2> QED BY <2>1, <2>2 DEF KeysHeld, KeysPreserved, AsideAt, OnlyAt, HeldAside
  <1>16. ASSUME NEW p \in Procs, Rollback(p) PROVE KeysHeld'
    <2>1. OnlyAt(p, "undo_snapshots") /\ pc[p] = "rollback" /\ keyfile' = None
          /\ UNCHANGED <<kept, preserved, usedKeys>>
      BY <1>16, StepControl DEF Rollback, Step, At, PC, UndoPC, aside, ghosts
    <2> QED BY <2>1 DEF KeysHeld, KeysPreserved, AsideAt, OnlyAt, HeldAside
  <1>17. ASSUME NEW p \in Procs, UndoSnapshots(p) PROVE KeysHeld'
    <2>1. OnlyAt(p, "undo_keyfile") /\ pc[p] = "undo_snapshots"
      BY <1>17, StepControl DEF UndoSnapshots, Step, At, PC, UndoPC
    <2>2. kept'.keyfile = kept.keyfile /\ UNCHANGED <<keyfile, preserved, usedKeys>>
      BY <1>17 DEF UndoSnapshots, UndoRenameFails, disk, TypeOK, Saved
    <2> QED BY <2>1, <2>2 DEF KeysHeld, KeysPreserved, AsideAt, OnlyAt
  <1>18. ASSUME NEW p \in Procs, UndoKeyfile(p) PROVE KeysHeld'
    <2>1. OnlyAt(p, "undo_head") /\ pc[p] = "undo_keyfile"
      BY <1>18, StepControl DEF UndoKeyfile, Step, At, PC, UndoPC
    <2>2. /\ UNCHANGED <<preserved, usedKeys>>
          /\ \/ keyfile' = IF kept.keyfile = None THEN keyfile ELSE kept.keyfile
             \/ UNCHANGED <<keyfile, kept>>
      BY <1>18 DEF UndoKeyfile, UndoRenameFails, disk
    <2>3. \A q \in Procs : AsideAt(q)'
      BY <2>1 DEF OnlyAt, AsideAt
    <2>4. KeysPreserved'
      BY <2>1, <2>2 DEF KeysHeld, KeysPreserved, AsideAt, TypeOK
    <2> QED BY <2>3, <2>4 DEF KeysHeld
  <1>19. ASSUME NEW p \in Procs, UndoHead(p) PROVE KeysHeld'
    <2>1. OnlyAt(p, "undo_marker")
      BY <1>19, StepControl DEF UndoHead, PC, UndoPC
    <2>2. kept'.keyfile = kept.keyfile /\ UNCHANGED <<keyfile, preserved, usedKeys>>
      BY <1>19 DEF UndoHead, UndoRenameFails, disk, TypeOK, Saved
    <2> QED BY <2>1, <2>2 DEF KeysHeld, KeysPreserved, AsideAt, OnlyAt
  <1>20. ASSUME NEW p \in Procs, UndoMarker(p) PROVE KeysHeld'
    <2>1. OnlyAt(p, "idle") /\ UNCHANGED <<keyfile, usedKeys>> /\ preserved \subseteq preserved'
      BY <1>20, ExitControl DEF UndoMarker, At
    <2>2. kept.keyfile = None \/ \E d \in preserved' : d.keyfile = kept.keyfile
      BY <1>20 DEF UndoMarker, EmptyDir, TypeOK, Saved
    <2> QED BY <2>1, <2>2, KeysLeft DEF AsideSteps, PC
  <1>21. ASSUME NEW p \in Procs, ForgetKey(p) \/ Crash(p) PROVE KeysHeld'
    <2>1. OnlyAt(p, "idle") /\ UNCHANGED <<keyfile, usedKeys>> /\ LeaveKept
      BY <1>21, ExitControl DEF ForgetKey, Crash, At, disk, ghosts
    <2> QED BY <2>1, LeaveKeptHolds, KeysLeft DEF AsideSteps, PC
  <1>22. CASE KeyringCleared \/ OrphanPublishes \/ (\E p \in Procs : Publish(p)) \/ UNCHANGED vars
    BY <1>22 DEF KeyringCleared, OrphanPublishes, Publish, vars, disk, aside, ghosts, KeysHeld, KeysPreserved, AsideAt, HeldAside
  <1> QED
    BY <1>1, <1>2, <1>3, <1>4, <1>4a, <1>5, <1>6, <1>7, <1>8, <1>9, <1>10, <1>11, <1>12, <1>13, <1>14, <1>15, <1>16,
       <1>17, <1>18, <1>19, <1>20, <1>21, <1>22 DEF Next, Command, KeyStep, BackupStep, ImportStep

(* Every master key init made here is wrapped by some keyfile in the state *)
(* directory or one it was preserved in, whatever was imported with        *)
(* --force, failed or was killed on the way (installRecoveryKit).          *)
THEOREM KeysAlwaysPreserved == Spec => []KeysPreserved
  <1>1. KeysHeld => KeysPreserved
    BY DEF KeysHeld
  <1> QED
    BY <1>1, TypeInvInit, TypeInvNext, SnapInvInit, SnapInvNext, KeysHeldInit, KeysHeldNext, PTL
       DEF Spec

-----------------------------------------------------------------------------
(* The snapshots.  What an import or its rollback overwrites or removes is *)
(* empty or a copy of a kit; rotation never takes the one just linked.     *)

CopiesOnly == \A s \in snapshots : \E k \in kits : k.snap = s

MovedAt(p) ==
    /\ pc[p] \in KeepPC \cup PutPC => kit[p] \in kits
    /\ pc[p] \in {"keep_keyfile", "keep_head", "keep_snapshots"} => kept.snapshots = {}
    /\ pc[p] \in {"keep_marker", "put_snapshots"} => snapshots = {}
    /\ pc[p] \in {"put_keyfile", "put_head", "put_marker", "rollback"} => CopiesOnly
    /\ pc[p] = "undo_snapshots" => snapshots = {} \/ kept.snapshots = {}
    /\ pc[p] = "head" => NewerThanOthers(snap[p])
    /\ pc[p] = "rotate" => head = snap[p] /\ NewerThanOthers(snap[p])

SnapsHeld == \A p \in Procs : MovedAt(p)

MovingSteps == KeepPC \cup PutPC \cup {"rollback", "undo_snapshots", "head", "rotate"}

NothingLost ==
    \A s \in LocalSnapshots \ LocalSnapshots' :
        \/ \E k \in kits : k.snap = s
        \/ \E p \in Procs : At(p, "rotate") /\ Oldest(s) /\ s # head

LEMMA SnapsHeldInit == Init => SnapsHeld
  BY DEF Init, SnapsHeld, MovedAt, KeepPC, PutPC

\* A step that takes no snapshot away, to a place that asks nothing of them.
LEMMA SnapsLeft ==
    ASSUME SnapsHeld, NEW p \in Procs, NEW l \in PC \ MovingSteps, OnlyAt(p, l),
           snapshots \subseteq snapshots', preserved \subseteq preserved',
           kept' = kept \/ kept.snapshots = {} \/ (\E d \in preserved' : d.snapshots = kept.snapshots)
    PROVE  SnapsHeld' /\ NothingLost
  <1>1. SnapsHeld'
    BY DEF OnlyAt, SnapsHeld, MovedAt, MovingSteps, KeepPC, PutPC
  <1>2. NothingLost
    BY DEF NothingLost, LocalSnapshots
  <1> QED BY <1>1, <1>2

LEMMA SnapsHeldNext == TypeInv /\ SnapInv /\ SnapsHeld /\ [Next]_vars => SnapsHeld' /\ NothingLost
  <1> SUFFICES ASSUME TypeInv, SnapInv, SnapsHeld, [Next]_vars PROVE SnapsHeld' /\ NothingLost
    OBVIOUS
  <1> USE DEF TypeInv
  <1>1. ASSUME NEW p \in Procs, CmdInit(p) \/ CmdRotatePassphrase(p) \/ CmdUnlock(p) \/ CmdBackup(p)
        PROVE  SnapsHeld' /\ NothingLost
    <2>1. \E l \in {"cache", "unlock_store", "load"} : OnlyAt(p, l)
      BY <1>1, EnterControl DEF CmdInit, CmdRotatePassphrase, CmdUnlock, CmdBackup, PC, BackupPC
    <2>2. UNCHANGED <<snapshots, kept, preserved>>
      BY <1>1 DEF CmdInit, CmdRotatePassphrase, CmdUnlock, CmdBackup, disk, aside
    <2> QED BY <2>1, <2>2, SnapsLeft DEF MovingSteps, PC, BackupPC, KeepPC, PutPC
  <1>2. ASSUME NEW p \in Procs, CmdImport(p) PROVE SnapsHeld' /\ NothingLost
    <2>1. OnlyAt(p, IF StateHasRecoveryData THEN "keep_keyfile" ELSE "put_snapshots")
          /\ pc[p] = "idle" /\ lock = None
      BY <1>2, EnterControl DEF CmdImport, Enter, PC, KeepPC, PutPC
    <2>2. kept = EmptyDir
      BY <2>1, KeptEmpty DEF ImportPC, KeepPC, PutPC, UndoPC
    <2>3. kit'[p] \in kits' /\ UNCHANGED <<snapshots, kept, preserved>>
      BY <1>2 DEF CmdImport, disk, aside, remote, TypeOK
    <2>4. NothingLost
      BY <2>3 DEF NothingLost, LocalSnapshots
    <2>5. CASE StateHasRecoveryData
      <3>1. OnlyAt(p, "keep_keyfile") /\ kept'.snapshots = {}
        BY <2>1, <2>2, <2>3, <2>5 DEF EmptyDir
      <3>2. SnapsHeld'
        BY <2>3, <3>1 DEF SnapsHeld, MovedAt, OnlyAt, KeepPC, PutPC
      <3> QED BY <2>4, <3>2
    <2>6. CASE ~StateHasRecoveryData
      <3>1. OnlyAt(p, "put_snapshots") /\ snapshots' = {}
        BY <2>1, <2>3, <2>6 DEF StateHasRecoveryData
      <3>2. SnapsHeld'
        BY <2>3, <3>1 DEF SnapsHeld, MovedAt, OnlyAt, KeepPC, PutPC
      <3> QED BY <2>4, <3>2
    <2> QED BY <2>5, <2>6
  <1>3. ASSUME NEW p \in Procs, CacheKey(p) \/ UnlockStore(p) \/ UnlockClear(p) PROVE SnapsHeld' /\ NothingLost
    <2>1. \E l \in {"idle", "unlock_clear"} : OnlyAt(p, l)
      BY <1>3, ExitControl, StepControl DEF CacheKey, UnlockStore, UnlockClear, At, PC
    <2>2. UNCHANGED <<snapshots, kept, preserved>>
      BY <1>3 DEF CacheKey, UnlockStore, UnlockClear, disk, aside
    <2> QED BY <2>1, <2>2, SnapsLeft DEF MovingSteps, PC, KeepPC, PutPC
  <1>3a. ASSUME NEW p \in Procs, LoadKey(p) PROVE SnapsHeld' /\ NothingLost
    <2>1. \E l \in {"idle", "link"} : OnlyAt(p, l)
      BY <1>3a, ExitControl, GotoControl DEF LoadKey, At, PC, BackupPC
    <2>2. UNCHANGED <<snapshots, kept, preserved>>
      BY <1>3a DEF LoadKey, disk, aside
    <2> QED BY <2>1, <2>2, SnapsLeft DEF MovingSteps, PC, BackupPC, KeepPC, PutPC
  <1>4. ASSUME NEW p \in Procs, LinkSnapshot(p) PROVE SnapsHeld' /\ NothingLost
    <2>1. OnlyAt(p, "head") /\ pc[p] = "link" /\ snap' = snap
      BY <1>4, StepControl DEF LinkSnapshot, Step, At, locals, PC, BackupPC
    <2>2. snapshots' = snapshots \cup {snap[p]} /\ UNCHANGED <<kept, preserved>>
      BY <1>4 DEF LinkSnapshot, aside
    <2>3. \A t \in snapshots : t.gen < snap[p].gen
      BY <2>1 DEF SnapInv, LinkNewer
    <2> QED BY <2>1, <2>2, <2>3
         DEF SnapsHeld, MovedAt, OnlyAt, NewerThanOthers, NothingLost, LocalSnapshots, KeepPC, PutPC
  <1>5. ASSUME NEW p \in Procs, SaveHead(p) PROVE SnapsHeld' /\ NothingLost
    <2>1. OnlyAt(p, "rotate") /\ pc[p] = "head" /\ snap' = snap /\ head' = snap[p]
      BY <1>5, StepControl DEF SaveHead, Step, At, locals, PC, BackupPC
    <2>2. UNCHANGED <<snapshots, kept, preserved>>
      BY <1>5 DEF SaveHead, aside
    <2> QED BY <2>1, <2>2
         DEF SnapsHeld, MovedAt, OnlyAt, NewerThanOthers, NothingLost, LocalSnapshots, KeepPC, PutPC
  <1>6. ASSUME NEW p \in Procs, RotateOldest(p) PROVE SnapsHeld' /\ NothingLost
    <2>1. pc[p] = "rotate" /\ UNCHANGED <<head, kept, preserved, kits, pc, snap, kit>>
      BY <1>6 DEF RotateOldest, At, locals, aside, remote
    <2>2. PICK s \in snapshots : Oldest(s) /\ snapshots' = snapshots \ {s}
      BY <1>6 DEF RotateOldest
    <2>3. \A t \in snapshots : t.gen \in Nat
      BY DEF TypeOK, Snapshot
    <2>4. PICK t \in snapshots : t # s
      <3>1. Cardinality(snapshots) # 1 /\ Cardinality(snapshots) \in Nat
        BY <1>6, FS_CardinalityType DEF RotateOldest, TypeOK
      <3>2. snapshots # {s}
        BY <3>1, FS_Singleton
      <3> QED BY <2>2, <3>2
    <2>5. head = snap[p] /\ NewerThanOthers(snap[p])
      BY <2>1 DEF SnapsHeld, MovedAt
    <2>6. s # head
      <3>1. s.gen <= t.gen /\ s.gen \in Nat /\ t.gen \in Nat
        BY <2>2, <2>3, <2>4 DEF Oldest
      <3> QED BY <2>4, <2>5, <3>1 DEF NewerThanOthers
    <2>7. \A q \in Procs \ {p} : pc[q] = "idle"
      BY <2>1, OthersIdle
    <2>8. SnapsHeld'
      BY <2>1, <2>2, <2>5, <2>7 DEF SnapsHeld, MovedAt, NewerThanOthers, KeepPC, PutPC
    <2>9. NothingLost
      BY <2>1, <2>2, <2>6 DEF NothingLost, LocalSnapshots, At
    <2> QED BY <2>8, <2>9
  <1>7. ASSUME NEW p \in Procs, BackupFail(p) \/ FinishRotation(p) \/ PushKit(p) \/ RecordAttempt(p)
        PROVE  SnapsHeld' /\ NothingLost
    <2>1. \E l \in {"idle", "stage", "record_ok", "record_fail"} : OnlyAt(p, l)
      BY <1>7, ExitControl, StepControl DEF BackupFail, FinishRotation, PushKit, RecordAttempt, At, PC, BackupPC
    <2>2. UNCHANGED <<snapshots, kept, preserved>>
      BY <1>7 DEF BackupFail, FinishRotation, PushKit, RecordAttempt, disk, aside
    <2> QED BY <2>1, <2>2, SnapsLeft DEF MovingSteps, PC, BackupPC, KeepPC, PutPC
  <1>8. ASSUME NEW p \in Procs, StageKit(p) PROVE SnapsHeld' /\ NothingLost
    <2>1. \E l \in {"push", "record_fail"} : OnlyAt(p, l)
      BY <1>8, GotoControl, StepControl DEF StageKit, At, PC, BackupPC
    <2> QED BY <1>8, <2>1, SnapsLeft DEF StageKit, disk, aside, MovingSteps, PC, BackupPC, KeepPC, PutPC
  <1>9. ASSUME NEW p \in Procs, KeepKeyfile(p) \/ KeepHead(p) PROVE SnapsHeld' /\ NothingLost
    <2>1. \E l \in {"keep_head", "keep_snapshots"} : OnlyAt(p, l)
      BY <1>9, StepControl DEF KeepKeyfile, KeepHead, PC, KeepPC
    <2>2. pc[p] \in {"keep_keyfile", "keep_head"} /\ UNCHANGED <<snapshots, preserved, kits, kit>>
      BY <1>9 DEF KeepKeyfile, KeepHead, Step, At, locals, remote
    <2>3. kept'.snapshots = kept.snapshots
      BY <1>9 DEF KeepKeyfile, KeepHead, TypeOK, Saved
    <2> QED BY <2>1, <2>2, <2>3 DEF SnapsHeld, MovedAt, OnlyAt, NothingLost, LocalSnapshots, KeepPC, PutPC
  <1>10. ASSUME NEW p \in Procs, KeepSnapshots(p) PROVE SnapsHeld' /\ NothingLost
    <2>1. OnlyAt(p, "keep_marker") /\ pc[p] = "keep_snapshots" /\ UNCHANGED <<preserved, kits, kit>>
      BY <1>10, StepControl DEF KeepSnapshots, Step, At, locals, remote, PC, KeepPC
    <2>2. kept'.snapshots = snapshots /\ snapshots' = {}
      BY <1>10 DEF KeepSnapshots, TypeOK, Saved
    <2> QED BY <2>1, <2>2 DEF SnapsHeld, MovedAt, OnlyAt, NothingLost, LocalSnapshots, KeepPC, PutPC
  <1>11. ASSUME NEW p \in Procs, KeepMarker(p) PROVE SnapsHeld' /\ NothingLost
    <2>1. /\ OnlyAt(p, "put_snapshots") /\ pc[p] = "keep_marker"
          /\ UNCHANGED <<snapshots, preserved, kits, kit>>
      BY <1>11, StepControl DEF KeepMarker, Step, At, locals, remote, PC, KeepPC, PutPC
    <2>2. kept'.snapshots = kept.snapshots
      BY <1>11 DEF KeepMarker, TypeOK, Saved
    <2> QED BY <2>1, <2>2 DEF SnapsHeld, MovedAt, OnlyAt, NothingLost, LocalSnapshots, KeepPC, PutPC
  <1>12. ASSUME NEW p \in Procs, KeepFail(p) PROVE SnapsHeld' /\ NothingLost
    <2>1. OnlyAt(p, "undo_snapshots") /\ pc[p] \in KeepPC /\ UNCHANGED <<snapshots, kept, preserved>>
      BY <1>12, GotoControl DEF KeepFail, PC, KeepPC, UndoPC, disk, aside
    <2> QED BY <2>1 DEF SnapsHeld, MovedAt, OnlyAt, NothingLost, LocalSnapshots, KeepPC, PutPC
  <1>13. ASSUME NEW p \in Procs, PutSnapshots(p) PROVE SnapsHeld' /\ NothingLost
    <2>1. /\ OnlyAt(p, "put_keyfile") /\ pc[p] = "put_snapshots"
          /\ UNCHANGED <<kept, preserved, kits, kit>> /\ snapshots' = {kit[p].snap}
      BY <1>13, StepControl DEF PutSnapshots, Step, At, locals, aside, remote, PC, PutPC
    <2> QED BY <2>1 DEF SnapsHeld, MovedAt, OnlyAt, CopiesOnly, NothingLost, LocalSnapshots, KeepPC, PutPC
  <1>14. ASSUME NEW p \in Procs, PutKeyfile(p) \/ PutHead(p) PROVE SnapsHeld' /\ NothingLost
    <2>1. \E l \in {"put_head", "put_marker"} : OnlyAt(p, l)
      BY <1>14, StepControl DEF PutKeyfile, PutHead, PC, PutPC
    <2>2. pc[p] \in {"put_keyfile", "put_head"} /\ UNCHANGED <<snapshots, kept, preserved, kits, kit>>
      BY <1>14 DEF PutKeyfile, PutHead, Step, At, locals, aside, remote
    <2> QED BY <2>1, <2>2 DEF SnapsHeld, MovedAt, OnlyAt, CopiesOnly, NothingLost, LocalSnapshots, KeepPC, PutPC
  <1>15. ASSUME NEW p \in Procs, PutMarker(p) PROVE SnapsHeld' /\ NothingLost
    <2>1. OnlyAt(p, "forget")
      BY <1>15, StepControl DEF PutMarker, PC, PutPC
    <2> QED BY <1>15, <2>1, SnapsLeft DEF PutMarker, aside, MovingSteps, PC, KeepPC, PutPC
  <1>16. ASSUME NEW p \in Procs, PutFail(p) PROVE SnapsHeld' /\ NothingLost
    <2>1. OnlyAt(p, "rollback") /\ pc[p] \in PutPC /\ UNCHANGED <<snapshots, kept, preserved, kits>>
      BY <1>16, GotoControl DEF PutFail, PC, PutPC, disk, aside, remote
    <2> QED BY <2>1 DEF SnapsHeld, MovedAt, OnlyAt, CopiesOnly, NothingLost, LocalSnapshots, KeepPC, PutPC
  <1>17. ASSUME NEW p \in Procs, Rollback(p) PROVE SnapsHeld' /\ NothingLost
    <2>1. /\ OnlyAt(p, "undo_snapshots") /\ pc[p] = "rollback"
          /\ UNCHANGED <<kept, preserved>> /\ snapshots' = {}
      BY <1>17, StepControl DEF Rollback, Step, At, aside, PC, UndoPC
    <2> QED BY <2>1 DEF SnapsHeld, MovedAt, OnlyAt, CopiesOnly, NothingLost, LocalSnapshots, KeepPC, PutPC
  <1>18. ASSUME NEW p \in Procs, UndoSnapshots(p) PROVE SnapsHeld' /\ NothingLost
    <2>1. OnlyAt(p, "undo_keyfile") /\ pc[p] = "undo_snapshots" /\ preserved' = preserved
      BY <1>18, StepControl DEF UndoSnapshots, Step, At, PC, UndoPC
    <2>2. \/ snapshots' = IF kept.snapshots = {} THEN snapshots ELSE kept.snapshots
          \/ UNCHANGED <<snapshots, kept>>
      BY <1>18 DEF UndoSnapshots, UndoRenameFails, disk
    <2> QED BY <2>1, <2>2 DEF SnapsHeld, MovedAt, OnlyAt, NothingLost, LocalSnapshots, KeepPC, PutPC
  <1>19. ASSUME NEW p \in Procs, UndoKeyfile(p) \/ UndoHead(p) PROVE SnapsHeld' /\ NothingLost
    <2>1. \E l \in {"undo_head", "undo_marker"} : OnlyAt(p, l)
      BY <1>19, StepControl DEF UndoKeyfile, UndoHead, PC, UndoPC
    <2>2. kept'.snapshots = kept.snapshots /\ UNCHANGED <<snapshots, preserved>>
      BY <1>19 DEF UndoKeyfile, UndoHead, UndoRenameFails, disk, TypeOK, Saved
    <2> QED BY <2>1, <2>2 DEF SnapsHeld, MovedAt, OnlyAt, NothingLost, LocalSnapshots, KeepPC, PutPC
  <1>20. ASSUME NEW p \in Procs, UndoMarker(p) PROVE SnapsHeld' /\ NothingLost
    <2>1. OnlyAt(p, "idle") /\ snapshots' = snapshots /\ preserved \subseteq preserved'
      BY <1>20, ExitControl DEF UndoMarker, At
    <2>2. kept.snapshots = {} \/ \E d \in preserved' : d.snapshots = kept.snapshots
      BY <1>20 DEF UndoMarker, EmptyDir, TypeOK, Saved
    <2> QED BY <2>1, <2>2, SnapsLeft DEF MovingSteps, PC, KeepPC, PutPC
  <1>21. ASSUME NEW p \in Procs, ForgetKey(p) \/ Crash(p) PROVE SnapsHeld' /\ NothingLost
    <2>1. OnlyAt(p, "idle") /\ snapshots' = snapshots /\ LeaveKept
      BY <1>21, ExitControl DEF ForgetKey, Crash, At, disk
    <2>2. preserved \subseteq preserved' /\ (kept.snapshots = {} \/ \E d \in preserved' : d.snapshots = kept.snapshots)
      BY <2>1 DEF LeaveKept, EmptyDir
    <2> QED BY <2>1, <2>2, SnapsLeft DEF MovingSteps, PC, KeepPC, PutPC
  <1>22. CASE KeyringCleared \/ OrphanPublishes \/ (\E p \in Procs : Publish(p)) \/ UNCHANGED vars
    <2>1. UNCHANGED <<head, snapshots, kept, preserved, pc, snap, kit>> /\ kits \subseteq kits'
      BY <1>22 DEF KeyringCleared, OrphanPublishes, Publish, vars, disk, aside, remote, locals
    <2> QED BY <2>1 DEF SnapsHeld, MovedAt, CopiesOnly, NewerThanOthers, NothingLost, LocalSnapshots
  <1> QED
    BY <1>1, <1>2, <1>3, <1>3a, <1>4, <1>5, <1>6, <1>7, <1>8, <1>9, <1>10, <1>11, <1>12, <1>13, <1>14, <1>15, <1>16,
       <1>17, <1>18, <1>19, <1>20, <1>21, <1>22 DEF Next, Command, KeyStep, BackupStep, ImportStep

(* A snapshot leaves the machine only as the oldest of a rotation, which   *)
(* is never the head, or as the local copy of a kit the remote still has   *)
(* (rotateSnapshots, installRecoveryKit and its rollback).                 *)
THEOREM SnapshotsAlwaysPreserved == Spec => SnapshotsPreserved
  <1>1. NothingLost => [NothingLost]_vars
    OBVIOUS
  <1> QED
    BY <1>1, TypeInvInit, TypeInvNext, SnapInvInit, SnapInvNext, SnapsHeldInit, SnapsHeldNext, PTL
       DEF Spec, SnapshotsPreserved, NothingLost

-----------------------------------------------------------------------------
(* The order of the kits.  head.json is never behind a kit on the remote:  *)
(* a backup numbers its snapshot above head.json, and an import of the     *)
(* latest kit installs a head that covers all of them.  So generations and *)
(* serial numbers order the kits alike.  The same is true of the kits that *)
(* killed helpers' transports may yet add, of those at least that no       *)
(* import has overtaken.                                                   *)

Live == kits \cup (orphans \ overtaken)

CoversKits(h) == \A k \in Live : h # None /\ k.snap.gen <= h.gen

NewestSnap(s) == \A k \in Live : k.snap.gen < s.gen /\ k.snap.serial < s.serial

KitsInOrder ==
    /\ \A j, k \in Live : j.snap.serial < k.snap.serial => j.snap.gen < k.snap.gen
    /\ \A k \in Live : k.snap.serial < nextSerial

NewestBeside(s, own) ==
    \A k \in Live \ {own} : k.snap.gen < s.gen /\ k.snap.serial < s.serial

FreshAt(p) ==
    /\ pc[p] \in {"link", "head", "rotate", "stage"} =>
         snap[p].serial < nextSerial /\ NewestSnap(snap[p])
    /\ pc[p] = "push" =>
         snap[p].serial < nextSerial /\ NewestBeside(snap[p], kit[p])
    /\ pc[p] \in {"rotate", "stage", "push"} => head = snap[p]

CoverAt(p) ==
    /\ pc[p] \notin (ImportWindow \ {"put_marker", "undo_marker"}) \cup {"idle"} => CoversKits(head)
    /\ pc[p] \in KeepPC \cup PutPC => CoversKits(kit[p].snap)
    /\ pc[p] \in {"keep_keyfile", "keep_head"} => CoversKits(head) /\ kept.head = None
    /\ pc[p] \in {"keep_snapshots", "keep_marker", "rollback"} \cup PutPC => CoversKits(kept.head)
    /\ pc[p] \in {"undo_snapshots", "undo_keyfile", "undo_head"} =>
         IF kept.head = None THEN CoversKits(head) ELSE CoversKits(kept.head)

LatestGood ==
    /\ KitsInOrder
    /\ (\A p \in Procs : pc[p] = "idle") => CoversKits(head)
    /\ \A p \in Procs : FreshAt(p) /\ CoverAt(p)

LatestInv ==
    ~ImportById /\ ForeignKits = {} /\ ~torn /\ overtaken \cap kits = {} => LatestGood

LEMMA LatestInit == Init => LatestInv
  BY DEF Init, LatestInv, LatestGood, Live, KitsInOrder, FreshAt, CoverAt, CoversKits, NewestSnap,
     ImportWindow, KeepPC, PutPC, UndoPC

LEMMA RemoteLive == UNCHANGED <<kits, orphans, overtaken>> => Live' = Live
  BY DEF Live

\* Nothing is taken from the remote, and no orphan is forgotten.
LEMMA KitsStay == TypeInv /\ [Next]_vars => kits \subseteq kits' /\ overtaken \subseteq overtaken'
  BY ZenonT(60) DEF Next, Command, CmdInit, CmdRotatePassphrase, CmdUnlock, CmdBackup, CmdImport, KeyStep, LoadKey,
       CacheKey, UnlockStore, UnlockClear, BackupStep, LinkSnapshot, SaveHead, BackupFail, RotateOldest,
       FinishRotation, StageKit, Publish, PushKit, RecordAttempt, ImportStep, KeepKeyfile, KeepHead,
       KeepSnapshots, KeepMarker, KeepFail, PutSnapshots, PutKeyfile, PutHead, PutMarker, PutFail, Rollback,
       UndoRenameFails, UndoSnapshots, UndoKeyfile, UndoHead, UndoMarker, ForgetKey, Crash, OrphanPublishes,
       KeyringCleared, vars, ghosts, remote

\* A step that touches neither the head, a process nor the kits.
LEMMA LatestSame ==
    ASSUME LatestGood, UNCHANGED <<head, kept, pc, snap, kit, nextSerial>>, Live' = Live
    PROVE  LatestGood'
  BY DEF LatestGood, KitsInOrder, FreshAt, CoverAt, CoversKits, NewestSnap, NewestBeside

\* A step that adds nothing to the remote.
LEMMA LatestMoved ==
    ASSUME LatestGood, NEW p \in Procs, NEW l \in PC, OnlyAt(p, l), Live' \subseteq Live, nextSerial' = nextSerial,
           l = "idle" => CoversKits(head)', FreshAt(p)', CoverAt(p)'
    PROVE  LatestGood'
  <1>1. KitsInOrder'
    BY DEF LatestGood, KitsInOrder
  <1>2. ASSUME NEW q \in Procs, q # p PROVE FreshAt(q)' /\ CoverAt(q)'
    <2>1. pc'[q] = "idle"
      BY <1>2 DEF OnlyAt
    <2> QED
      BY <2>1 DEF FreshAt, CoverAt, ImportWindow, KeepPC, PutPC, UndoPC
  <1> QED
    BY <1>1, <1>2 DEF LatestGood, OnlyAt

\* A step of a command at rest or of a backup, which has read the head.
LEMMA LatestRead ==
    ASSUME LatestGood, NEW p \in Procs, CoversKits(head), UNCHANGED <<head, Live, nextSerial>>,
           NEW l \in PC \ ({"link", "head", "rotate", "stage", "push"} \cup ImportPC), OnlyAt(p, l)
    PROVE  LatestGood'
  <1>1. pc'[p] = l /\ CoversKits(head)'
    BY DEF OnlyAt, CoversKits
  <1>2. FreshAt(p)'
    BY <1>1 DEF FreshAt
  <1>3. CoverAt(p)'
    BY <1>1 DEF CoverAt, ImportPC, KeepPC, PutPC, UndoPC
  <1> QED
    BY <1>1, <1>2, <1>3, LatestMoved

LEMMA LatestNext == TypeInv /\ SnapInv /\ StatusInv /\ LatestInv /\ [Next]_vars => LatestInv'
  <1> SUFFICES ASSUME TypeInv, SnapInv, StatusInv, LatestInv, [Next]_vars, ~ImportById, ForeignKits = {}, ~torn',
                      (overtaken \cap kits = {})'
               PROVE  LatestGood'
    BY DEF LatestInv
  <1>1. ~torn /\ (\A p \in Procs : Crash(p) => pc[p] \notin ImportWindow)
    BY TornStays DEF Crash
  <1>2. LatestGood
    <2>1. overtaken \cap kits = {}
      BY KitsStay
    <2> QED BY <1>1, <2>1 DEF LatestInv
  <1>3. \A k \in Live : k \in Kit /\ k.snap \in Snapshot /\ k.snap.gen \in Nat /\ k.snap.serial \in Nat
    BY DEF Live, TypeInv, TypeOK, Kit, Snapshot
  <1>4. nextSerial \in Nat /\ (head # None => head \in Snapshot /\ head.gen \in Nat)
    BY DEF TypeInv, TypeOK, Snapshot
  <1>5. \A p \in Procs : pc[p] \in BackupPC =>
           snap[p] \in Snapshot /\ snap[p] # None /\ snap[p].gen \in Nat /\ snap[p].serial \in Nat
    BY DEF TypeInv, LocalsSet, Snapshot
  \* A command starts when no process is under way: the head covers the kits.
  <1>6. ASSUME NEW p \in Procs, NEW l \in PC, Enter(p, l) PROVE OnlyAt(p, l) /\ CoversKits(head)
    BY <1>2, <1>6, EnterControl DEF LatestGood
  <1>7. ASSUME NEW p \in Procs, CmdInit(p) \/ CmdRotatePassphrase(p) \/ CmdUnlock(p) \/ CmdBackup(p)
        PROVE  LatestGood'
    <2>1. PICK l \in {"cache", "unlock_store", "load"} : Enter(p, l)
      BY <1>7 DEF CmdInit, CmdRotatePassphrase, CmdUnlock, CmdBackup
    <2>2. UNCHANGED <<head, Live, nextSerial>>
      BY <1>7, RemoteLive DEF CmdInit, CmdRotatePassphrase, CmdUnlock, CmdBackup, disk, remote, ghosts
    <2>3. l \in PC \ ({"link", "head", "rotate", "stage", "push"} \cup ImportPC)
      BY DEF PC, ImportPC, KeepPC, PutPC, UndoPC
    <2> QED BY <1>2, <1>6, <2>1, <2>2, <2>3, LatestRead
  <1>8. ASSUME NEW p \in Procs, LoadKey(p), ~Exit(p) PROVE LatestGood'
    <2>1. pc[p] = "load" /\ CoversKits(head)
      BY <1>2, <1>8 DEF LoadKey, At, LatestGood, CoverAt, ImportWindow, KeepPC, PutPC, UndoPC
    <2>2. OnlyAt(p, "link") /\ pc'[p] = "link"
      BY <1>8, <2>1, GotoControl DEF LoadKey, OnlyAt, PC, BackupPC
    <2>3. UNCHANGED <<head, Live>> /\ nextSerial' = nextSerial + 1
      BY <1>8, RemoteLive DEF LoadKey, disk, remote, ghosts
    <2>4. PICK g \in 1..MaxGen : /\ g > HeadGen
                           /\ snap' = [snap EXCEPT ![p] = [gen |-> g, key |-> keyring, serial |-> nextSerial]]
      BY <1>8 DEF LoadKey, IsNextGen
    <2> g \in Nat
      OBVIOUS
    <2>5. snap'[p].gen = g /\ snap'[p].serial = nextSerial
      BY <2>4 DEF TypeInv, TypeOK
    <2>6. ASSUME NEW k \in Live PROVE k.snap.gen < g /\ k.snap.serial < nextSerial
      BY <1>2, <1>3, <1>4, <2>1, <2>4 DEF CoversKits, HeadGen, LatestGood, KitsInOrder
    <2>7. FreshAt(p)'
      BY <1>4, <2>2, <2>3, <2>5, <2>6 DEF FreshAt, NewestSnap
    <2>8. CoverAt(p)'
      BY <2>1, <2>2, <2>3 DEF CoverAt, CoversKits, KeepPC, PutPC, ImportWindow, UndoPC
    <2>9. KitsInOrder'
      BY <1>2, <1>3, <1>4, <2>3 DEF LatestGood, KitsInOrder
    <2>10. ASSUME NEW q \in Procs, q # p PROVE FreshAt(q)' /\ CoverAt(q)'
      <3>1. pc'[q] = "idle"
        BY <2>2, <2>10 DEF OnlyAt
      <3> QED
        BY <3>1 DEF FreshAt, CoverAt, ImportWindow, KeepPC, PutPC, UndoPC
    <2> QED BY <2>2, <2>7, <2>8, <2>9, <2>10 DEF LatestGood
  <1>9. ASSUME NEW p \in Procs, CmdImport(p) PROVE LatestGood'
    <2>1. PICK l \in {"keep_keyfile", "put_snapshots"} : Enter(p, l) /\ (head # None => l = "keep_keyfile")
      BY <1>9 DEF CmdImport, StateHasRecoveryData
    <2>2. OnlyAt(p, l) /\ CoversKits(head) /\ pc'[p] = l /\ l \in PC
      BY <1>6, <2>1 DEF PC, KeepPC, PutPC, OnlyAt
    <2>3. PICK k \in kits : Latest(k) /\ kit' = [kit EXCEPT ![p] = k]
      BY <1>9 DEF CmdImport
    <2>4. UNCHANGED <<head, nextSerial, kept>>
      BY <1>9 DEF CmdImport, disk, aside
    <2>a. Live' = kits /\ kits \subseteq Live
      BY <1>9 DEF CmdImport, remote, Live
    <2>5. head # None /\ l = "keep_keyfile"
      BY <2>1, <2>2, <2>3, <2>a DEF CoversKits
    <2>6. kit'[p].snap = k.snap /\ k.snap # None
      BY <1>3, <2>3, <2>a DEF TypeInv, TypeOK
    <2>7. \A j \in kits : j.snap.gen <= k.snap.gen
      BY <1>3, <2>3, <2>a DEF Latest
    <2>8. CoversKits(kit[p].snap)'
      BY <2>6, <2>7, <2>a DEF CoversKits
    <2>9. kept.head = None
      BY <2>1, KeptEmpty DEF Enter, EmptyDir, ImportPC, KeepPC, PutPC, UndoPC
    <2>10. CoverAt(p)'
      BY <2>2, <2>4, <2>5, <2>8, <2>9, <2>a DEF CoverAt, CoversKits, KeepPC, PutPC, ImportWindow, UndoPC
    <2>11. FreshAt(p)'
      BY <2>2, <2>5 DEF FreshAt
    <2> QED BY <1>2, <2>2, <2>4, <2>5, <2>10, <2>11, <2>a, LatestMoved
  \* The steps that end a command without touching the head.
  <1>10. ASSUME NEW p \in Procs, KeyStep(p), LoadKey(p) => Exit(p) PROVE LatestGood'
    <2>b. LoadKey(p) => pc'[p] = "idle" /\ UNCHANGED nextSerial
      BY <1>10 DEF LoadKey, Exit, Goto, TypeInv, TypeOK
    <2>1. PICK l \in {"unlock_clear", "idle"} : Goto(p, l) /\ UNCHANGED <<head, nextSerial>>
      BY <1>10, <2>b DEF KeyStep, LoadKey, CacheKey, UnlockStore, UnlockClear, Step, Exit, disk
    <2>a. UNCHANGED Live
      BY <1>10, RemoteLive DEF KeyStep, LoadKey, CacheKey, UnlockStore, UnlockClear, remote, ghosts
    <2>2. pc[p] \in {"load", "cache", "unlock_store", "unlock_clear"}
      BY <1>10 DEF KeyStep, LoadKey, CacheKey, UnlockStore, UnlockClear, Step, At
    <2>3. OnlyAt(p, l)
      BY <2>1, <2>2, OthersIdle DEF TypeInv, TypeOK, OnlyAt, Goto
    <2>4. l \in PC \ ({"link", "head", "rotate", "stage", "push"} \cup ImportPC)
      BY DEF PC, ImportPC, KeepPC, PutPC, UndoPC
    <2>5. CoversKits(head)
      BY <1>2, <2>2 DEF LatestGood, CoverAt, ImportWindow, KeepPC, PutPC, UndoPC
    <2> QED BY <1>2, <2>1, <2>3, <2>4, <2>5, <2>a, LatestRead
  <1>11. ASSUME NEW p \in Procs, pc[p] \in BackupPC, NEW l \in PC, Goto(p, l) PROVE OnlyAt(p, l) /\ CoversKits(head)
    <2>1. OnlyAt(p, l)
      BY <1>11, OthersIdle DEF TypeInv, TypeOK, OnlyAt, Goto, BackupPC
    <2>2. CoversKits(head)
      BY <1>2, <1>11 DEF LatestGood, CoverAt, ImportWindow, KeepPC, PutPC, UndoPC, BackupPC
    <2> QED BY <2>1, <2>2
  <1>12. ASSUME NEW p \in Procs, BackupFail(p) \/ (FinishRotation(p) /\ pc'[p] = "idle") \/ RecordAttempt(p)
         PROVE  LatestGood'
    <2>1. pc[p] \in BackupPC /\ Goto(p, "idle") /\ UNCHANGED <<head, nextSerial>>
      BY <1>12 DEF BackupFail, FinishRotation, RecordAttempt, Exit, Step, At, Goto, disk, BackupPC,
         TypeInv, TypeOK
    <2>a. UNCHANGED Live
      BY <1>12, RemoteLive DEF BackupFail, FinishRotation, RecordAttempt, remote, ghosts
    <2>2. "idle" \in PC \ ({"link", "head", "rotate", "stage", "push"} \cup ImportPC)
      BY DEF PC, ImportPC, KeepPC, PutPC, UndoPC
    <2> QED BY <1>2, <1>11, <2>1, <2>2, <2>a, LatestRead
  <1>13. ASSUME NEW p \in Procs, LinkSnapshot(p) PROVE LatestGood'
    <2>a. UNCHANGED Live
      BY <1>13, RemoteLive DEF LinkSnapshot, remote, ghosts
    <2>1. /\ pc[p] = "link" /\ UNCHANGED <<head, nextSerial, snap>>
          /\ OnlyAt(p, "head") /\ CoversKits(head) /\ "head" \in PC
      BY <1>11, <1>13 DEF LinkSnapshot, Step, At, remote, locals, PC, BackupPC
    <2>2. FreshAt(p)' /\ CoverAt(p)'
      BY <1>2, <2>1, <2>a DEF LatestGood, FreshAt, CoverAt, OnlyAt, NewestSnap, CoversKits, KeepPC, PutPC, UndoPC,
         ImportWindow
    <2> QED BY <1>2, <2>1, <2>2, <2>a, LatestMoved
  <1>14. ASSUME NEW p \in Procs, SaveHead(p) PROVE LatestGood'
    <2>a. UNCHANGED Live
      BY <1>14, RemoteLive DEF SaveHead, remote, ghosts
    <2>1. /\ pc[p] = "head" /\ UNCHANGED <<nextSerial, snap>> /\ head' = snap[p]
          /\ OnlyAt(p, "rotate") /\ "rotate" \in PC
      BY <1>11, <1>14 DEF SaveHead, Step, At, remote, locals, PC, BackupPC
    <2>2. NewestSnap(snap[p]) /\ snap[p] # None /\ snap[p].gen \in Nat
      BY <1>2, <1>5, <2>1 DEF LatestGood, FreshAt, BackupPC
    <2>3. CoversKits(head)'
      BY <1>3, <2>1, <2>2, <2>a DEF NewestSnap, CoversKits
    <2>4. FreshAt(p)'
      BY <1>2, <2>1, <2>a DEF LatestGood, FreshAt, OnlyAt, NewestSnap
    <2>5. CoverAt(p)'
      BY <2>1, <2>3, <2>a DEF CoverAt, OnlyAt, KeepPC, PutPC, UndoPC, ImportWindow
    <2> QED BY <1>2, <2>1, <2>4, <2>5, <2>a, LatestMoved
  <1>15. ASSUME NEW p \in Procs, RotateOldest(p) PROVE LatestGood'
    <2>1. UNCHANGED <<head, kept, pc, snap, kit, nextSerial>>
      BY <1>15 DEF RotateOldest, aside, locals
    <2>2. UNCHANGED Live
      BY <1>15, RemoteLive DEF RotateOldest, remote, ghosts
    <2> QED BY <1>2, <2>1, <2>2, LatestSame
  <1>16. ASSUME NEW p \in Procs, FinishRotation(p), pc'[p] # "idle" PROVE LatestGood'
    <2>a. UNCHANGED Live
      BY <1>16, RemoteLive DEF FinishRotation, remote, ghosts
    <2>1. /\ pc[p] = "rotate" /\ UNCHANGED <<head, nextSerial, snap>>
          /\ OnlyAt(p, "stage") /\ CoversKits(head) /\ "stage" \in PC
      BY <1>11, <1>16 DEF FinishRotation, Exit, Goto, Step, At, disk, remote, locals, PC, BackupPC, TypeInv, TypeOK
    <2>2. FreshAt(p)' /\ CoverAt(p)'
      BY <1>2, <2>1, <2>a DEF LatestGood, FreshAt, CoverAt, OnlyAt, NewestSnap, CoversKits, KeepPC, PutPC, UndoPC,
         ImportWindow
    <2> QED BY <1>2, <2>1, <2>2, <2>a, LatestMoved
  <1>17. ASSUME NEW p \in Procs, StageKit(p) PROVE LatestGood'
    <2>a. UNCHANGED Live
      BY <1>17, RemoteLive DEF StageKit, remote, ghosts
    <2>1. PICK l \in {"push", "record_fail"} : Goto(p, l)
      BY <1>17 DEF StageKit, Step
    <2>2. /\ pc[p] = "stage" /\ UNCHANGED <<head, nextSerial, snap>>
          /\ OnlyAt(p, l) /\ CoversKits(head) /\ l \in PC
      BY <1>11, <1>17, <2>1 DEF StageKit, Step, At, disk, remote, locals, PC, BackupPC
    <2>3. FreshAt(p)'
      BY <1>2, <2>1, <2>2, <2>a DEF LatestGood, FreshAt, OnlyAt, NewestSnap, NewestBeside
    <2>4. CoverAt(p)'
      BY <2>2, <2>a DEF CoverAt, OnlyAt, CoversKits, KeepPC, PutPC, UndoPC, ImportWindow
    <2> QED BY <1>2, <2>2, <2>3, <2>4, <2>a, LatestMoved
  \* The kit that is published, now or by an orphan, is the newest, and the
  \* head is its snapshot.
  <1>18. ASSUME NEW p \in Procs, pc[p] = "push", UNCHANGED <<head, nextSerial>>,
                Live' \subseteq Live \cup {kit[p]},
                UNCHANGED <<pc, snap, kit, kept>> \/ OnlyAt(p, "idle")
         PROVE  KitsInOrder' /\ CoversKits(head)' /\ \A q \in Procs : CoverAt(q)'
    <2>1. /\ kit[p].snap = snap[p] /\ head = snap[p] /\ NewestBeside(snap[p], kit[p]) /\ snap[p].serial < nextSerial
          /\ snap[p] # None /\ snap[p].gen \in Nat /\ snap[p].serial \in Nat
      BY <1>2, <1>5, <1>18 DEF StatusInv, PushAt, LatestGood, FreshAt, BackupPC
    <2>2. CoversKits(head)'
      BY <1>3, <1>18, <2>1 DEF CoversKits, NewestBeside
    <2>3. KitsInOrder'
      BY <1>2, <1>3, <1>4, <1>18, <2>1 DEF LatestGood, KitsInOrder, NewestBeside
    <2>4. ASSUME NEW q \in Procs PROVE CoverAt(q)'
      <3>1. pc'[q] \in {"push", "idle"}
        BY <1>18, OthersIdle DEF OnlyAt
      <3> QED
        BY <2>2, <3>1 DEF CoverAt, ImportWindow, KeepPC, PutPC, UndoPC
    <2> QED BY <2>2, <2>3, <2>4
  <1>18a. ASSUME NEW p \in Procs, Publish(p) PROVE LatestGood'
    <2>1. /\ pc[p] = "push" /\ UNCHANGED <<head, nextSerial, pc, snap, kit, kept>>
          /\ Live' \subseteq Live \cup {kit[p]}
      BY <1>18a DEF Publish, At, disk, aside, locals, ghosts, Live
    <2>2. KitsInOrder' /\ CoversKits(head)' /\ \A q \in Procs : CoverAt(q)'
      BY <1>18, <2>1
    <2>3. ASSUME NEW q \in Procs PROVE FreshAt(q)'
      <3>1. q # p => pc'[q] = "idle"
        BY <2>1, OthersIdle
      <3>2. FreshAt(p) /\ kit'[p] = kit[p] /\ snap'[p] = snap[p]
        BY <1>2, <2>1 DEF LatestGood
      <3>3. FreshAt(p)'
        BY <2>1, <3>2 DEF FreshAt, NewestBeside
      <3> QED BY <3>1, <3>3 DEF FreshAt
    <2> QED BY <2>1, <2>2, <2>3 DEF LatestGood
  <1>18b. ASSUME NEW p \in Procs, PushKit(p) PROVE LatestGood'
    <2>1. PICK l \in {"record_ok", "record_fail"} : Goto(p, l)
      BY <1>18b DEF PushKit, Step
    <2>2. pc[p] = "push" /\ UNCHANGED <<head, nextSerial>> /\ OnlyAt(p, l) /\ CoversKits(head)
      BY <1>11, <1>18b, <2>1 DEF PushKit, Step, At, disk, PC, BackupPC
    <2>3. UNCHANGED Live
      BY <1>18b, RemoteLive DEF PushKit, remote, ghosts
    <2>4. l \in PC \ ({"link", "head", "rotate", "stage", "push"} \cup ImportPC)
      BY DEF PC, BackupPC, ImportPC, KeepPC, PutPC, UndoPC
    <2> QED BY <1>2, <2>2, <2>3, <2>4, LatestRead
  <1>19. ASSUME NEW p \in Procs, pc[p] \in ImportPC, NEW l \in PC, Goto(p, l) PROVE OnlyAt(p, l) /\ pc'[p] = l
    BY <1>19, OthersIdle DEF TypeInv, TypeOK, OnlyAt, Goto, ImportPC, KeepPC, PutPC, UndoPC
  <1>20. ASSUME NEW p \in Procs, CoverAt(p)', NEW l \in ImportPC, OnlyAt(p, l), UNCHANGED <<Live, nextSerial>>
         PROVE  LatestGood'
    <2>1. pc'[p] = l /\ l \in PC /\ l \notin {"idle", "link", "head", "rotate", "stage", "push"}
      BY <1>20 DEF OnlyAt, ImportPC, PC, KeepPC, PutPC, UndoPC
    <2>2. FreshAt(p)'
      BY <2>1 DEF FreshAt
    <2> QED BY <1>2, <1>20, <2>1, <2>2, LatestMoved
  <1>21. ASSUME NEW p \in Procs, KeepKeyfile(p) \/ KeepSnapshots(p) \/ KeepMarker(p) \/ KeepFail(p) PROVE LatestGood'
    <2>a. UNCHANGED Live
      BY <1>21, RemoteLive DEF KeepKeyfile, KeepSnapshots, KeepMarker, KeepFail, remote, ghosts
    <2>1. PICK l \in {"keep_head", "keep_marker", "put_snapshots", "undo_snapshots"} :
            /\ Goto(p, l) /\ pc[p] \in KeepPC
            /\ \/ pc[p] = "keep_keyfile" /\ l = "keep_head"
               \/ pc[p] \in {"keep_snapshots", "keep_marker"} /\ l \in {"keep_marker", "put_snapshots"}
               \/ l = "undo_snapshots"
            /\ UNCHANGED <<head, nextSerial, kit>> /\ kept'.head = kept.head
      BY <1>21 DEF KeepKeyfile, KeepSnapshots, KeepMarker, KeepFail, Step, At, disk, aside, remote, locals, KeepPC,
         TypeInv, TypeOK, Saved
    <2>2. l \in ImportPC /\ l \in PC
      BY DEF ImportPC, KeepPC, PutPC, UndoPC, PC
    <2>3. OnlyAt(p, l) /\ pc'[p] = l
      BY <1>19, <2>1, <2>2 DEF ImportPC
    <2>4. CoverAt(p)'
      BY <1>2, <2>1, <2>3, <2>a DEF LatestGood, CoverAt, CoversKits, ImportWindow, KeepPC, PutPC, UndoPC
    <2> QED BY <1>20, <2>1, <2>2, <2>3, <2>4, <2>a
  <1>22. ASSUME NEW p \in Procs, KeepHead(p) PROVE LatestGood'
    <2>a. UNCHANGED Live
      BY <1>22, RemoteLive DEF KeepHead, remote, ghosts
    <2>1. /\ Goto(p, "keep_snapshots") /\ pc[p] = "keep_head" /\ kept'.head = head
          /\ UNCHANGED <<nextSerial, kit>>
      BY <1>22 DEF KeepHead, Step, At, remote, locals, TypeInv, TypeOK, Saved
    <2>2. OnlyAt(p, "keep_snapshots") /\ pc'[p] = "keep_snapshots"
      BY <1>19, <2>1 DEF ImportPC, KeepPC, PC
    <2>3. CoverAt(p)'
      BY <1>2, <2>1, <2>2, <2>a DEF LatestGood, CoverAt, CoversKits, ImportWindow, KeepPC, PutPC, UndoPC
    <2> QED BY <1>20, <2>1, <2>2, <2>3, <2>a DEF ImportPC, KeepPC
  <1>23. ASSUME NEW p \in Procs, PutSnapshots(p) \/ PutKeyfile(p) \/ PutMarker(p) \/ PutFail(p) PROVE LatestGood'
    <2>a. UNCHANGED Live
      BY <1>23, RemoteLive DEF PutSnapshots, PutKeyfile, PutMarker, PutFail, remote, ghosts
    <2>1. PICK l \in {"put_keyfile", "put_head", "forget", "rollback"} :
            /\ Goto(p, l) /\ pc[p] \in PutPC /\ (l = "forget" => pc[p] = "put_marker")
            /\ UNCHANGED <<head, nextSerial, kit, kept>>
      BY <1>23 DEF PutSnapshots, PutKeyfile, PutMarker, PutFail, Step, At, disk, aside, remote, locals, PutPC
    <2>2. l \in ImportPC /\ l \in PC
      BY DEF ImportPC, KeepPC, PutPC, UndoPC, PC
    <2>3. OnlyAt(p, l) /\ pc'[p] = l
      BY <1>19, <2>1, <2>2 DEF ImportPC
    <2>4. CoverAt(p)'
      BY <1>2, <2>1, <2>3, <2>a DEF LatestGood, CoverAt, CoversKits, ImportWindow, KeepPC, PutPC, UndoPC
    <2> QED BY <1>20, <2>1, <2>2, <2>3, <2>4, <2>a
  <1>24. ASSUME NEW p \in Procs, PutHead(p) PROVE LatestGood'
    <2>a. UNCHANGED Live
      BY <1>24, RemoteLive DEF PutHead, remote, ghosts
    <2>1. /\ Goto(p, "put_marker") /\ pc[p] = "put_head" /\ head' = kit[p].snap
          /\ UNCHANGED <<nextSerial, kit, kept>>
      BY <1>24 DEF PutHead, Step, At, aside, remote, locals
    <2>2. OnlyAt(p, "put_marker") /\ pc'[p] = "put_marker"
      BY <1>19, <2>1 DEF ImportPC, PutPC, PC
    <2>3. CoverAt(p)'
      BY <1>2, <2>1, <2>2, <2>a DEF LatestGood, CoverAt, CoversKits, ImportWindow, KeepPC, PutPC, UndoPC
    <2> QED BY <1>20, <2>1, <2>2, <2>3, <2>a DEF ImportPC, PutPC
  <1>25. ASSUME NEW p \in Procs, Rollback(p) PROVE LatestGood'
    <2>a. UNCHANGED Live
      BY <1>25, RemoteLive DEF Rollback, remote, ghosts
    <2>1. /\ Goto(p, "undo_snapshots") /\ pc[p] = "rollback" /\ head' = None
          /\ UNCHANGED <<nextSerial, kit, kept>>
      BY <1>25 DEF Rollback, Step, At, aside, remote, locals
    <2>2. OnlyAt(p, "undo_snapshots") /\ pc'[p] = "undo_snapshots"
      BY <1>19, <2>1 DEF ImportPC, UndoPC, PC
    <2>3. CoverAt(p)'
      BY <1>2, <2>1, <2>2, <2>a DEF LatestGood, CoverAt, CoversKits, ImportWindow, KeepPC, PutPC, UndoPC
    <2> QED BY <1>20, <2>1, <2>2, <2>3, <2>a DEF ImportPC, UndoPC
  <1>26. ASSUME NEW p \in Procs, UndoSnapshots(p) \/ UndoKeyfile(p) PROVE LatestGood'
    <2>a. UNCHANGED Live
      BY <1>26, RemoteLive DEF UndoSnapshots, UndoKeyfile, UndoRenameFails, remote, ghosts
    <2>1. PICK l \in {"undo_keyfile", "undo_head"} :
            /\ Goto(p, l) /\ pc[p] \in {"undo_snapshots", "undo_keyfile"}
            /\ UNCHANGED <<head, nextSerial, kit>> /\ kept'.head = kept.head
      BY <1>26 DEF UndoSnapshots, UndoKeyfile, UndoRenameFails, Step, At, disk, remote, locals, TypeInv, TypeOK, Saved
    <2>2. l \in ImportPC /\ l \in PC
      BY DEF ImportPC, KeepPC, PutPC, UndoPC, PC
    <2>3. OnlyAt(p, l) /\ pc'[p] = l
      BY <1>19, <2>1, <2>2 DEF ImportPC, UndoPC
    <2>4. CoverAt(p)'
      BY <1>2, <2>1, <2>3, <2>a DEF LatestGood, CoverAt, CoversKits, ImportWindow, KeepPC, PutPC, UndoPC
    <2> QED BY <1>20, <2>1, <2>2, <2>3, <2>4, <2>a
  <1>27. ASSUME NEW p \in Procs, UndoHead(p) PROVE LatestGood'
    <2>a. UNCHANGED Live
      BY <1>27, RemoteLive DEF UndoHead, UndoRenameFails, remote, ghosts
    <2>1. /\ Goto(p, "undo_marker") /\ pc[p] = "undo_head"
          /\ head' = IF kept.head = None THEN head ELSE kept.head
          /\ UNCHANGED <<nextSerial, kit>>
      BY <1>27 DEF UndoHead, UndoRenameFails, Step, At, remote, locals
    <2>2. OnlyAt(p, "undo_marker") /\ pc'[p] = "undo_marker"
      BY <1>19, <2>1 DEF ImportPC, UndoPC, PC
    <2>3. CoverAt(p)'
      BY <1>2, <2>1, <2>2, <2>a DEF LatestGood, CoverAt, CoversKits, ImportWindow, KeepPC, PutPC, UndoPC
    <2> QED BY <1>20, <2>1, <2>2, <2>3, <2>a DEF ImportPC, UndoPC
  <1>28. ASSUME NEW p \in Procs, UndoMarker(p) \/ ForgetKey(p) \/ Crash(p), UNCHANGED Live PROVE LatestGood'
    <2>1. /\ Goto(p, "idle") /\ UNCHANGED <<head, nextSerial>> /\ pc[p] # "idle"
          /\ pc[p] \notin ImportWindow \ {"put_marker", "undo_marker"}
      BY <1>1, <1>28 DEF UndoMarker, ForgetKey, Crash, Exit, At, disk, ImportWindow, KeepPC, PutPC, UndoPC
    <2>2. OnlyAt(p, "idle")
      BY <2>1, OthersIdle DEF TypeInv, TypeOK, OnlyAt, Goto
    <2>3. CoversKits(head)
      BY <1>2, <2>1 DEF LatestGood, CoverAt
    <2>4. "idle" \in PC \ ({"link", "head", "rotate", "stage", "push"} \cup ImportPC)
      BY DEF PC, ImportPC, KeepPC, PutPC, UndoPC
    <2> QED BY <1>2, <1>28, <2>1, <2>2, <2>3, <2>4, LatestRead
  <1>28a. ASSUME NEW p \in Procs, UndoMarker(p) \/ ForgetKey(p) PROVE LatestGood'
    <2>1. UNCHANGED Live
      BY <1>28a, RemoteLive DEF UndoMarker, ForgetKey, remote, ghosts
    <2> QED BY <1>28, <1>28a, <2>1
  \* The transport of a killed push may yet add the kit made last.
  <1>28b. ASSUME NEW p \in Procs, Crash(p) PROVE LatestGood'
    <2>1. CASE pc[p] # "push"
      <3>1. UNCHANGED <<kits, orphans, overtaken>>
        BY <1>28b, <2>1 DEF Crash, At
      <3> QED BY <1>28, <1>28b, <3>1, RemoteLive
    <2>2. CASE pc[p] = "push"
      <3>1. UNCHANGED <<head, nextSerial>> /\ Live' \subseteq Live \cup {kit[p]}
        BY <1>28b DEF Crash, disk, Live
      <3>2. OnlyAt(p, "idle")
        BY <1>28b, ExitControl DEF Crash
      <3>3. KitsInOrder' /\ CoversKits(head)' /\ \A q \in Procs : CoverAt(q)'
        BY <1>18, <2>2, <3>1, <3>2
      <3>4. \A q \in Procs : FreshAt(q)'
        BY <3>2 DEF OnlyAt, FreshAt
      <3> QED BY <3>3, <3>4 DEF LatestGood
    <2> QED BY <2>1, <2>2
  <1>28c. CASE OrphanPublishes
    <2>1. PICK k \in orphans : orphans' = orphans \ {k} /\ kits' = kits \cup {k}
      BY <1>28c DEF OrphanPublishes
    <2>2. UNCHANGED <<head, kept, pc, snap, kit, nextSerial, overtaken>>
      BY <1>28c DEF OrphanPublishes, disk, aside, locals, ghosts
    <2>3. k \notin overtaken
      BY <2>1, <2>2
    <2>4. Live' = Live
      BY <2>1, <2>2, <2>3 DEF Live
    <2> QED BY <1>2, <2>2, <2>4, LatestSame
  <1>29. CASE KeyringCleared \/ UNCHANGED vars
    <2>1. UNCHANGED <<head, kept, pc, snap, kit, nextSerial>>
      BY <1>29 DEF KeyringCleared, vars, disk, aside, locals
    <2>2. UNCHANGED Live
      BY <1>29, RemoteLive DEF KeyringCleared, vars, remote, ghosts
    <2> QED BY <1>2, <2>1, <2>2, LatestSame
  <1>30. ASSUME NEW p \in Procs, Command(p) \/ KeyStep(p) \/ Crash(p) PROVE LatestGood'
    <2>1. CASE KeyStep(p)
      BY <1>8, <1>10, <2>1
    <2> QED BY <1>7, <1>9, <1>28b, <1>30, <2>1 DEF Command
  <1>31. ASSUME NEW p \in Procs, BackupStep(p) PROVE LatestGood'
    <2>1. CASE FinishRotation(p)
      BY <1>12, <1>16, <2>1
    <2>2. CASE BackupFail(p) \/ RecordAttempt(p)
      BY <1>12, <2>2
    <2> QED
      BY <1>13, <1>14, <1>15, <1>17, <1>18a, <1>18b, <1>31, <2>1, <2>2 DEF BackupStep
  <1>32. ASSUME NEW p \in Procs, ImportStep(p) PROVE LatestGood'
    BY <1>21, <1>22, <1>23, <1>24, <1>25, <1>26, <1>27, <1>28a, <1>32 DEF ImportStep
  <1> QED
    BY <1>28c, <1>29, <1>30, <1>31, <1>32 DEF Next

(* Where only this installation writes to the remote and imports take the  *)
(* latest kit, the latest kit is the one pushed last (IsNextGen and the    *)
(* listing by generation, parseSnapshotID), however many backups, imports  *)
(* and crashes there were and whenever the transports of killed helpers    *)
(* end, as long as no import was cut short and no transport publishes a    *)
(* kit that an import has overtaken.                                       *)
THEOREM LatestAlwaysNewest == Spec => []LatestKitIsNewest
  <1>1. TypeInv /\ LatestInv => LatestKitIsNewest
    <2> SUFFICES ASSUME TypeInv, LatestGood, NEW j \in kits, NEW k \in kits, Latest(k)
                 PROVE  j.snap.serial <= k.snap.serial
      BY DEF LatestInv, LatestKitIsNewest
    <2>1. /\ j.snap.gen \in Nat /\ j.snap.serial \in Nat
          /\ k.snap.gen \in Nat /\ k.snap.serial \in Nat
      BY DEF TypeInv, TypeOK, Kit, Snapshot
    <2>2. k.snap.serial < j.snap.serial => k.snap.gen < j.snap.gen
      BY DEF LatestGood, KitsInOrder, Live
    <2> QED BY <2>1, <2>2 DEF Latest
  <1> QED
    BY <1>1, TypeInvInit, TypeInvNext, SnapInvInit, SnapInvNext, StatusInvInit, StatusInvNext, LatestInit,
       LatestNext, PTL DEF Spec
=============================================================================
