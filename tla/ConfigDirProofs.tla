-------------------------- MODULE ConfigDirProofs --------------------------
(* The three promises of the configuration directory, for every set of     *)
(* notes and of XNote processes and every number of saves and snapshots.   *)
EXTENDS ConfigDir, TLAPS

(* Xpad's socket is never in XNote's place, nor the other way round.       *)
TypeInv == TypeOK /\ xpad.sock \notin XNotes

-----------------------------------------------------------------------------
(* Types.                                                                  *)

LEMMA ContentsTypes ==
    /\ NoNotes \in Contents /\ All(OfKit) \in Contents /\ All(OfXpad) \in Contents
    /\ NoDir \in Dir /\ EmptyDir \in Dir
  BY ConfigAssumption DEF NoNotes, All, OfKit, OfXpad, Absent, Contents, Dir, NoDir, EmptyDir, Sockets

LEMMA NoDirs ==
    /\ NoDir.sock = NoSocket /\ EmptyDir.sock = NoSocket /\ NoSocket \notin XNotes
    /\ ~NoDir.exists /\ EmptyDir.exists /\ NoDir.notes = NoNotes /\ EmptyDir.notes = NoNotes
  BY ConfigAssumption DEF NoDir, EmptyDir

LEMMA TypeInit == Init => TypeInv
  <1> SUFFICES ASSUME Init PROVE TypeInv
    OBVIOUS
  <1>1. NoDir.sock = NoSocket /\ EmptyDir.sock = NoSocket /\ EmptyDir.exists /\ NoSocket \notin XNotes
    BY ConfigAssumption DEF NoDir, EmptyDir
  <1>2. xpad \in Dir /\ xpad.sock \notin XNotes /\ (xpad.exists \/ xpad = NoDir)
    <2>1. CASE xpad = NoDir
      BY <2>1, <1>1, ContentsTypes
    <2>2. ASSUME NEW t \in {NoSocket, Stale, Xpad}, xpad = [exists |-> TRUE, notes |-> All(OfXpad), sock |-> t]
          PROVE  xpad \in Dir /\ xpad.sock \notin XNotes /\ xpad.exists
      BY <2>2, ContentsTypes, ConfigAssumption DEF Dir, Sockets
    <2> QED BY <2>1, <2>2 DEF Init
  <1>3. live \in Dir /\ live.sock = NoSocket /\ (live.exists \/ live = NoDir)
    BY <1>1, ContentsTypes DEF Init
  <1>4. saved \in Contents /\ current \in Contents /\ snaps \subseteq Contents
    <2>1. xpad.notes \in Contents
      BY <1>2 DEF Dir
    <2> QED BY <2>1, ContentsTypes DEF Init
  <1>5. pc \in [XNotes -> {"off"} \cup Starting \cup Serving] /\ todo \in [XNotes -> SUBSET Notes]
    BY DEF Init
  <1> QED BY <1>1, <1>2, <1>3, <1>4, <1>5, ContentsTypes DEF Init, TypeInv, TypeOK, RestorePC

\* What a process leaves behind when it ends.
LEMMA EndsTypes ==
    ASSUME TypeInv, NEW x \in XNotes, Ends(x)
    PROVE  /\ live' \in Dir /\ aside' \in Dir
           /\ live'.sock \in XNotes => pc'[live'.sock] \in Serving
           /\ aside'.sock \in XNotes => pc'[aside'.sock] \in Serving
           /\ (live'.exists \/ live' = NoDir) /\ (aside'.exists \/ aside' = NoDir)
           /\ pc' \in [XNotes -> {"off"} \cup Starting \cup Serving]
           /\ todo' \in [XNotes -> SUBSET Notes]
  <1>1. ASSUME NEW d \in {live, aside}
        PROVE  /\ Deaf(d, x) \in Dir
               /\ Deaf(d, x).sock \in XNotes => Deaf(d, x).sock = d.sock /\ d.sock # x
               /\ Deaf(d, x).exists \/ Deaf(d, x) = NoDir
    <2>1. d \in Dir /\ (d.exists \/ d = NoDir) /\ NoDir.sock = NoSocket
      BY <1>1 DEF TypeInv, TypeOK, NoDir
    <2> QED BY <2>1, ConfigAssumption DEF Deaf, Dir, Sockets
  <1>2. pc' = [pc EXCEPT ![x] = "off"] /\ todo' = [todo EXCEPT ![x] = {}]
        /\ live' = Deaf(live, x) /\ aside' = Deaf(aside, x)
    BY DEF Ends
  <1>3. /\ pc' \in [XNotes -> {"off"} \cup Starting \cup Serving]
        /\ \A y \in XNotes \ {x} : pc'[y] = pc[y]
        /\ todo' \in [XNotes -> SUBSET Notes]
    BY <1>2 DEF TypeInv, TypeOK
  <1>4. \A d \in {live, aside} : d.sock \in XNotes => pc[d.sock] \in Serving
    BY DEF TypeInv, TypeOK
  <1> QED BY <1>1, <1>2, <1>3, <1>4

\* A process that does not yet serve, or goes on to, moves.
LEMMA MoveTypes ==
    ASSUME TypeInv, NEW x \in XNotes, NEW l \in {"off"} \cup Starting \cup Serving,
           pc[x] \notin Serving \/ l \in Serving, pc' = [pc EXCEPT ![x] = l]
    PROVE  /\ pc' \in [XNotes -> {"off"} \cup Starting \cup Serving]
           /\ \A y \in XNotes : pc[y] \in Serving => pc'[y] \in Serving
           /\ live.sock \in XNotes => pc'[live.sock] \in Serving
           /\ aside.sock \in XNotes => pc'[aside.sock] \in Serving
  BY DEF TypeInv, TypeOK

LEMMA StartMoves ==
    ASSUME NEW x \in XNotes, Launch(x) \/ LookForDir(x) \/ CopyFails(x) \/ CopyEnds(x) \/ PassArgs(x)
           \/ MakeDir(x) \/ UndoCopy(x) \/ DropXpad(x) \/ RenameXpad(x) \/ RenameFails(x)
           \/ OpenProcFile(x) \/ LoadPads(x)
    PROVE  \E l \in {"off"} \cup Starting \cup Serving :
             (pc[x] \notin Serving \/ l \in Serving) /\ pc' = [pc EXCEPT ![x] = l]
  BY DEF Launch, LookForDir, CopyFails, CopyEnds, PassArgs, MakeDir, UndoCopy, DropXpad, RenameXpad,
     RenameFails, OpenProcFile, LoadPads, Goto, At, Starting, Migrating, Serving

LEMMA TypeNext == TypeInv /\ [Next]_vars => TypeInv'
  <1> SUFFICES ASSUME TypeInv, [Next]_vars PROVE TypeInv'
    OBVIOUS
  <1> USE ConfigAssumption, ContentsTypes DEF TypeInv, TypeOK
  <1>1. ASSUME NEW x \in XNotes, Launch(x) \/ LookForDir(x) \/ CopyFails(x) \/ CopyEnds(x) \/ PassArgs(x)
        PROVE  TypeInv'
    <2>1. /\ pc' \in [XNotes -> {"off"} \cup Starting \cup Serving]
          /\ live.sock \in XNotes => pc'[live.sock] \in Serving
          /\ aside.sock \in XNotes => pc'[aside.sock] \in Serving
      <3>1. PICK l \in {"off"} \cup Starting \cup Serving :
              (pc[x] \notin Serving \/ l \in Serving) /\ pc' = [pc EXCEPT ![x] = l]
        BY <1>1, StartMoves
      <3> QED BY <3>1, MoveTypes
    <2>2. /\ UNCHANGED <<dirs, backups, todo, rpc, chosen, saved, current, torn>>
          /\ met' \in BOOLEAN /\ raced' \in BOOLEAN
      BY <1>1 DEF Launch, LookForDir, CopyFails, CopyEnds, PassArgs, Goto, ghosts
    <2> QED BY <2>1, <2>2 DEF dirs, backups
  <1>2. ASSUME NEW x \in XNotes, MakeDir(x) \/ UndoCopy(x) \/ DropXpad(x) PROVE TypeInv'
    BY <1>2, StartMoves, MoveTypes, NoDirs DEF MakeDir, UndoCopy, DropXpad, Goto, backups, ghosts
  <1>3. ASSUME NEW x \in XNotes, RenameXpad(x) \/ RenameFails(x) PROVE TypeInv'
    <2>1. /\ pc' \in [XNotes -> {"off"} \cup Starting \cup Serving]
          /\ live.sock \in XNotes => pc'[live.sock] \in Serving
          /\ aside.sock \in XNotes => pc'[aside.sock] \in Serving
      <3>1. PICK l \in {"off"} \cup Starting \cup Serving :
              (pc[x] \notin Serving \/ l \in Serving) /\ pc' = [pc EXCEPT ![x] = l]
        BY <1>3, StartMoves
      <3> QED BY <3>1, MoveTypes
    <2>2. /\ live' \in {live, EmptyDir} \/ (live' = xpad /\ xpad.exists)
          /\ xpad' \in {xpad, NoDir} /\ todo' \in [XNotes -> SUBSET Notes]
          /\ UNCHANGED <<tmp, aside, backups, rpc, chosen, saved, current, met, torn>> /\ raced' \in BOOLEAN
      BY <1>3 DEF RenameXpad, RenameFails, Goto
    <2> QED BY <2>1, <2>2, NoDirs DEF backups
  <1>4. ASSUME NEW x \in XNotes, NEW n \in Notes, CopyNote(x, n) PROVE TypeInv'
    <2>1. /\ live' \in Dir /\ live'.sock = live.sock /\ (live'.exists \/ live' = NoDir)
      BY <1>4 DEF CopyNote, Dir, Contents, NoDir
    <2> QED BY <1>4, <2>1 DEF CopyNote, Starting, Migrating, Serving, backups
  <1>5. ASSUME NEW x \in XNotes, OpenProcFile(x) PROVE TypeInv'
    <2>1. live' \in Dir /\ live'.sock \in {live.sock, x} /\ (live'.exists \/ live' = NoDir)
      BY <1>5 DEF OpenProcFile, Dir, Sockets, NoDir
    <2>2. pc'[x] \in Serving
      BY <1>5 DEF OpenProcFile, Goto, Serving
    <2> QED BY <1>5, <2>1, <2>2, StartMoves, MoveTypes DEF OpenProcFile, Goto, backups, ghosts
  <1>6. ASSUME NEW x \in XNotes, LoadPads(x) PROVE TypeInv'
    BY <1>6, StartMoves, MoveTypes DEF LoadPads, Goto, dirs, backups, ghosts
  <1>7. ASSUME NEW x \in XNotes, NothingToLoad(x) \/ Quit(x) \/ Kill(x) PROVE TypeInv'
    <2>1. /\ Ends(x) /\ UNCHANGED <<xpad, tmp, backups, rpc, chosen, saved, current, met, raced>>
          /\ torn' \in BOOLEAN
      BY <1>7 DEF NothingToLoad, Quit, Kill, ghosts
    <2> QED BY <2>1, EndsTypes DEF backups
  <1>8. ASSUME NEW x \in XNotes, NEW n \in Notes, Save(x, n) PROVE TypeInv'
    <2>1. PICK v \in OfXpad + 1..MaxVersion :
            /\ live' = [live EXCEPT !.notes[n] = v]
            /\ saved' = [saved EXCEPT ![n] = v]
            /\ current' = [current EXCEPT ![n] = v]
      BY <1>8 DEF Save
    <2>2. v \in 0..MaxVersion
      BY DEF OfXpad
    <2>3. live' \in Dir /\ live'.sock = live.sock /\ live'.exists /\ saved' \in Contents /\ current' \in Contents
      BY <1>8, <2>1, <2>2 DEF Save, Dir, Contents
    <2> QED BY <1>8, <2>3 DEF Save, xnotes
  <1>9. CASE XpadQuits \/ RemoveStaleSocket
    <2>1. /\ live' \in Dir /\ (live'.exists \/ live' = NoDir)
          /\ xpad' \in Dir /\ (xpad'.exists \/ xpad' = NoDir)
      BY <1>9 DEF XpadQuits, RemoveStaleSocket, Dir, Sockets, NoDir
    <2> QED BY <1>9, <2>1 DEF XpadQuits, RemoveStaleSocket, backups, xnotes, ghosts, Dir
  <1>10. CASE Backup \/ RestoreSnapshot \/ SafetyCopy \/ Extract
    <2>1. [EmptyDir EXCEPT !.notes = chosen] \in Dir
      BY DEF Dir, EmptyDir
    <2> QED BY <1>10, <2>1, ZenonT(60) DEF Backup, RestoreSnapshot, SafetyCopy, Extract, dirs, backups, xnotes, ghosts,
         RestorePC, Dir, EmptyDir
  <1>11. CASE ExtractFails
    <2>1. \A S \in SUBSET Notes :
            [EmptyDir EXCEPT !.notes = [n \in Notes |-> IF n \in S THEN chosen[n] ELSE Absent]] \in Dir
      <3> SUFFICES ASSUME NEW S \in SUBSET Notes
                   PROVE  [n \in Notes |-> IF n \in S THEN chosen[n] ELSE Absent] \in Contents
        BY DEF Dir, EmptyDir
      <3> QED BY DEF Contents, Absent
    <2>2. tmp' \in Dir /\ tmp'.sock = NoSocket /\ (tmp'.exists \/ tmp' = NoDir)
      BY <1>11, <2>1, NoDirs, ZenonT(60) DEF ExtractFails, EmptyDir
    <2> QED BY <1>11, <2>2 DEF ExtractFails, Exit, backups, xnotes, ghosts, RestorePC
  <1>12. CASE DropOld \/ MoveAside \/ MoveAsideFails \/ Install \/ InstallFails \/ RollBack \/ Finish \/ RestoreKilled
    <2>1. /\ live' \in {live, aside, tmp, NoDir} /\ aside' \in {live, aside, NoDir} /\ tmp' \in {tmp, NoDir}
          /\ UNCHANGED <<xpad, backups, xnotes, saved, met, raced>> /\ torn' \in BOOLEAN
          /\ current' \in {current, chosen} /\ chosen' \in {chosen, NoNotes} /\ rpc' \in RestorePC
      BY <1>12 DEF DropOld, MoveAside, MoveAsideFails, Install, InstallFails, RollBack, Finish, RestoreKilled,
         Exit, dirs, ghosts, RestorePC
    <2> QED BY <2>1, NoDirs DEF backups, xnotes
  <1>13. CASE UNCHANGED vars
    BY <1>13 DEF vars, dirs, backups, xnotes, ghosts
  <1> QED
    BY <1>1, <1>2, <1>3, <1>4, <1>5, <1>6, <1>7, <1>8, <1>9, <1>10, <1>11, <1>12, <1>13
       DEF Next, Start, Restore

(* A socket that answers belongs to a process that is serving, and nothing *)
(* is in a directory that does not exist, at every point of a start, a     *)
(* migration and a restore.                                                *)
THEOREM TypeCorrect == Spec => []TypeOK
  <1>1. TypeInv => TypeOK
    BY DEF TypeInv
  <1> QED BY <1>1, TypeInit, TypeNext, PTL DEF Spec

-----------------------------------------------------------------------------
(* The socket.  A start that met nothing is the only one, no restore runs   *)
(* beside a process, and from the moment it has looked at the directory     *)
(* nobody else makes or removes it.                                         *)

AtDir(x) ==
    /\ pc[x] \in {"connect", "bind", "drop"} \cup Migrating => live.exists
    /\ pc[x] \in {"mkdir", "rename"} => ~live.exists
    /\ pc[x] = "mkdir" => ~xpad.exists

Reached(x) ==
    pc[x] \in Serving =>
        /\ live.exists /\ live.sock = x
        /\ \A y \in Begun : pc[y] \in {"look", "connect"}

ReachInv == ~met =>
    /\ rpc # "idle" => Alive = {}
    /\ \A x, y \in Begun : x = y
    /\ \A x \in XNotes : AtDir(x) /\ Reached(x)

LEMMA ReachInit == Init => ReachInv
  BY DEF Init, ReachInv, AtDir, Reached, Begun, Alive, Starting, Serving, Migrating

\* A process goes on from one place of the start to the next.
LEMMA ReachMoves ==
    ASSUME TypeInv, ReachInv, ~met', met' = met, rpc' = rpc,
           NEW x \in XNotes, NEW l \in {"off"} \cup Starting, pc[x] \in Starting, pc' = [pc EXCEPT ![x] = l],
           l \in {"connect", "bind", "drop"} \cup Migrating => live'.exists,
           l \in {"mkdir", "rename"} => ~live'.exists,
           l = "mkdir" => ~xpad'.exists,
           \A y \in XNotes : pc[y] \in Serving =>
               live'.exists /\ live'.sock = live.sock /\ l \in {"look", "connect", "off"}
    PROVE  ReachInv'
  <1> USE DEF TypeInv, TypeOK
  <1>1. x \in Begun /\ Begun' \subseteq Begun /\ Begun = {x}
    BY DEF ReachInv, Begun
  <1>2. rpc = "idle"
    BY DEF ReachInv, Alive, Starting, Migrating
  <1>3. \A y \in XNotes \ {x} : pc'[y] = pc[y] /\ pc'[y] \notin Starting
    BY <1>1 DEF Begun
  <1>4. pc'[x] = l
    OBVIOUS
  <1>5. \A y \in XNotes : AtDir(y)'
    BY <1>3, <1>4 DEF AtDir, Starting, Migrating
  <1>6. \A y \in XNotes : Reached(y)'
    <2> SUFFICES ASSUME NEW y \in XNotes, pc'[y] \in Serving PROVE Reached(y)'
      BY DEF Reached
    <2>1. y # x
      BY <1>4 DEF Serving, Starting, Migrating
    <2>2. live'.exists /\ live'.sock = y
      BY <1>3, <2>1 DEF ReachInv, Reached
    <2>3. \A z \in Begun' : pc'[z] \in {"look", "connect"}
      BY <1>1, <1>3, <1>4, <2>1 DEF Begun, Starting, Migrating
    <2> QED BY <2>2, <2>3 DEF Reached
  <1> QED BY <1>1, <1>2, <1>5, <1>6 DEF ReachInv

\* A process ends.
LEMMA ReachEnds ==
    ASSUME TypeInv, ReachInv, met' = met, rpc' = rpc, xpad' = xpad, NEW x \in XNotes, Ends(x)
    PROVE  ReachInv'
  <1> SUFFICES ASSUME ~met PROVE ReachInv'
    BY DEF ReachInv
  <1> USE DEF TypeInv, TypeOK
  <1>1. pc' = [pc EXCEPT ![x] = "off"] /\ live'.exists = live.exists
        /\ (live.sock # x => live' = live)
    BY DEF Ends, Deaf, Dir
  <1>2. pc'[x] = "off" /\ (\A y \in XNotes \ {x} : pc'[y] = pc[y])
        /\ Begun' \subseteq Begun /\ Alive' \subseteq Alive
    BY <1>1 DEF Begun, Alive, Starting, Migrating
  <1>3. \A y \in XNotes : AtDir(y)'
    BY <1>1, <1>2 DEF ReachInv, AtDir, Migrating
  <1>4. \A y \in XNotes : Reached(y)'
    <2>1. \A z \in Begun' : z # x /\ z \in Begun
      BY <1>2 DEF Begun, Starting, Migrating
    <2> QED BY <1>1, <1>2, <2>1 DEF ReachInv, Reached, Serving, Begun
  <1> QED BY <1>2, <1>3, <1>4 DEF ReachInv

\* Nobody starts, serves or ends.
LEMMA ReachStays ==
    ASSUME TypeInv, ReachInv, UNCHANGED <<pc, xpad>> \/ (UNCHANGED pc /\ Alive = {}),
           ~met' => ~met /\ (rpc' # "idle" => Alive = {}),
           Alive = {} \/ (live'.exists = live.exists /\ (\A x \in XNotes : live.sock = x => live'.sock = x))
    PROVE  ReachInv'
  <1> SUFFICES ASSUME ~met' PROVE ReachInv'
    BY DEF ReachInv
  <1>1. Begun' = Begun /\ Alive' = Alive
    BY DEF Begun, Alive
  <1>2. CASE Alive = {}
    <2>1. \A x \in XNotes : pc[x] = "off"
      BY <1>2 DEF Alive
    <2> QED BY <1>1, <2>1 DEF ReachInv, AtDir, Reached, Begun, Starting, Serving, Migrating
  <1>3. CASE Alive # {}
    <2>1. \A x \in XNotes : AtDir(x)' /\ Reached(x)'
      BY <1>1, <1>3 DEF ReachInv, AtDir, Reached
    <2> QED BY <1>1, <2>1 DEF ReachInv
  <1> QED BY <1>2, <1>3

LEMMA ReachNext == TypeInv /\ ReachInv /\ [Next]_vars => ReachInv'
  <1> SUFFICES ASSUME TypeInv, ReachInv, [Next]_vars, ~met' PROVE ReachInv'
    BY DEF ReachInv
  <1>1. ASSUME NEW x \in XNotes, Launch(x) PROVE ReachInv'
    <2>1. pc[x] = "off" /\ pc' = [pc EXCEPT ![x] = "look"] /\ Begun = {} /\ rpc = "idle" /\ ~met
          /\ UNCHANGED <<live, xpad, rpc>>
      BY <1>1 DEF Launch, Goto, At, dirs
    <2>2. pc'[x] = "look" /\ \A y \in XNotes \ {x} : pc'[y] = pc[y] /\ pc[y] \notin Starting
      BY <2>1 DEF TypeInv, TypeOK, Begun
    <2>3. Begun' = {x}
      BY <2>2 DEF Begun, Starting
    <2> QED BY <2>1, <2>2, <2>3 DEF ReachInv, AtDir, Reached, Serving, Starting, Migrating
  <1>2. ASSUME NEW x \in XNotes, LookForDir(x) \/ MakeDir(x) \/ CopyFails(x) \/ CopyEnds(x) \/ UndoCopy(x)
               \/ DropXpad(x) \/ RenameXpad(x) \/ RenameFails(x)
               \/ (\E n \in Notes : CopyNote(x, n)) \/ PassArgs(x)
        PROVE  ReachInv'
    <2> DEFINE l == pc'[x]
    <2>0. /\ pc[x] \in Starting /\ l \in {"off"} \cup Starting /\ pc' = [pc EXCEPT ![x] = l]
          /\ met' = met /\ rpc' = rpc
      BY <1>2 DEF LookForDir, MakeDir, CopyFails, CopyEnds, UndoCopy, DropXpad, RenameXpad, RenameFails,
         CopyNote, PassArgs, Goto, At, Starting, Migrating, ghosts, TypeInv, TypeOK
    <2>1. AtDir(x) /\ (pc[x] \in {"mkdir", "rename", "bind", "drop"} \cup Migrating => \A y \in XNotes : pc[y] \notin Serving)
      BY <2>0 DEF ReachInv, Reached, Begun, Migrating
    <2>2. /\ l \in {"connect", "bind", "drop"} \cup Migrating => live'.exists
          /\ l \in {"mkdir", "rename"} => ~live'.exists
          /\ l = "mkdir" => ~xpad'.exists
      BY <1>2, <2>0, <2>1 DEF LookForDir, MakeDir, CopyFails, CopyEnds, UndoCopy, DropXpad, RenameXpad, RenameFails,
         CopyNote, PassArgs, Goto, At, Migrating, AtDir, dirs, TypeInv, TypeOK, EmptyDir, Dir
    <2>3. ASSUME NEW y \in XNotes, pc[y] \in Serving
          PROVE  live'.exists /\ live'.sock = live.sock /\ l \in {"look", "connect", "off"}
      <3>1. pc[x] \in {"look", "connect"} /\ live.exists /\ live.sock = y
        BY <2>0, <2>3 DEF ReachInv, Reached, Begun
      <3> QED BY <1>2, <3>1 DEF LookForDir, MakeDir, CopyFails, CopyEnds, UndoCopy, DropXpad, RenameXpad,
           RenameFails, CopyNote, PassArgs, Answers, Goto, At, Migrating, dirs, TypeInv, TypeOK
    <2> QED BY <2>0, <2>2, <2>3, ReachMoves
  <1>3. ASSUME NEW x \in XNotes, OpenProcFile(x) PROVE ReachInv'
    <2>1. pc[x] = "bind" /\ live.exists /\ Begun = {x} /\ (\A y \in XNotes : pc[y] \notin Serving)
      BY <1>3 DEF OpenProcFile, At, ReachInv, AtDir, Reached, Begun, Starting, ghosts
    <2>2. /\ pc' = [pc EXCEPT ![x] = "load"] /\ live'.exists /\ live'.sock = x /\ rpc' = rpc /\ met' = met
      BY <1>3, <2>1 DEF OpenProcFile, Goto, ghosts, TypeInv, TypeOK, Dir
    <2>3. pc'[x] = "load" /\ (\A y \in XNotes \ {x} : pc'[y] = pc[y] /\ pc[y] \notin Starting \cup Serving)
      BY <2>1, <2>2 DEF TypeInv, TypeOK, Begun
    <2>4. Begun' = {}
      BY <2>3 DEF Begun, Starting, Migrating
    <2>5. rpc = "idle"
      BY <2>1, <2>2 DEF ReachInv, Alive
    <2> QED BY <2>2, <2>3, <2>4, <2>5 DEF ReachInv, AtDir, Reached, Starting, Migrating
  <1>4. ASSUME NEW x \in XNotes, LoadPads(x) PROVE ReachInv'
    <2>1. pc[x] = "load" /\ pc' = [pc EXCEPT ![x] = "run"] /\ UNCHANGED <<live, xpad, rpc, met>>
      BY <1>4 DEF LoadPads, At, Goto, dirs, ghosts
    <2>2. pc'[x] = "run" /\ \A y \in XNotes \ {x} : pc'[y] = pc[y]
      BY <2>1 DEF TypeInv, TypeOK
    <2>3. Begun' = Begun /\ Alive' = Alive
      BY <2>1, <2>2 DEF Begun, Alive, Starting, Migrating
    <2>4. \A y \in Begun : y # x
      BY <2>1 DEF Begun, Starting, Migrating
    <2> QED BY <2>1, <2>2, <2>3, <2>4 DEF ReachInv, AtDir, Reached, Serving, Migrating, Begun
  <1>5. ASSUME NEW x \in XNotes, NothingToLoad(x) \/ Quit(x) \/ Kill(x) PROVE ReachInv'
    <2>1. Ends(x) /\ UNCHANGED <<xpad, rpc, met>>
      BY <1>5 DEF NothingToLoad, Quit, Kill, ghosts
    <2> QED BY <2>1, ReachEnds
  <1>6. ASSUME NEW x \in XNotes, NEW n \in Notes, Save(x, n) PROVE ReachInv'
    <2>1. UNCHANGED <<pc, xpad, rpc, met>> /\ live'.exists = live.exists /\ live'.sock = live.sock
      BY <1>6 DEF Save, xnotes, TypeInv, TypeOK, Dir
    <2> QED BY <2>1, ReachStays DEF ReachInv
  <1>7. CASE XpadQuits
    <2>1. UNCHANGED <<pc, live, rpc, met>> /\ xpad'.exists = xpad.exists
      BY <1>7 DEF XpadQuits, xnotes, ghosts, TypeInv, TypeOK, Dir
    <2> QED BY <2>1 DEF ReachInv, Alive, Begun, AtDir, Reached
  <1>8. CASE RemoveStaleSocket
    <2>1. /\ UNCHANGED <<pc, xpad, rpc, met>> /\ live'.exists = live.exists
          /\ \A x \in XNotes : live.sock = x => live'.sock = x
      BY <1>8, ConfigAssumption DEF RemoveStaleSocket, xnotes, ghosts, TypeInv, TypeOK, Dir
    <2> QED BY <2>1, ReachStays DEF ReachInv
  <1>9. CASE RestoreSnapshot
    <2>1. UNCHANGED <<pc, xpad, live>> /\ ~met
      BY <1>9 DEF RestoreSnapshot, dirs, xnotes
    <2>2. Alive = {}
      <3>1. Begun = {} /\ (Alive = {} \/ ~Answers(live))
        BY <1>9 DEF RestoreSnapshot
      <3>2. ASSUME NEW x \in Alive PROVE FALSE
        <4>1. x \in XNotes /\ pc[x] \in Serving
          BY <3>1, <3>2 DEF Alive, Begun, TypeInv, TypeOK
        <4> QED BY <2>1, <3>1, <3>2, <4>1 DEF ReachInv, Reached, Answers
      <3> QED BY <3>2
    <2> QED BY <2>1, <2>2, ReachStays
  <1>10. CASE Backup \/ UNCHANGED vars
    <2>1. UNCHANGED <<pc, xpad, live, rpc, met>>
      BY <1>10 DEF Backup, vars, dirs, xnotes, ghosts
    <2> QED BY <2>1, ReachStays DEF ReachInv
  <1>11. CASE Restore /\ ~RestoreSnapshot
    <2>1. rpc # "idle" /\ UNCHANGED <<pc, met>>
      BY <1>11 DEF Restore, SafetyCopy, Extract, ExtractFails, DropOld, MoveAside, MoveAsideFails, Install,
         InstallFails, RollBack, Finish, RestoreKilled, xnotes, ghosts
    <2>2. Alive = {}
      BY <2>1 DEF ReachInv
    <2> QED BY <2>1, <2>2, ReachStays
  <1> QED
    BY <1>1, <1>2, <1>3, <1>4, <1>5, <1>6, <1>7, <1>8, <1>9, <1>10, <1>11 DEF Next, Start

(* Every XNote that serves answers at the socket of the directory, so that *)
(* a second start and a restore find it, unless one of them met another    *)
(* start or a restore.                                                     *)
THEOREM ServerAlwaysReachable == Spec => []ServerReachable
  <1>1. TypeInv /\ ReachInv => ServerReachable
    BY DEF ReachInv, Reached, ServerReachable, Answers
  <1> QED
    BY <1>1, TypeInit, TypeNext, ReachInit, ReachNext, PTL DEF Spec

-----------------------------------------------------------------------------
(* The notes.  Whoever removes or overwrites a directory has seen to it     *)
(* that its newest notes are elsewhere.                                     *)

Migrates == \E x \in XNotes : pc[x] \in Migrating

Elsewhere(n) == n \in keeps \/ xpad.notes[n] = saved[n]

Copied(x) ==
    /\ pc[x] \in {"rename", "drop"} \cup Migrating => xpad.exists
    /\ pc[x] = "drop" => todo[x] = {}
    /\ pc[x] \in {"copy", "drop"} =>
         \A n \in Notes \ todo[x] :
           n \in keeps \/ saved[n] = Absent \/ (live.notes[n] = saved[n] /\ ~Swapping)

NoteInv ==
    /\ \A n \in Notes : saved[n] = Absent => xpad.notes[n] = Absent
    /\ ~raced =>
         /\ xpad.exists => \A x, y \in Begun : x = y
         /\ \A x \in XNotes : Copied(x)
         /\ \A n \in Notes : Elsewhere(n) \/ live.notes[n] = saved[n]
         /\ Swapping \/ Migrates => \A n \in Notes : Elsewhere(n)

LEMMA NoteInit == Init => NoteInv
  <1> SUFFICES ASSUME Init PROVE NoteInv
    OBVIOUS
  <1>1. \A n \in Notes : xpad.notes[n] = saved[n]
    BY DEF Init
  <1>2. ~Swapping /\ ~Migrates /\ Begun = {} /\ (\A x \in XNotes : pc[x] = "off")
    BY DEF Init, Swapping, Migrates, Begun, Starting, Migrating
  <1> QED BY <1>1, <1>2 DEF NoteInv, Copied, Elsewhere, Migrating

\* Where there is no directory, what is not elsewhere was never saved.
LEMMA NothingLive ==
    ASSUME TypeInv, NoteInv, ~raced, live.notes = NoNotes
    PROVE  \A n \in Notes : Elsewhere(n)
  BY DEF TypeInv, TypeOK, NoteInv, Elsewhere, NoNotes

NotesStill ==
    /\ live'.notes = live.notes /\ xpad'.notes = xpad.notes /\ xpad'.exists = xpad.exists
    /\ UNCHANGED <<keeps, saved>>

\* Processes come and go, and no note moves.
LEMMA NotesStay ==
    ASSUME TypeInv, NoteInv, ~raced', raced' = (raced \/ raced'), NotesStill, Swapping' => Swapping,
           xpad.exists => \A y, z \in Begun' : y = z,
           \A y \in XNotes :
             \/ pc'[y] = pc[y] /\ todo'[y] = todo[y]
             \/ pc'[y] \notin {"rename", "drop"} \cup Migrating
             \/ pc'[y] \in {"copy_bad", "undo"} /\ pc[y] \in Migrating
             \/ pc'[y] = "drop" /\ pc[y] = "copy" /\ todo[y] = {} /\ todo'[y] = {}
             \/ pc'[y] = "rename" /\ xpad.exists
    PROVE  NoteInv'
  <1>1. ~raced
    OBVIOUS
  <1>2. \A y \in XNotes : Copied(y)'
    <2> SUFFICES ASSUME NEW y \in XNotes PROVE Copied(y)'
      OBVIOUS
    <2>1. Copied(y)
      BY <1>1 DEF NoteInv
    <2> QED BY <2>1 DEF Copied, NotesStill, Migrating
  <1>3. Migrates' => Migrates
    BY DEF Migrates, Migrating
  <1> QED BY <1>1, <1>2, <1>3 DEF NoteInv, NotesStill, Elsewhere

\* A restore that has made its safety copy goes on.
LEMMA SwapKeeps ==
    ASSUME NoteInv, Swapping, UNCHANGED <<xpad, keeps, saved, pc, todo, raced>>
    PROVE  NoteInv'
  <1> SUFFICES ASSUME ~raced PROVE NoteInv'
    BY DEF NoteInv, Elsewhere
  <1>1. \A n \in Notes : Elsewhere(n)
    BY DEF NoteInv
  <1>2. \A x \in XNotes : Copied(x)'
    BY DEF NoteInv, Copied
  <1>3. Begun' = Begun
    BY DEF Begun
  <1> QED BY <1>1, <1>2, <1>3 DEF NoteInv, Elsewhere

LEMMA NoteNext == TypeInv /\ NoteInv /\ [Next]_vars => NoteInv'
  <1> SUFFICES ASSUME TypeInv, NoteInv, [Next]_vars PROVE NoteInv'
    OBVIOUS
  <1> USE DEF TypeInv, TypeOK
  <1>0. ~raced => (xpad.exists => \A y, z \in Begun : y = z) /\ (\A y \in XNotes : Copied(y))
    BY DEF NoteInv
  <1>1. ASSUME NEW x \in XNotes, Launch(x) PROVE NoteInv'
    <2>1. /\ UNCHANGED <<dirs, keeps, saved, rpc, todo>> /\ pc' = [pc EXCEPT ![x] = "look"]
          /\ raced' = (raced \/ (Begun # {} /\ xpad.exists))
      BY <1>1 DEF Launch, Goto, backups
    <2>2. CASE ~raced'
      <3>1. Begun' = Begun \cup {x}
        BY <2>1 DEF Begun, Starting
      <3>2. xpad.exists => \A y, z \in Begun' : y = z
        BY <2>1, <2>2, <3>1
      <3> QED BY <2>1, <2>2, <3>2, NotesStay DEF NotesStill, dirs, Swapping, Migrating
    <2>3. CASE raced'
      BY <2>1, <2>3 DEF NoteInv, dirs
    <2> QED BY <2>2, <2>3
  <1>2. ASSUME NEW x \in XNotes, LookForDir(x) \/ CopyFails(x) \/ CopyEnds(x) \/ PassArgs(x) \/ MakeDir(x)
               \/ OpenProcFile(x) \/ LoadPads(x)
        PROVE  NoteInv'
    <2> SUFFICES ASSUME ~raced' PROVE NoteInv'
      BY <1>2 DEF NoteInv, LookForDir, CopyFails, CopyEnds, PassArgs, MakeDir, OpenProcFile, LoadPads,
         dirs, backups, ghosts
    <2>1. /\ NotesStill /\ UNCHANGED <<rpc, todo, raced>> /\ pc' = [pc EXCEPT ![x] = pc'[x]]
      BY <1>2, NoDirs DEF NotesStill, LookForDir, CopyFails, CopyEnds, PassArgs, MakeDir, OpenProcFile, LoadPads,
         Goto, dirs, backups, ghosts, Dir
    <2>2. /\ pc'[x] \in Starting => pc[x] \in Starting
          /\ \/ pc'[x] \notin {"rename", "drop"} \cup Migrating
             \/ pc'[x] \in {"copy_bad", "undo"} /\ pc[x] \in Migrating
             \/ pc'[x] = "drop" /\ pc[x] = "copy" /\ todo[x] = {}
             \/ pc'[x] = "rename" /\ xpad.exists
      BY <1>2 DEF LookForDir, CopyFails, CopyEnds, PassArgs, MakeDir, OpenProcFile, LoadPads, At, Goto,
         Starting, Migrating
    <2>3. Begun' \subseteq Begun
      BY <2>1, <2>2 DEF Begun
    <2>4. xpad.exists => \A y, z \in Begun' : y = z
      BY <1>0, <2>1, <2>3
    <2>5. \A y \in XNotes \ {x} : pc'[y] = pc[y]
      BY <2>1
    <2>6. Swapping' = Swapping
      BY <2>1 DEF Swapping
    <2> QED BY <2>1, <2>2, <2>4, <2>5, <2>6, NotesStay
  <1>3. ASSUME NEW x \in XNotes, NothingToLoad(x) \/ Quit(x) \/ Kill(x) PROVE NoteInv'
    <2>1. Ends(x) /\ UNCHANGED <<xpad, keeps, saved, rpc, raced>>
      BY <1>3 DEF NothingToLoad, Quit, Kill, backups, ghosts
    <2>2. /\ pc' = [pc EXCEPT ![x] = "off"] /\ todo' = [todo EXCEPT ![x] = {}] /\ NotesStill
      BY <2>1 DEF Ends, Deaf, Dir, NotesStill
    <2>3. CASE ~raced'
      <3>1. Begun' \subseteq Begun /\ Swapping' = Swapping
        BY <2>1, <2>2 DEF Begun, Starting, Migrating, Swapping
      <3>2. xpad.exists => \A y, z \in Begun' : y = z
        BY <1>0, <2>1, <2>3, <3>1
      <3>3. \A y \in XNotes : IF y = x THEN pc'[y] = "off" ELSE pc'[y] = pc[y] /\ todo'[y] = todo[y]
        BY <2>2
      <3> QED BY <2>1, <2>2, <2>3, <3>1, <3>2, <3>3, NotesStay DEF Migrating
    <2>4. CASE raced'
      BY <2>1, <2>4 DEF NoteInv
    <2> QED BY <2>3, <2>4
  <1>4. CASE XpadQuits \/ RemoveStaleSocket \/ Backup \/ RestoreSnapshot \/ (Restore /\ ~Swapping /\ ~SafetyCopy)
             \/ UNCHANGED vars
    <2>1. NotesStill /\ UNCHANGED <<pc, todo, raced>>
      BY <1>4 DEF XpadQuits, RemoveStaleSocket, Backup, RestoreSnapshot, Restore, Extract, ExtractFails,
         DropOld, MoveAside, MoveAsideFails, Install, InstallFails, RollBack, Finish, RestoreKilled, Swapping,
         RestorePC, vars, dirs, backups, xnotes, ghosts, NotesStill, Dir
    <2>2. Swapping' => Swapping
      BY <1>4 DEF XpadQuits, RemoveStaleSocket, Backup, RestoreSnapshot, Restore, Extract, ExtractFails,
         DropOld, MoveAside, MoveAsideFails, Install, InstallFails, RollBack, Finish, RestoreKilled, Exit,
         Swapping, RestorePC, vars
    <2>3. CASE ~raced'
      <3>1. Begun' = Begun
        BY <2>1 DEF Begun
      <3> QED BY <1>0, <2>1, <2>2, <2>3, <3>1, NotesStay
    <2>4. CASE raced'
      BY <2>1, <2>4 DEF NoteInv, NotesStill
    <2> QED BY <2>3, <2>4
  <1>5. CASE Restore /\ Swapping
    <2>1. UNCHANGED <<xpad, keeps, saved, pc, todo, raced>>
      BY <1>5 DEF Restore, RestoreSnapshot, SafetyCopy, Extract, ExtractFails, DropOld, MoveAside, MoveAsideFails,
         Install, InstallFails, RollBack, Finish, RestoreKilled, Swapping, dirs, backups, xnotes, ghosts
    <2> QED BY <1>5, <2>1, SwapKeeps
  <1>6. CASE SafetyCopy
    <2>1. UNCHANGED <<live, xpad, saved, pc, todo, raced>> /\ keeps \subseteq keeps' /\ ~Swapping
      BY <1>6 DEF SafetyCopy, dirs, xnotes, ghosts, Swapping
    <2>2. CASE ~raced
      <3>1. CASE ~Swapping'
        <4>1. \A y \in XNotes : Copied(y)'
          BY <1>0, <2>1, <2>2, <3>1 DEF Copied
        <4>2. Begun' = Begun /\ Migrates' = Migrates
          BY <2>1 DEF Begun, Migrates
        <4> QED BY <2>1, <2>2, <3>1, <4>1, <4>2 DEF NoteInv, Elsewhere
      <3>2. CASE Swapping'
        <4>1. CASE live.exists
          <5>1. keeps' = keeps \cup {n \in Notes : live.notes[n] = saved[n]}
            BY <1>6, <3>2, <4>1 DEF SafetyCopy, Swapping
          <5>2. \A n \in Notes : Elsewhere(n)'
            BY <2>1, <2>2, <5>1 DEF NoteInv, Elsewhere
          <5>3. \A y \in XNotes : Copied(y)'
            BY <1>0, <2>1, <2>2, <5>1 DEF Copied
          <5>4. Begun' = Begun
            BY <2>1 DEF Begun
          <5> QED BY <2>1, <2>2, <5>2, <5>3, <5>4 DEF NoteInv
        <4>2. CASE ~live.exists
          <5>1. \A n \in Notes : live.notes[n] = Absent /\ Elsewhere(n)
            BY <2>2, <4>2, NoDirs, NothingLive DEF NoNotes
          <5>2. \A n \in Notes : Elsewhere(n)'
            BY <2>1, <5>1 DEF Elsewhere
          <5>3. \A y \in XNotes : Copied(y)'
            BY <1>0, <2>1, <2>2, <5>1 DEF Copied
          <5>4. Begun' = Begun
            BY <2>1 DEF Begun
          <5> QED BY <2>1, <2>2, <5>2, <5>3, <5>4 DEF NoteInv
        <4> QED BY <4>1, <4>2
      <3> QED BY <3>1, <3>2
    <2>3. CASE raced
      BY <2>1, <2>3 DEF NoteInv
    <2> QED BY <2>2, <2>3
  <1>7. ASSUME NEW x \in XNotes, RenameXpad(x) PROVE NoteInv'
    <2>1. /\ pc[x] = "rename" /\ xpad.exists /\ live.notes = NoNotes
          /\ live' = xpad /\ xpad' = NoDir /\ pc' = [pc EXCEPT ![x] = "connect"]
          /\ UNCHANGED <<todo, keeps, saved, rpc>> /\ raced' = (raced \/ Swapping)
      BY <1>7, NoDirs DEF RenameXpad, At, Goto, backups, Replaceable
    <2>2. \A n \in Notes : xpad'.notes[n] = Absent
      BY <2>1, NoDirs DEF NoNotes
    <2>3. CASE ~raced'
      <3>1. \A n \in Notes : Elsewhere(n)
        BY <2>1, <2>3, NothingLive
      <3>2. \A n \in Notes : n \in keeps' \/ live'.notes[n] = saved'[n]
        BY <2>1, <3>1 DEF Elsewhere
      <3>3. \A y \in XNotes \ {x} : pc'[y] \notin Starting
        BY <1>0, <2>1, <2>3 DEF Begun, Starting
      <3>4. ~Swapping' /\ ~Migrates' /\ (\A y \in XNotes : Copied(y)')
        BY <2>1, <2>3, <3>3 DEF Swapping, Migrates, Copied, Starting, Migrating
      <3> QED BY <2>1, <2>2, <3>2, <3>4, NoDirs DEF NoteInv, Elsewhere
    <2>4. CASE raced'
      BY <2>2, <2>4 DEF NoteInv
    <2> QED BY <2>3, <2>4
  <1>8. ASSUME NEW x \in XNotes, RenameFails(x) PROVE NoteInv'
    <2>1. /\ pc[x] = "rename" /\ pc' = [pc EXCEPT ![x] = pc'[x]] /\ pc'[x] \in {"copy", "copy_bad"}
          /\ todo' = [todo EXCEPT ![x] = {n \in Notes : xpad.notes[n] # Absent}]
          /\ UNCHANGED <<xpad, keeps, saved, rpc>> /\ raced' = (raced \/ Swapping \/ live.exists)
          /\ live' = IF live.exists THEN live ELSE EmptyDir
      BY <1>8 DEF RenameFails, At, backups
    <2>2. CASE ~raced'
      <3>1. live.notes = NoNotes /\ live'.notes = NoNotes /\ ~Swapping'
        BY <2>1, <2>2, NoDirs DEF Swapping
      <3>2. \A n \in Notes : Elsewhere(n)
        BY <2>1, <2>2, <3>1, NothingLive
      <3>3. xpad.exists /\ Begun' \subseteq Begun
        BY <1>0, <2>1, <2>2 DEF Copied, Begun, Starting, Migrating
      <3>4. Copied(x)'
        BY <2>1, <3>1, <3>2, <3>3 DEF Copied, Elsewhere, NoNotes
      <3>5. \A y \in XNotes \ {x} : Copied(y)'
        <4>1. \A y \in XNotes \ {x} : pc'[y] \notin Starting
          BY <1>0, <2>1, <2>2, <3>3 DEF Begun, Starting
        <4> QED BY <4>1 DEF Copied, Starting, Migrating
      <3> QED BY <1>0, <2>1, <2>2, <3>2, <3>3, <3>4, <3>5 DEF NoteInv, Elsewhere
    <2>3. CASE raced'
      BY <2>1, <2>3 DEF NoteInv
    <2> QED BY <2>2, <2>3
  <1>9. ASSUME NEW x \in XNotes, NEW n \in Notes, CopyNote(x, n) PROVE NoteInv'
    <2>1. /\ pc[x] \in Migrating /\ n \in todo[x] /\ todo' = [todo EXCEPT ![x] = todo[x] \ {n}]
          /\ pc' = [pc EXCEPT ![x] = pc'[x]] /\ pc'[x] \in {"copy", "copy_bad"}
          /\ pc'[x] = "copy" => pc[x] = "copy" /\ live'.notes = [live.notes EXCEPT ![n] = xpad.notes[n]]
          /\ \A m \in Notes \ {n} : live'.notes[m] = live.notes[m]
          /\ UNCHANGED <<xpad, keeps, saved, rpc>> /\ raced' = (raced \/ Swapping)
      BY <1>9 DEF CopyNote, Migrating, backups, Dir, Contents
    <2>2. CASE ~raced'
      <3>1. \A m \in Notes : Elsewhere(m)
        BY <2>1, <2>2 DEF NoteInv, Migrates
      <3>2. ~Swapping' /\ (\A m \in Notes : Elsewhere(m)')
        BY <2>1, <2>2, <3>1 DEF Swapping, Elsewhere
      <3>3. xpad.exists /\ Begun' = Begun
        BY <1>0, <2>1, <2>2 DEF Copied, Begun, Starting, Migrating
      <3>4. Copied(x)'
        <4> SUFFICES ASSUME pc'[x] = "copy", NEW m \in Notes \ todo'[x]
                     PROVE  m \in keeps \/ live'.notes[m] = saved[m] \/ saved[m] = Absent
          BY <2>1, <3>2, <3>3 DEF Copied, Migrating
        <4>1. CASE m = n
          BY <2>1, <3>1, <4>1 DEF Elsewhere, Dir, Contents
        <4>2. CASE m # n
          BY <1>0, <2>1, <2>2, <4>2 DEF Copied
        <4> QED BY <4>1, <4>2
      <3>5. \A y \in XNotes \ {x} : Copied(y)'
        <4>1. \A y \in XNotes \ {x} : pc'[y] \notin Starting
          BY <1>0, <2>1, <2>2, <3>3 DEF Begun, Starting, Migrating
        <4> QED BY <4>1 DEF Copied, Starting, Migrating
      <3> QED BY <1>0, <2>1, <2>2, <3>2, <3>3, <3>4, <3>5 DEF NoteInv
    <2>3. CASE raced'
      BY <2>1, <2>3 DEF NoteInv
    <2> QED BY <2>2, <2>3
  <1>10. ASSUME NEW x \in XNotes, UndoCopy(x) PROVE NoteInv'
    <2>1. /\ pc[x] = "undo" /\ pc' = [pc EXCEPT ![x] = "off"] /\ live' = NoDir
          /\ UNCHANGED <<xpad, todo, keeps, saved, rpc, raced>>
      BY <1>10 DEF UndoCopy, At, Goto, backups, ghosts
    <2>2. CASE ~raced'
      <3>1. \A n \in Notes : Elsewhere(n)
        BY <2>1, <2>2 DEF NoteInv, Migrates, Migrating
      <3>2. xpad.exists /\ Begun' = {}
        BY <1>0, <2>1, <2>2 DEF Copied, Begun, Starting, Migrating
      <3>3. \A y \in XNotes : Copied(y)'
        BY <3>2 DEF Begun, Copied, Starting, Migrating
      <3> QED BY <2>1, <2>2, <3>1, <3>2, <3>3 DEF NoteInv, Elsewhere
    <2>3. CASE raced'
      BY <2>1, <2>3 DEF NoteInv
    <2> QED BY <2>2, <2>3
  <1>11. ASSUME NEW x \in XNotes, DropXpad(x) PROVE NoteInv'
    <2>1. /\ pc[x] = "drop" /\ pc' = [pc EXCEPT ![x] = "connect"] /\ xpad' = NoDir
          /\ UNCHANGED <<live, todo, keeps, saved, rpc, raced>>
      BY <1>11 DEF DropXpad, At, Goto, backups, ghosts
    <2>2. \A n \in Notes : xpad'.notes[n] = Absent
      BY <2>1, NoDirs DEF NoNotes
    <2>3. CASE ~raced'
      <3>1. xpad.exists /\ \A n \in Notes : n \in keeps \/ saved[n] = Absent \/ (live.notes[n] = saved[n] /\ ~Swapping)
        BY <1>0, <2>1, <2>3 DEF Copied
      <3>2. \A y \in XNotes : pc'[y] \notin {"rename", "drop"} \cup Migrating
        BY <1>0, <2>1, <2>3, <3>1 DEF Begun, Starting, Migrating
      <3>3. ~Migrates' /\ \A y \in XNotes : Copied(y)'
        BY <3>2 DEF Copied, Migrates, Migrating
      <3>4. Swapping' = Swapping
        BY <2>1 DEF Swapping
      <3> QED BY <2>1, <2>2, <2>3, <3>1, <3>3, <3>4, NoDirs DEF NoteInv, Elsewhere
    <2>4. CASE raced'
      BY <2>2, <2>4 DEF NoteInv
    <2> QED BY <2>3, <2>4
  <1>12. ASSUME NEW x \in XNotes, NEW n \in Notes, Save(x, n) PROVE NoteInv'
    <2>1. PICK v \in OfXpad + 1..MaxVersion :
            live' = [live EXCEPT !.notes[n] = v] /\ saved' = [saved EXCEPT ![n] = v] /\ keeps' = keeps \ {n}
      BY <1>12 DEF Save
    <2>2. /\ UNCHANGED <<xpad, pc, todo, rpc>>
          /\ raced' = (raced \/ Swapping \/ \E y \in XNotes : pc[y] \in Migrating)
      BY <1>12 DEF Save, xnotes
    <2>3. /\ live'.notes[n] = v /\ saved'[n] = v /\ v # Absent
          /\ \A m \in Notes \ {n} : live'.notes[m] = live.notes[m] /\ saved'[m] = saved[m]
      BY <2>1 DEF Dir, Contents, OfXpad, Absent
    <2>4. \A m \in Notes : saved'[m] = Absent => xpad'.notes[m] = Absent
      BY <2>2, <2>3 DEF NoteInv
    <2>5. CASE ~raced'
      <3>1. ~raced /\ ~Swapping' /\ ~Swapping /\ ~Migrates' /\ Begun' = Begun
        BY <2>2, <2>5 DEF Swapping, Migrates, Begun
      <3>2. \A y \in XNotes : Copied(y)'
        BY <1>0, <2>1, <2>2, <2>3, <3>1 DEF Copied
      <3>3. \A m \in Notes : Elsewhere(m)' \/ live'.notes[m] = saved'[m]
        BY <2>1, <2>2, <2>3, <3>1 DEF NoteInv, Elsewhere
      <3> QED BY <1>0, <2>2, <2>4, <3>1, <3>2, <3>3 DEF NoteInv
    <2>6. CASE raced'
      BY <2>4, <2>6 DEF NoteInv
    <2> QED BY <2>5, <2>6
  <1> QED
    BY <1>1, <1>2, <1>3, <1>4, <1>5, <1>6, <1>7, <1>8, <1>9, <1>10, <1>11, <1>12 DEF Next, Start, Restore

(* The newest version of every note is somewhere under the user's home,    *)
(* whatever a migration or a restore was cut short at, as long as nothing  *)
(* is written beside one.                                                  *)
THEOREM NotesAlwaysKept == Spec => []NotesKept
  <1>1. NoteInv => NotesKept
    BY DEF NoteInv, NotesKept, Held, Elsewhere
  <1> QED
    BY <1>1, TypeInit, TypeNext, NoteInit, NoteNext, PTL DEF Spec

-----------------------------------------------------------------------------
(* What the user opens.  The current notes are in one known place.          *)

Place ==
    IF rpc \in {"install", "rollback"}
    THEN ~live.exists /\ (IF aside.exists THEN aside.notes ELSE xpad.notes) = current
    ELSE (IF live.exists /\ ~Migrates THEN live.notes ELSE xpad.notes) = current

CurrentInv == ~met /\ ~torn =>
    /\ Place
    /\ rpc \in {"drop_old", "aside", "install"} => tmp.exists /\ tmp.notes = chosen
    /\ rpc = "aside" => ~aside.exists
    /\ \A x \in XNotes : pc[x] = "copy" =>
         \A n \in Notes \ todo[x] : live.notes[n] = xpad.notes[n]
    /\ \A x \in XNotes : pc[x] = "drop" => live.notes = current

LEMMA CurrentInit == Init => CurrentInv
  <1> SUFFICES ASSUME Init PROVE CurrentInv
    OBVIOUS
  <1>1. rpc = "idle" /\ (\A x \in XNotes : pc[x] = "off") /\ ~Migrates
    BY DEF Init, Migrates, Migrating
  <1>2. (IF live.exists THEN live.notes ELSE xpad.notes) = current
    BY NoDirs DEF Init
  <1> QED BY <1>1, <1>2 DEF CurrentInv, Place

\* A start that migrates is alone.
LEMMA Alone ==
    ASSUME TypeInv, ReachInv, ~met, NEW x \in XNotes, pc[x] \in Starting
    PROVE  /\ rpc = "idle"
           /\ \A y \in XNotes \ {x} : pc[y] \notin Starting
           /\ pc[x] \in {"connect", "bind", "drop"} \cup Migrating => live.exists
           /\ pc[x] \in {"mkdir", "rename"} => live = NoDir
           /\ pc[x] = "mkdir" => xpad = NoDir
  BY DEF TypeInv, TypeOK, ReachInv, AtDir, Begun, Alive, Starting, Migrating

\* Processes come and go without a migration, and no directory changes.
LEMMA CurrentStays ==
    ASSUME TypeInv, CurrentInv, ~met', ~torn', met => met', torn => torn',
           live'.exists = live.exists, live'.notes = live.notes, xpad'.notes = xpad.notes,
           aside'.exists = aside.exists, aside'.notes = aside.notes, UNCHANGED <<tmp, chosen, rpc, current>>,
           \A y \in XNotes :
             \/ pc'[y] = pc[y] /\ todo'[y] = todo[y]
             \/ pc'[y] \notin {"drop"} \cup Migrating /\ pc[y] \notin Migrating
             \/ pc'[y] \in {"copy_bad", "undo"} /\ pc[y] \in Migrating
    PROVE  CurrentInv'
  <1>1. Migrates' = Migrates
    BY DEF Migrates, Migrating
  <1>2. Place'
    BY <1>1 DEF CurrentInv, Place
  <1>3. \A y \in XNotes : /\ pc'[y] = "copy" => pc[y] = "copy" /\ todo'[y] = todo[y]
                          /\ pc'[y] = "drop" => pc[y] = "drop"
    BY DEF Migrating
  <1> QED BY <1>2, <1>3 DEF CurrentInv

\* With nobody alive only the restore counts.
LEMMA CurrentInRestore ==
    ASSUME \A x \in XNotes : pc'[x] = "off", Place',
           rpc' \in {"drop_old", "aside", "install"} => tmp'.exists /\ tmp'.notes = chosen',
           rpc' = "aside" => ~aside'.exists
    PROVE  CurrentInv'
  BY DEF CurrentInv

LEMMA CurrentNext == TypeInv /\ ReachInv /\ CurrentInv /\ [Next]_vars => CurrentInv'
  <1> SUFFICES ASSUME TypeInv, ReachInv, CurrentInv, [Next]_vars, ~met', ~torn' PROVE CurrentInv'
    BY DEF CurrentInv
  <1> USE DEF TypeInv, TypeOK
  <1>1. ASSUME NEW x \in XNotes, Launch(x) \/ LookForDir(x) \/ CopyFails(x) \/ PassArgs(x) \/ LoadPads(x)
               \/ OpenProcFile(x) \/ (CopyEnds(x) /\ pc[x] = "copy_bad")
        PROVE  CurrentInv'
    <2>1. /\ live'.exists = live.exists /\ live'.notes = live.notes
          /\ UNCHANGED <<xpad, aside, tmp, chosen, rpc, current, todo>>
          /\ (met => met') /\ (torn => torn') /\ pc' = [pc EXCEPT ![x] = pc'[x]]
      BY <1>1 DEF Launch, LookForDir, CopyFails, PassArgs, LoadPads, OpenProcFile, CopyEnds, Goto, dirs, ghosts, Dir
    <2>2. \/ pc'[x] \notin {"drop"} \cup Migrating /\ pc[x] \notin Migrating
          \/ pc'[x] \in {"copy_bad", "undo"} /\ pc[x] \in Migrating
      BY <1>1 DEF Launch, LookForDir, CopyFails, PassArgs, LoadPads, OpenProcFile, CopyEnds, Goto, At, Migrating
    <2>3. \A y \in XNotes \ {x} : pc'[y] = pc[y]
      BY <2>1
    <2> QED BY <2>1, <2>2, <2>3, CurrentStays
  <1>2. ASSUME NEW x \in XNotes, NothingToLoad(x) \/ Quit(x) \/ Kill(x) PROVE CurrentInv'
    <2>1. Ends(x) /\ pc[x] \notin Migrating /\ UNCHANGED <<xpad, tmp, chosen, rpc, current>>
          /\ (met => met') /\ (torn => torn')
      BY <1>2 DEF NothingToLoad, Quit, Kill, At, ghosts, Migrating
    <2>2. /\ live'.exists = live.exists /\ live'.notes = live.notes
          /\ aside'.exists = aside.exists /\ aside'.notes = aside.notes
      BY <2>1 DEF Ends, Deaf, Dir
    <2>3. \A y \in XNotes : IF y = x THEN pc'[y] = "off" ELSE pc'[y] = pc[y] /\ todo'[y] = todo[y]
      BY <2>1 DEF Ends
    <2> QED BY <2>1, <2>2, <2>3, CurrentStays DEF Migrating
  <1>3. CASE XpadQuits \/ RemoveStaleSocket \/ Backup \/ UNCHANGED vars
    <2>1. /\ live'.exists = live.exists /\ live'.notes = live.notes /\ xpad'.notes = xpad.notes
          /\ UNCHANGED <<aside, tmp, chosen, rpc, current, pc, todo, met, torn>>
      BY <1>3 DEF XpadQuits, RemoveStaleSocket, Backup, vars, dirs, xnotes, ghosts, Dir
    <2> QED BY <2>1, CurrentStays
  <1>4. ASSUME NEW x \in XNotes, MakeDir(x) PROVE CurrentInv'
    <2>1. /\ pc[x] = "mkdir" /\ pc' = [pc EXCEPT ![x] = "connect"] /\ ~met /\ ~torn
          /\ live' = (IF live.exists THEN live ELSE EmptyDir) /\ UNCHANGED <<xpad, rpc, current>>
      BY <1>4 DEF MakeDir, At, Goto, ghosts
    <2>2. rpc = "idle" /\ live = NoDir /\ xpad = NoDir /\ (\A y \in XNotes \ {x} : pc[y] \notin Starting)
      BY <2>1, Alone DEF Starting
    <2>3. live'.exists /\ live'.notes = current
      BY <2>1, <2>2, NoDirs DEF CurrentInv, Place
    <2>4. \A y \in XNotes : pc'[y] \notin {"drop"} \cup Migrating
      BY <2>1, <2>2 DEF Starting, Migrating
    <2> QED BY <2>1, <2>2, <2>3, <2>4 DEF CurrentInv, Place, Migrates, Migrating
  <1>5. ASSUME NEW x \in XNotes, RenameXpad(x) PROVE CurrentInv'
    <2>1. /\ pc[x] = "rename" /\ pc' = [pc EXCEPT ![x] = "connect"] /\ ~met /\ ~torn
          /\ live' = xpad /\ xpad.exists /\ UNCHANGED <<rpc, current>>
      BY <1>5 DEF RenameXpad, At, Goto
    <2>2. rpc = "idle" /\ live = NoDir /\ (\A y \in XNotes \ {x} : pc[y] \notin Starting)
      BY <2>1, Alone DEF Starting
    <2>3. live'.exists /\ live'.notes = current
      BY <2>1, <2>2, NoDirs DEF CurrentInv, Place
    <2>4. \A y \in XNotes : pc'[y] \notin {"drop"} \cup Migrating
      BY <2>1, <2>2 DEF Starting, Migrating
    <2> QED BY <2>1, <2>2, <2>3, <2>4 DEF CurrentInv, Place, Migrates, Migrating
  <1>6. ASSUME NEW x \in XNotes, RenameFails(x) PROVE CurrentInv'
    <2>1. /\ pc[x] = "rename" /\ pc' = [pc EXCEPT ![x] = pc'[x]] /\ pc'[x] \in {"copy", "copy_bad"} /\ ~met /\ ~torn
          /\ todo' = [todo EXCEPT ![x] = {n \in Notes : xpad.notes[n] # Absent}]
          /\ live' = (IF live.exists THEN live ELSE EmptyDir) /\ UNCHANGED <<xpad, rpc, current>>
      BY <1>6 DEF RenameFails, At
    <2>2. rpc = "idle" /\ live = NoDir /\ (\A y \in XNotes \ {x} : pc[y] \notin Starting)
      BY <2>1, Alone DEF Starting
    <2>3. xpad.notes = current /\ live'.notes = NoNotes
      BY <2>1, <2>2, NoDirs DEF CurrentInv, Place
    <2>4. \A y \in XNotes \ {x} : pc'[y] \notin Starting
      BY <2>1, <2>2
    <2>5. Migrates'
      BY <2>1 DEF Migrates, Migrating
    <2>6. \A n \in Notes \ todo'[x] : live'.notes[n] = xpad'.notes[n]
      BY <2>1, <2>3 DEF NoNotes
    <2> QED BY <2>1, <2>2, <2>3, <2>4, <2>5, <2>6 DEF CurrentInv, Place, Starting, Migrating
  <1>7. ASSUME NEW x \in XNotes, NEW n \in Notes, CopyNote(x, n) PROVE CurrentInv'
    <2>1. /\ pc[x] \in Migrating /\ n \in todo[x] /\ todo' = [todo EXCEPT ![x] = todo[x] \ {n}]
          /\ pc' = [pc EXCEPT ![x] = pc'[x]] /\ pc'[x] \in {"copy", "copy_bad"} /\ ~met /\ ~torn
          /\ pc'[x] = "copy" => pc[x] = "copy" /\ live'.notes = [live.notes EXCEPT ![n] = xpad.notes[n]]
          /\ UNCHANGED <<xpad, rpc, current>>
      BY <1>7 DEF CopyNote, Migrating, Dir, Contents
    <2>2. rpc = "idle" /\ (\A y \in XNotes \ {x} : pc[y] \notin Starting)
      BY <2>1, Alone DEF Starting
    <2>3. Migrates /\ Migrates'
      BY <2>1 DEF Migrates, Migrating
    <2>4. \A y \in XNotes \ {x} : pc'[y] \notin Starting
      BY <2>1, <2>2
    <2>5. pc'[x] = "copy" => \A m \in Notes \ todo'[x] : live'.notes[m] = xpad'.notes[m]
      BY <2>1 DEF CurrentInv, Dir, Contents
    <2> QED BY <2>1, <2>2, <2>3, <2>4, <2>5 DEF CurrentInv, Place, Starting, Migrating
  <1>8. ASSUME NEW x \in XNotes, CopyEnds(x), pc[x] # "copy_bad" PROVE CurrentInv'
    <2>1. /\ pc[x] = "copy" /\ todo[x] = {} /\ pc' = [pc EXCEPT ![x] = "drop"] /\ ~met /\ ~torn
          /\ UNCHANGED <<dirs, rpc, current>>
      BY <1>8 DEF CopyEnds, At, Goto, ghosts
    <2>2. rpc = "idle" /\ live.exists /\ (\A y \in XNotes \ {x} : pc[y] \notin Starting)
      BY <2>1, Alone DEF Starting, Migrating
    <2>3. xpad.notes = current /\ \A n \in Notes : live.notes[n] = xpad.notes[n]
      BY <2>1, <2>2 DEF CurrentInv, Place, Migrates, Migrating
    <2>4. live.notes = current
      BY <2>3 DEF Dir, Contents
    <2>5. \A y \in XNotes : pc'[y] \notin Migrating
      BY <2>1, <2>2 DEF Starting, Migrating
    <2> QED BY <2>1, <2>2, <2>4, <2>5 DEF CurrentInv, Place, Migrates, Migrating, dirs
  <1>9. ASSUME NEW x \in XNotes, UndoCopy(x) PROVE CurrentInv'
    <2>1. /\ pc[x] = "undo" /\ pc' = [pc EXCEPT ![x] = "off"] /\ live' = NoDir /\ ~met /\ ~torn
          /\ UNCHANGED <<xpad, rpc, current>>
      BY <1>9 DEF UndoCopy, At, Goto, ghosts
    <2>2. rpc = "idle" /\ (\A y \in XNotes \ {x} : pc[y] \notin Starting)
      BY <2>1, Alone DEF Starting, Migrating
    <2>3. xpad.notes = current
      BY <2>1, <2>2 DEF CurrentInv, Place, Migrates, Migrating
    <2>4. \A y \in XNotes : pc'[y] \notin {"drop"} \cup Migrating
      BY <2>1, <2>2 DEF Starting, Migrating
    <2> QED BY <2>1, <2>2, <2>3, <2>4, NoDirs DEF CurrentInv, Place, Migrates, Migrating
  <1>10. ASSUME NEW x \in XNotes, DropXpad(x) PROVE CurrentInv'
    <2>1. /\ pc[x] = "drop" /\ pc' = [pc EXCEPT ![x] = "connect"] /\ ~met /\ ~torn
          /\ UNCHANGED <<live, rpc, current>>
      BY <1>10 DEF DropXpad, At, Goto, ghosts
    <2>2. rpc = "idle" /\ live.exists /\ (\A y \in XNotes \ {x} : pc[y] \notin Starting)
      BY <2>1, Alone DEF Starting
    <2>3. live.notes = current
      BY <2>1 DEF CurrentInv
    <2>4. \A y \in XNotes : pc'[y] \notin {"drop"} \cup Migrating
      BY <2>1, <2>2 DEF Starting, Migrating
    <2> QED BY <2>1, <2>2, <2>3, <2>4 DEF CurrentInv, Place, Migrates, Migrating
  <1>11. ASSUME NEW x \in XNotes, NEW n \in Notes, Save(x, n) PROVE CurrentInv'
    <2>1. PICK v \in OfXpad + 1..MaxVersion :
            live' = [live EXCEPT !.notes[n] = v] /\ current' = [current EXCEPT ![n] = v]
      BY <1>11 DEF Save
    <2>2. pc[x] = "run" /\ live.exists /\ UNCHANGED <<pc, rpc, met, torn>>
      BY <1>11 DEF Save, At, xnotes
    <2>3. rpc = "idle" /\ \A y \in XNotes : pc[y] \notin {"drop"} \cup Migrating
      BY <2>2 DEF ReachInv, Reached, Alive, Begun, Serving, Starting, Migrating
    <2>4. live.notes = current
      BY <2>2, <2>3 DEF CurrentInv, Place, Migrates
    <2>5. live'.exists /\ live'.notes = current'
      BY <2>1, <2>2, <2>4 DEF Dir
    <2> QED BY <2>2, <2>3, <2>5 DEF CurrentInv, Place, Migrates, Migrating
  <1>12. CASE RestoreSnapshot
    <2>1. rpc' = "copy" /\ rpc = "idle" /\ UNCHANGED <<dirs, pc, todo, current, torn>> /\ ~met
      BY <1>12 DEF RestoreSnapshot, xnotes
    <2>2. Migrates' = Migrates
      BY <2>1 DEF Migrates
    <2> QED BY <2>1, <2>2 DEF CurrentInv, Place, dirs
  <1>13. CASE Restore /\ ~RestoreSnapshot
    <2>1. rpc # "idle" /\ UNCHANGED <<pc, met>> /\ ~torn
      BY <1>13 DEF Restore, SafetyCopy, Extract, ExtractFails, DropOld, MoveAside, MoveAsideFails, Install,
         InstallFails, RollBack, Finish, RestoreKilled, xnotes, ghosts
    <2>2. \A x \in XNotes : pc'[x] = "off" /\ pc[x] = "off"
      BY <2>1 DEF ReachInv, Alive
    <2>3. ~Migrates /\ ~Migrates'
      BY <2>2 DEF Migrates, Migrating
    <2>4. /\ Place
          /\ rpc \in {"drop_old", "aside", "install"} => tmp.exists /\ tmp.notes = chosen
          /\ rpc = "aside" => ~aside.exists
      BY <2>1 DEF CurrentInv
    <2>5. Place'
      BY <1>13, <2>3, <2>4, NoDirs
         DEF Place, Restore, SafetyCopy, Extract, ExtractFails, DropOld, MoveAside, MoveAsideFails, Install,
         InstallFails, RollBack, Finish, RestoreKilled, Exit, dirs, ghosts
    <2>6. rpc' \in {"drop_old", "aside", "install"} => tmp'.exists /\ tmp'.notes = chosen'
      BY <1>13, <2>4, NoDirs
         DEF Restore, SafetyCopy, Extract, ExtractFails, DropOld, MoveAside, MoveAsideFails, Install,
         InstallFails, RollBack, Finish, RestoreKilled, Exit, dirs, EmptyDir
    <2>7. rpc' = "aside" => ~aside'.exists
      BY <1>13, <2>4, NoDirs
         DEF Restore, SafetyCopy, Extract, ExtractFails, DropOld, MoveAside, MoveAsideFails, Install,
         InstallFails, RollBack, Finish, RestoreKilled, Exit, dirs
    <2> QED BY <2>2, <2>5, <2>6, <2>7, CurrentInRestore
  <1> QED
    BY <1>1, <1>2, <1>3, <1>4, <1>5, <1>6, <1>7, <1>8, <1>9, <1>10, <1>11, <1>12, <1>13 DEF Next, Start

(* An XNote that met nothing opens with the notes the last save or restore *)
(* left, however many migrations and restores failed before.               *)
THEOREM CurrentNotesAlwaysLoaded == Spec => []LoadsCurrentNotes
  <1>1. TypeInv /\ ReachInv /\ CurrentInv => LoadsCurrentNotes
    <2> SUFFICES ASSUME TypeInv, ReachInv, CurrentInv, ~met, ~torn, NEW x \in XNotes, pc[x] = "run"
                 PROVE  live.exists /\ live.notes = current
      BY DEF LoadsCurrentNotes, At
    <2>1. live.exists /\ rpc = "idle" /\ \A y \in XNotes : pc[y] \notin Migrating
      BY DEF TypeInv, TypeOK, ReachInv, Reached, Alive, Begun, Serving, Starting, Migrating
    <2> QED BY <2>1 DEF CurrentInv, Place, Migrates
  <1> QED
    BY <1>1, TypeInit, TypeNext, ReachInit, ReachNext, CurrentInit, CurrentNext, PTL DEF Spec

=============================================================================
