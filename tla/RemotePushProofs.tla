------------------------- MODULE RemotePushProofs -------------------------
(***************************************************************************)
(* Theorems about RemotePush, for any number of pushes, installations,     *)
(* readers and snapshot ids, colliding or not, and for both transports.    *)
(***************************************************************************)
EXTENDS RemotePush, TLAPS

USE RemoteAssumption

(* What the proof carries along: a manifest is only ever copied into a     *)
(* directory whose payload is all that push's own.                         *)
PushInv ==
    /\ TypeOK
    /\ \A i \in Ids : remote[i]["manifest"] # None =>
         remote[i]["manifest"] \in Pushes /\ Holds(remote[i], remote[i]["manifest"])
    /\ \A p \in Pushes :
         /\ job[p] = "manifest" \/ pc[p] \in {"manifest", "readback", "ok"} => Holds(At(p), p)
         /\ pc[p] \in {"readback", "ok"} => At(p)["manifest"] # None

(* A transport step and a step that leaves the remote alone both keep every *)
(* file that is there.                                                     *)
NothingReplaced ==
    \A i \in Ids : \A f \in Files :
        remote[i][f] # None => remote'[i][f] = remote[i][f]

LEMMA BodyNotNone == \A p \in Pushes, f \in Files : Body(p, f) \in Contents /\ Body(p, f) # None
  BY DEF Contents

LEMMA HoldsKept ==
    ASSUME NothingReplaced, NEW i \in Ids, NEW p \in Pushes, Holds(remote[i], p)
    PROVE  Holds(remote'[i], p)
  BY BodyNotNone DEF Holds, NothingReplaced, Payload, Files

LEMMA CopyFileStep ==
    ASSUME TypeOK, NEW p \in Pushes, NEW f \in Files, CopyFile(p, f)
    PROVE  /\ NothingReplaced
           /\ \A i \in Ids : \A g \in Files :
                remote'[i][g] = IF i = IdOf[p] /\ g = f THEN Body(p, f) ELSE remote[i][g]
           /\ remote' \in [Ids -> Dir]
  <1>1. IdOf[p] \in Ids /\ Body(p, f) \in Contents
    BY BodyNotNone
  <1>2. \A i \in Ids : \A g \in Files :
          remote'[i][g] = IF i = IdOf[p] /\ g = f THEN Body(p, f) ELSE remote[i][g]
    BY <1>1 DEF CopyFile, TypeOK, Dir
  <1>3. NothingReplaced
    BY <1>2 DEF CopyFile, At, NothingReplaced
  <1>4. remote' \in [Ids -> Dir]
    BY <1>1 DEF CopyFile, TypeOK, Dir
  <1> QED
    BY <1>2, <1>3, <1>4

LEMMA PushInvInit == Init => PushInv
  BY DEF Init, PushInv, TypeOK, Dir, Empty, Files, Payload, Running, Ended

LEMMA TypeOKNext == TypeOK /\ [Next]_vars => TypeOK'
  <1> SUFFICES ASSUME TypeOK, [Next]_vars PROVE TypeOK'
    OBVIOUS
  <1> USE DEF TypeOK, pushVars, readVars
  <1>1. ASSUME NEW p \in Pushes, Helper(p) PROVE TypeOK'
    BY <1>1 DEF Helper, StartPush, PayloadCopied, Verify, ManifestCopied, Readback, CommandFails,
       Move, Running, Ended
  <1>2. ASSUME NEW p \in Pushes, HelperKilled(p) \/ OrphanEnds(p) PROVE TypeOK'
    BY <1>2 DEF HelperKilled, OrphanEnds, Running, Ended
  <1>3. ASSUME NEW p \in Pushes, NEW f \in Files, CopyFile(p, f) PROVE TypeOK'
    BY <1>3, CopyFileStep DEF CopyFile
  <1>4. ASSUME NEW r \in Readers, ListKits(r) PROVE TypeOK'
    BY <1>4 DEF ListKits, Pushed, Latest, Listed
  <1>5. ASSUME NEW r \in Readers, NameKit(r) \/ ValidateFetched(r) PROVE TypeOK'
    BY <1>5 DEF NameKit, ValidateFetched
  <1>6. ASSUME NEW r \in Readers, NEW f \in Files, FetchFile(r, f) PROVE TypeOK'
    <2>1. CASE UNCHANGED got
      BY <1>6, <2>1 DEF FetchFile
    <2>2. CASE /\ remote[target[r]][f] # None
               /\ got' = [got EXCEPT ![r][f] = remote[target[r]][f]]
      <3>1. remote[target[r]][f] \in Contents \cup {None}
        BY <1>6 DEF FetchFile, Dir
      <3> QED
        BY <1>6, <2>2, <3>1 DEF FetchFile, Dir
    <2> QED
      BY <1>6, <2>1, <2>2 DEF FetchFile
  <1>7. CASE UNCHANGED vars
    BY <1>7 DEF vars
  <1> QED
    BY <1>1, <1>2, <1>3, <1>4, <1>5, <1>6, <1>7 DEF Next

LEMMA PushInvNext == PushInv /\ [Next]_vars => PushInv'
  <1> SUFFICES ASSUME PushInv, [Next]_vars PROVE PushInv'
    OBVIOUS
  <1>0. TypeOK /\ TypeOK'
    BY TypeOKNext DEF PushInv
  <1>1. ASSUME NEW p \in Pushes, NEW f \in Files, CopyFile(p, f) PROVE PushInv'
    <2>1. NothingReplaced /\ UNCHANGED <<pc, job>>
      BY <1>0, <1>1, CopyFileStep DEF CopyFile, pushVars
    <2>2. ASSUME NEW i \in Ids, remote'[i]["manifest"] # None
          PROVE  remote'[i]["manifest"] \in Pushes /\ Holds(remote'[i], remote'[i]["manifest"])
      <3>1. CASE remote[i]["manifest"] # None
        <4>1. remote'[i]["manifest"] = remote[i]["manifest"]
          BY <2>1, <3>1 DEF NothingReplaced, Files
        <4> QED
          BY <2>1, <3>1, <4>1, HoldsKept DEF PushInv
      <3>2. CASE remote[i]["manifest"] = None
        <4>1. i = IdOf[p] /\ f = "manifest" /\ remote'[i]["manifest"] = Body(p, "manifest")
          BY <1>0, <1>1, <2>2, <3>2, CopyFileStep DEF Files
        <4>2. Body(p, "manifest") = p
          BY DEF Body
        <4>3. Holds(remote[i], p)
          BY <1>1, <4>1 DEF CopyFile, PushInv, At
        <4> QED
          BY <2>1, <4>1, <4>2, <4>3, HoldsKept
      <3> QED
        BY <3>1, <3>2
    <2>3. ASSUME NEW q \in Pushes
          PROVE  /\ job'[q] = "manifest" \/ pc'[q] \in {"manifest", "readback", "ok"} => Holds(At(q)', q)
                 /\ pc'[q] \in {"readback", "ok"} => At(q)'["manifest"] # None
      <3>1. Holds(remote[IdOf[q]], q) => Holds(remote'[IdOf[q]], q)
        BY <2>1, HoldsKept
      <3>2. remote[IdOf[q]]["manifest"] # None => remote'[IdOf[q]]["manifest"] # None
        BY <2>1 DEF NothingReplaced, Files
      <3> QED
        BY <2>1, <3>1, <3>2 DEF PushInv, At
    <2> QED
      BY <1>0, <2>2, <2>3 DEF PushInv
  <1>2. ASSUME NEW p \in Pushes, Helper(p) \/ HelperKilled(p) \/ OrphanEnds(p) PROVE PushInv'
    <2>1. remote' = remote
      BY <1>2 DEF Helper, StartPush, PayloadCopied, Verify, ManifestCopied, Readback, CommandFails,
         HelperKilled, OrphanEnds
    <2>2. ASSUME NEW q \in Pushes
          PROVE  /\ job'[q] = "manifest" \/ pc'[q] \in {"manifest", "readback", "ok"} => Holds(At(q), q)
                 /\ pc'[q] \in {"readback", "ok"} => At(q)["manifest"] # None
      <3>1. CASE q # p
        <4>1. pc'[q] = pc[q] /\ job'[q] = job[q]
          BY <1>0, <1>2, <3>1 DEF Helper, StartPush, PayloadCopied, Verify, ManifestCopied,
             Readback, CommandFails, HelperKilled, OrphanEnds, Move, TypeOK
        <4> QED
          BY <4>1 DEF PushInv
      <3>2. CASE q = p
        <4>1. job'[p] = "manifest" \/ pc'[p] \in {"manifest", "readback", "ok"} =>
                \/ job[p] = "manifest" \/ pc[p] \in {"manifest", "readback", "ok"}
                \/ Holds(At(p), p)
          BY <1>0, <1>2 DEF Helper, StartPush, PayloadCopied, Verify, ManifestCopied,
             Readback, CommandFails, HelperKilled, OrphanEnds, Move, TypeOK
        <4>2. pc'[p] \in {"readback", "ok"} =>
                pc[p] \in {"readback", "ok"} \/ At(p)["manifest"] # None
          BY <1>0, <1>2 DEF Helper, StartPush, PayloadCopied, Verify, ManifestCopied,
             Readback, CommandFails, HelperKilled, OrphanEnds, Move, TypeOK, Running
        <4> QED
          BY <3>2, <4>1, <4>2 DEF PushInv
      <3> QED
        BY <3>1, <3>2
    <2> QED
      BY <1>0, <2>1, <2>2 DEF PushInv, At
  <1>3. CASE UNCHANGED <<remote, pushVars>>
    BY <1>0, <1>3 DEF PushInv, At, pushVars
  <1>4. ASSUME NEW r \in Readers,
               ListKits(r) \/ NameKit(r) \/ ValidateFetched(r) \/ \E f \in Files : FetchFile(r, f)
        PROVE  PushInv'
    BY <1>3, <1>4 DEF ListKits, NameKit, ValidateFetched, FetchFile
  <1> QED
    BY <1>1, <1>2, <1>3, <1>4 DEF Next, vars

(* The helper's states, the remote's files and what a reader has fetched   *)
(* keep their types: push_remote and the import never mix the phases.      *)
THEOREM TypeCorrect == Spec => []TypeOK
  <1>1. PushInv => TypeOK
    BY DEF PushInv
  <1> QED
    BY <1>1, PushInvInit, PushInvNext, PTL DEF Spec

(* A manifest on the remote always names complete payload of its own push. *)
THEOREM ManifestIsCompletionMarker == Spec => []ManifestMeansComplete
  <1>1. PushInv => ManifestMeansComplete
    BY DEF PushInv, ManifestMeansComplete, Valid
  <1> QED
    BY <1>1, PushInvInit, PushInvNext, PTL DEF Spec

(* A push reported as successful did publish its own kit: two pushes whose *)
(* payloads agree on the snapshot are the same push.                       *)
THEOREM SuccessIsPublication == Spec => []SuccessMeansPublished
  <1>1. ASSUME PushInv, NEW p \in Pushes, pc[p] = "ok"
        PROVE  At(p)["manifest"] = p /\ Holds(At(p), p)
    <2>1. Holds(At(p), p) /\ Holds(At(p), At(p)["manifest"]) /\ At(p)["manifest"] \in Pushes
      BY <1>1 DEF PushInv, At
    <2>2. Body(p, "snapshot") = Body(At(p)["manifest"], "snapshot")
      BY <2>1 DEF Holds, Payload
    <2> QED
      BY <2>1, <2>2 DEF Body
  <1>2. PushInv => SuccessMeansPublished
    BY <1>1 DEF SuccessMeansPublished
  <1> QED
    BY <1>2, PushInvInit, PushInvNext, PTL DEF Spec

LEMMA ListedKept ==
    ASSUME PushInv, NothingReplaced, remote' \in [Ids -> Dir], NEW i \in Listed
    PROVE  remote'[i] = remote[i]
  <1>1. i \in Ids /\ \A f \in Files : remote[i][f] # None
    BY BodyNotNone DEF Listed, PushInv, Holds, Payload, Files
  <1>2. \A f \in Files : remote'[i][f] = remote[i][f]
    BY <1>1 DEF NothingReplaced
  <1>3. remote[i] \in Dir /\ remote'[i] \in Dir
    BY <1>1 DEF PushInv, TypeOK
  <1> QED
    BY <1>2, <1>3 DEF Dir

LEMMA PublishedStep == PushInv /\ [Next]_vars => [RemoteStore!Next]_Published
  <1> SUFFICES ASSUME PushInv, [Next]_vars, Published' # Published PROVE RemoteStore!Next
    OBVIOUS
  <1>1. remote' # remote
    BY DEF Published, Listed
  <1>2. PICK p \in Pushes, f \in Files : CopyFile(p, f)
    BY <1>1 DEF Next, Helper, StartPush, PayloadCopied, Verify, ManifestCopied, Readback,
       CommandFails, HelperKilled, OrphanEnds, ListKits, NameKit, ValidateFetched, FetchFile, vars
  <1> DEFINE i == IdOf[p]
             k == [id |-> i, files |-> remote'[i]]
  <1>3. /\ NothingReplaced
        /\ \A j \in Ids : \A g \in Files :
             remote'[j][g] = IF j = i /\ g = f THEN Body(p, f) ELSE remote[j][g]
        /\ remote' \in [Ids -> Dir]
    BY <1>2, CopyFileStep DEF PushInv
  <1>4. \A j \in Listed : remote'[j] = remote[j] /\ j \in Listed'
    BY <1>3, ListedKept DEF Listed
  <1>5. \A j \in Listed' : j \in Listed \/ j = i
    BY <1>3 DEF Listed, Files
  <1>6. i \in Listed'
    <2>1. CASE Listed' = Listed
      BY <1>4, <2>1 DEF Published
    <2> QED
      BY <1>4, <1>5, <2>1
  <1>7. Published' = Published \cup {k}
    BY <1>4, <1>5, <1>6 DEF Published
  <1>8. k \in [id : Ids, files : Dir]
    BY <1>3
  <1>9. RemoteStore!Publish(k)
    BY <1>7, <1>8 DEF RemoteStore!Publish
  <1> QED
    BY <1>7, <1>9 DEF RemoteStore!Next

(* Refinement: a published kit is never withdrawn, replaced or changed.    *)
THEOREM KitsAreAppendOnly == Spec => KitsAppendOnly
  <1>1. Init => RemoteStore!Init
    BY DEF Init, RemoteStore!Init, Published, Listed, Empty, Files
  <1> QED
    BY <1>1, PushInvInit, PushInvNext, PublishedStep, PTL DEF Spec, KitsAppendOnly,
       RemoteStore!Spec

(* What a reader has fetched is what its directory holds, which was chosen *)
(* no older than anything pushed when it looked.                           *)
ReadInv ==
    \A r \in Readers :
        /\ rpc[r] = "idle" => got[r] = Empty /\ atStart[r] = {}
        /\ rpc[r] \in {"fetch", "done"} =>
             /\ target[r] \in Ids
             /\ \A f \in Files : got[r][f] \in {None, remote[target[r]][f]}
             /\ \A i \in atStart[r] : Gen[i] <= Gen[target[r]]

LEMMA ReadInvInit == Init => ReadInv
  BY DEF Init, ReadInv

LEMMA PushedListed == PushInv => Pushed \subseteq Listed
  BY DEF PushInv, Pushed, Listed, At

LEMMA RemoteStep ==
    ASSUME PushInv, [Next]_vars
    PROVE  NothingReplaced
  <1>1. CASE remote' = remote
    BY <1>1 DEF NothingReplaced
  <1>2. CASE remote' # remote
    <2>1. PICK p \in Pushes, f \in Files : CopyFile(p, f)
      BY <1>2 DEF Next, Helper, StartPush, PayloadCopied, Verify, ManifestCopied, Readback,
         CommandFails, HelperKilled, OrphanEnds, ListKits, NameKit, ValidateFetched, FetchFile, vars
    <2> QED
      BY <2>1, CopyFileStep DEF PushInv
  <1> QED
    BY <1>1, <1>2

(* A reader that does nothing keeps its part: no file it has is replaced.  *)
LEMMA ReadInvKept ==
    ASSUME PushInv, ReadInv, NothingReplaced, UNCHANGED readVars
    PROVE  ReadInv'
  <1> SUFFICES ASSUME NEW r \in Readers
               PROVE  /\ rpc[r] = "idle" => got[r] = Empty /\ atStart[r] = {}
                      /\ rpc[r] \in {"fetch", "done"} =>
                           /\ target[r] \in Ids
                           /\ \A f \in Files : got[r][f] \in {None, remote'[target[r]][f]}
                           /\ \A i \in atStart[r] : Gen[i] <= Gen[target[r]]
    BY DEF ReadInv, readVars
  <1>1. ASSUME rpc[r] \in {"fetch", "done"}, NEW f \in Files
        PROVE  got[r][f] \in {None, remote'[target[r]][f]}
    BY <1>1 DEF ReadInv, NothingReplaced
  <1> QED
    BY <1>1 DEF ReadInv

LEMMA ReadInvNext == PushInv /\ ReadInv /\ [Next]_vars => ReadInv'
  <1> SUFFICES ASSUME PushInv, ReadInv, [Next]_vars PROVE ReadInv'
    OBVIOUS
  <1>0. TypeOK /\ TypeOK' /\ NothingReplaced
    BY TypeOKNext, RemoteStep DEF PushInv
  <1>1. CASE UNCHANGED readVars
    BY <1>0, <1>1, ReadInvKept
  <1>2. ASSUME NEW r \in Readers,
               ListKits(r) \/ NameKit(r) \/ ValidateFetched(r) \/ \E f \in Files : FetchFile(r, f)
        PROVE  ReadInv'
    <2>1. remote' = remote
      BY <1>2 DEF ListKits, NameKit, ValidateFetched, FetchFile
    <2>2. ASSUME NEW q \in Readers, q # r
          PROVE  /\ rpc'[q] = rpc[q] /\ target'[q] = target[q]
                 /\ got'[q] = got[q] /\ atStart'[q] = atStart[q]
      BY <1>0, <1>2, <2>2 DEF ListKits, NameKit, ValidateFetched, FetchFile, TypeOK
    <2>3. /\ rpc'[r] # "idle"
          /\ rpc'[r] \in {"fetch", "done"} =>
               /\ target'[r] \in Ids
               /\ \A f \in Files : got'[r][f] \in {None, remote[target'[r]][f]}
               /\ \A i \in atStart'[r] : Gen[i] <= Gen[target'[r]]
      <3>1. CASE ListKits(r)
        <4>1. got'[r] = Empty /\ atStart'[r] = Pushed /\ rpc'[r] \in {"fetch", "failed"}
          BY <1>0, <3>1 DEF ListKits, ReadInv, TypeOK
        <4>2. rpc'[r] = "fetch" => target'[r] \in Latest(Listed)
          BY <1>0, <3>1 DEF ListKits, TypeOK
        <4>3. rpc'[r] = "fetch" =>
                target'[r] \in Ids /\ \A i \in Listed : Gen[i] <= Gen[target'[r]]
          BY <4>2 DEF Latest, Listed
        <4> QED
          BY <4>1, <4>3, PushedListed DEF Empty
      <3>2. CASE NameKit(r)
        BY <1>0, <3>2 DEF NameKit, ReadInv, TypeOK, Empty
      <3>3. CASE ValidateFetched(r)
        BY <1>0, <3>3 DEF ValidateFetched, ReadInv, TypeOK
      <3>4. ASSUME NEW f \in Files, FetchFile(r, f)
            PROVE  /\ rpc'[r] # "idle"
                   /\ rpc'[r] \in {"fetch", "done"} =>
                        /\ target'[r] \in Ids
                        /\ \A g \in Files : got'[r][g] \in {None, remote[target'[r]][g]}
                        /\ \A i \in atStart'[r] : Gen[i] <= Gen[target'[r]]
        <4>1. rpc[r] = "fetch" /\ target' = target /\ atStart' = atStart
          BY <3>4 DEF FetchFile
        <4>2. CASE rpc' = [rpc EXCEPT ![r] = "failed"]
          BY <1>0, <4>2 DEF TypeOK
        <4>3. CASE /\ got' = [got EXCEPT ![r][f] = remote[target[r]][f]]
                   /\ rpc' = rpc
          <5>1. got[r] \in Dir
            BY <1>0 DEF TypeOK
          <5>2. \A g \in Files : got'[r][g] = IF g = f THEN remote[target[r]][f] ELSE got[r][g]
            BY <1>0, <4>3, <5>1 DEF TypeOK, Dir
          <5> QED
            BY <4>1, <4>3, <5>2 DEF ReadInv
        <4> QED
          BY <3>4, <4>2, <4>3 DEF FetchFile
      <3> QED
        BY <1>2, <3>1, <3>2, <3>3, <3>4
    <2> QED
      BY <2>1, <2>2, <2>3 DEF ReadInv
  <1> QED
    BY <1>1, <1>2 DEF Next, Helper, StartPush, PayloadCopied, Verify, ManifestCopied, Readback,
       CommandFails, HelperKilled, OrphanEnds, CopyFile, vars

(* A reader that has the manifest of a kit gets files of that one kit,     *)
(* although each is fetched by a command of its own and pushes go on.      *)
THEOREM ImportAlwaysSeesOneKit == Spec => []ImportSeesOneKit
  <1>1. ASSUME PushInv, ReadInv, NEW r \in Readers, rpc[r] \in {"fetch", "done"},
               got[r]["manifest"] # None, NEW f \in Files
        PROVE  /\ remote[target[r]][f] = Body(got[r]["manifest"], f)
               /\ got[r][f] \in {None, remote[target[r]][f]}
    <2>1. target[r] \in Ids /\ got[r][f] \in {None, remote[target[r]][f]}
      BY <1>1 DEF ReadInv
    <2>2. got[r]["manifest"] = remote[target[r]]["manifest"]
      BY <1>1 DEF ReadInv, Files
    <2>3. Holds(remote[target[r]], got[r]["manifest"])
      BY <1>1, <2>1, <2>2 DEF PushInv
    <2>4. remote[target[r]][f] = Body(got[r]["manifest"], f)
      BY <2>2, <2>3 DEF Holds, Files, Body
    <2> QED
      BY <2>1, <2>4
  <1>2. PushInv /\ ReadInv => ImportSeesOneKit
    BY <1>1 DEF ImportSeesOneKit
  <1> QED
    BY <1>2, PushInvInit, PushInvNext, ReadInvInit, ReadInvNext, PTL DEF Spec

(* An import of `latest` is never older than what had been pushed          *)
(* successfully when it looked.                                            *)
THEOREM LatestIsNeverStale == Spec => []LatestNotStale
  <1>1. ReadInv => LatestNotStale
    BY DEF ReadInv, LatestNotStale
  <1> QED
    BY <1>1, PushInvInit, PushInvNext, ReadInvInit, ReadInvNext, PTL DEF Spec
=============================================================================
