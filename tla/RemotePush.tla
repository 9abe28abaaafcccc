---------------------------- MODULE RemotePush ----------------------------
(***************************************************************************)
(* How recovery kits get onto the remote and off it again (remote.go).     *)
(* A push runs a transport command for the payload, verifies the remote    *)
(* payload, runs a second one for manifest.json and verifies again.  The   *)
(* command is a process of its own: it copies file by file, may be killed  *)
(* by its timeout, and goes on copying when the helper that started it was *)
(* killed.  Several installations may use one device name, and their       *)
(* snapshot ids (second and generation) may coincide.                      *)
(*                                                                         *)
(* A file's content is represented by the push it comes from, a keyfile's  *)
(* by the installation whose keyfile it is.                                *)
(***************************************************************************)
EXTENDS Naturals, FiniteSets

CONSTANTS
    Pushes,     \* pushes that may be attempted
    Readers,    \* remote-list and import processes
    Ids,        \* snapshot ids
    IdOf,       \* the id of the kit each push uploads
    Gen,        \* the generation in an id
    Owner,      \* the installation each push belongs to
    KeyOf,      \* the keyfile each installation has
    IsPath,     \* does a push use an explicit path (rsync) or an rclone remote?
    None        \* an absent file

Payload == {"snapshot", "keyfile", "head"}
Files == Payload \cup {"manifest"}

Body(p, f) == IF f = "keyfile" THEN KeyOf[Owner[p]] ELSE p

Contents == {Body(p, f) : p \in Pushes, f \in Files}

ASSUME RemoteAssumption ==
    /\ IdOf \in [Pushes -> Ids]
    /\ Gen \in [Ids -> Nat]
    /\ IsPath \in [Pushes -> BOOLEAN]
    /\ None \notin Contents
    /\ \A p, q \in Pushes : p # q /\ IdOf[p] = IdOf[q] => Owner[p] # Owner[q]

VARIABLES
    remote,     \* the files under each id's directory
    pc,         \* what each push is doing
    job,        \* the transport command each push has running
    rpc,        \* what each reader is doing
    target,     \* the id each reader fetches
    got,        \* the files each reader has fetched
    atStart     \* history: the kits pushed successfully when the reader listed

pushVars == <<pc, job>>
readVars == <<rpc, target, got, atStart>>
vars == <<remote, pushVars, readVars>>

Running == {"payload", "verify", "manifest", "readback"}
Ended == {"ok", "failed", "killed"}

Dir == [Files -> Contents \cup {None}]
Empty == [f \in Files |-> None]

TypeOK ==
    /\ remote \in [Ids -> Dir]
    /\ pc \in [Pushes -> {"idle"} \cup Running \cup Ended]
    /\ job \in [Pushes -> {"none", "payload", "manifest"}]
    /\ rpc \in [Readers -> {"idle", "fetch", "done", "failed"}]
    /\ target \in [Readers -> Ids \cup {None}]
    /\ \A r \in Readers : rpc[r] = "fetch" => target[r] \in Ids
    /\ got \in [Readers -> Dir]
    /\ atStart \in [Readers -> SUBSET Ids]

Init ==
    /\ remote = [i \in Ids |-> Empty]
    /\ pc = [p \in Pushes |-> "idle"]
    /\ job = [p \in Pushes |-> "none"]
    /\ rpc = [r \in Readers |-> "idle"]
    /\ target = [r \in Readers |-> None]
    /\ got = [r \in Readers |-> Empty]
    /\ atStart = [r \in Readers |-> {}]

At(p) == remote[IdOf[p]]

Holds(d, p) == \A f \in Payload : d[f] = Body(p, f)

(* validateRecoveryKit: the manifest's hashes are those of the payload.    *)
Valid(d) == d["manifest"] # None /\ Holds(d, d["manifest"])

Move(p, from, to) ==
    /\ pc[p] = from
    /\ pc' = [pc EXCEPT ![p] = to]

-----------------------------------------------------------------------------
(* The push.  The backup's lock keeps one installation's pushes apart, and *)
(* they come in the order of their generations.                            *)

StartPush(p) ==
    /\ \A q \in Pushes : q # p /\ Owner[q] = Owner[p] =>
         pc[q] \in Ended \/ (pc[q] = "idle" /\ Gen[IdOf[p]] < Gen[IdOf[q]])
    /\ \/ Move(p, "idle", "payload") /\ job' = [job EXCEPT ![p] = "payload"]
       \/ Move(p, "idle", "failed") /\ UNCHANGED job
    /\ UNCHANGED <<remote, readVars>>

(* Variant: rsync without --ignore-existing.                               *)
CopyOverwriting(p, f) ==
    /\ job[p] = IF f = "manifest" THEN "manifest" ELSE "payload"
    /\ remote' = [remote EXCEPT ![IdOf[p]][f] = Body(p, f)]
    /\ UNCHANGED <<pushVars, readVars>>

(* Variant: the payload command without its exclusion of manifest.json.    *)
CopyManifestEarly(p, f) ==
    /\ job[p] = "payload"
    /\ At(p)[f] = None
    /\ remote' = [remote EXCEPT ![IdOf[p]][f] = Body(p, f)]
    /\ UNCHANGED <<pushVars, readVars>>

(* The transport's own step: a file that is there is never replaced.       *)
CopyFile(p, f) ==
    /\ job[p] = IF f = "manifest" THEN "manifest" ELSE "payload"
    /\ At(p)[f] = None
    /\ remote' = [remote EXCEPT ![IdOf[p]][f] = Body(p, f)]
    /\ UNCHANGED <<pushVars, readVars>>

(* rclone --immutable also reports a file that is there with other content. *)
PayloadCopied(p) ==
    /\ Move(p, "payload", "verify")
    /\ \A f \in Payload : At(p)[f] # None /\ (IsPath[p] \/ At(p)[f] = Body(p, f))
    /\ job' = [job EXCEPT ![p] = "none"]
    /\ UNCHANGED <<remote, readVars>>

(* Variants: the remote payload not verified before the manifest; a        *)
(* transport command without a timeout.                                    *)
VerifySkipped(p) ==
    /\ Move(p, "verify", "manifest")
    /\ job' = [job EXCEPT ![p] = "manifest"]
    /\ UNCHANGED <<remote, readVars>>

CommandWithoutTimeout(p) ==
    /\ Move(p, "payload", "failed")
    /\ \E f \in Payload : At(p)[f] \notin {None, Body(p, f)}
    /\ job' = [job EXCEPT ![p] = "none"]
    /\ UNCHANGED <<remote, readVars>>

(* The payload on the remote is hashed again (rclone: checked again) before *)
(* the manifest goes up; that check may itself fail.                       *)
Verify(p) ==
    /\ \/ /\ Holds(At(p), p)
          /\ Move(p, "verify", "manifest")
          /\ job' = [job EXCEPT ![p] = "manifest"]
       \/ Move(p, "verify", "failed") /\ UNCHANGED job
    /\ UNCHANGED <<remote, readVars>>

ManifestCopied(p) ==
    /\ Move(p, "manifest", "readback")
    /\ At(p)["manifest"] # None
    /\ IsPath[p] \/ At(p)["manifest"] = p
    /\ job' = [job EXCEPT ![p] = "none"]
    /\ UNCHANGED <<remote, readVars>>

Readback(p) ==
    /\ \/ /\ IF IsPath[p] THEN Valid(At(p)) ELSE At(p)["manifest"] = p
          /\ Move(p, "readback", "ok")
       \/ Move(p, "readback", "failed")
    /\ UNCHANGED <<remote, job, readVars>>

(* A transport command ends with an error or is killed at its timeout; the *)
(* helper waits for it to be gone and gives the push up, for good.         *)
CommandFails(p) ==
    /\ Move(p, "payload", "failed") \/ Move(p, "manifest", "failed")
    /\ job' = [job EXCEPT ![p] = "none"]
    /\ UNCHANGED <<remote, readVars>>

(* The helper is killed; the command it started is not.                    *)
HelperKilled(p) ==
    /\ pc[p] \in Running
    /\ pc' = [pc EXCEPT ![p] = "killed"]
    /\ UNCHANGED <<remote, job, readVars>>

OrphanEnds(p) ==
    /\ pc[p] = "killed"
    /\ job[p] # "none"
    /\ job' = [job EXCEPT ![p] = "none"]
    /\ UNCHANGED <<remote, pc, readVars>>

-----------------------------------------------------------------------------
(* The reader.                                                             *)

Listed == {i \in Ids : remote[i]["manifest"] # None}

Pushed == {i \in Ids : \E p \in Pushes : pc[p] = "ok" /\ IdOf[p] = i}

(* Variant: the id list sorted newest first.                               *)
Last(S) == {i \in S : \A j \in S : Gen[i] <= Gen[j]}


Latest(S) == {i \in S : \A j \in S : Gen[j] <= Gen[i]}

ListKits(r) ==
    /\ rpc[r] = "idle"
    /\ atStart' = [atStart EXCEPT ![r] = Pushed]
    /\ \/ \E i \in Latest(Listed) :
            /\ target' = [target EXCEPT ![r] = i]
            /\ rpc' = [rpc EXCEPT ![r] = "fetch"]
       \/ /\ Listed = {}
          /\ rpc' = [rpc EXCEPT ![r] = "failed"]
          /\ UNCHANGED target
    /\ UNCHANGED <<remote, pushVars, got>>

(* An id given by the user is fetched without looking at the list.         *)
NameKit(r) ==
    /\ rpc[r] = "idle"
    /\ \E i \in Ids : target' = [target EXCEPT ![r] = i]
    /\ rpc' = [rpc EXCEPT ![r] = "fetch"]
    /\ UNCHANGED <<remote, pushVars, got, atStart>>

(* fetchRecoveryKit: the manifest first, then the files it names, each by  *)
(* a command of its own; a missing file or a failing command ends it.      *)
FetchFile(r, f) ==
    /\ rpc[r] = "fetch"
    /\ got[r][f] = None
    /\ f # "manifest" => got[r]["manifest"] # None
    /\ LET d == remote[target[r]] IN
         \/ /\ d[f] # None
            /\ got' = [got EXCEPT ![r][f] = d[f]]
            /\ UNCHANGED rpc
         \/ rpc' = [rpc EXCEPT ![r] = "failed"] /\ UNCHANGED got
    /\ UNCHANGED <<remote, pushVars, target, atStart>>

ValidateFetched(r) ==
    /\ rpc[r] = "fetch"
    /\ \A f \in Files : got[r][f] # None
    /\ rpc' = [rpc EXCEPT ![r] = IF Valid(got[r]) THEN "done" ELSE "failed"]
    /\ UNCHANGED <<remote, pushVars, target, got, atStart>>

Helper(p) ==
    \/ StartPush(p) \/ PayloadCopied(p) \/ Verify(p)
    \/ ManifestCopied(p) \/ Readback(p) \/ CommandFails(p)

Next ==
    \/ \E p \in Pushes : Helper(p) \/ HelperKilled(p) \/ OrphanEnds(p)
    \/ \E p \in Pushes, f \in Files : CopyFile(p, f)
    \/ \E r \in Readers :
         \/ ListKits(r) \/ NameKit(r) \/ ValidateFetched(r)
         \/ \E f \in Files : FetchFile(r, f)

Spec == Init /\ [][Next]_vars

-----------------------------------------------------------------------------
(* Properties.                                                             *)

(* A manifest never names payload that is missing or another push's: a     *)
(* reader may take it as the completion marker (remote.go, header), also   *)
(* when two installations push under one id and while orphaned transport   *)
(* commands go on copying.                                                 *)
ManifestMeansComplete ==
    \A i \in Ids : remote[i]["manifest"] # None => Valid(remote[i])

(* Refinement: the complete kits form the append-only store of KitStore.   *)
Published == {[id |-> i, files |-> remote[i]] : i \in Listed}

RemoteStore == INSTANCE KitStore
                 WITH Kit <- [id : Ids, files : Dir], kits <- Published

KitsAppendOnly == RemoteStore!Spec

(* A push reported as successful left its own kit on the remote, not some  *)
(* other installation's under the same id, and it stays there.             *)
SuccessMeansPublished ==
    \A p \in Pushes : pc[p] = "ok" => At(p)["manifest"] = p /\ Holds(At(p), p)

(* Once a reader has the manifest, what it has fetched and what it still   *)
(* will fetch belong to that one kit, whatever is pushed meanwhile.        *)
ImportSeesOneKit ==
    \A r \in Readers :
        rpc[r] \in {"fetch", "done"} /\ got[r]["manifest"] # None =>
            \A f \in Files : /\ remote[target[r]][f] = Body(got[r]["manifest"], f)
                             /\ got[r][f] \in {None, remote[target[r]][f]}

(* An import of `latest` brings nothing older than the newest kit that had *)
(* been pushed successfully when it looked.                                *)
LatestNotStale ==
    \A r \in Readers : rpc[r] = "done" =>
        \A i \in atStart[r] : Gen[i] <= Gen[target[r]]

(* Every push that starts ends, although a transport command may hang: the *)
(* helper's own steps happen, the command's need not.                      *)
FairSpec ==
    /\ Spec
    /\ \A p \in Pushes : WF_vars(CommandFails(p)) /\ WF_vars(Verify(p)) /\ WF_vars(Readback(p))

PushEnds == \A p \in Pushes : pc[p] \in Running ~> pc[p] \in Ended
=============================================================================
