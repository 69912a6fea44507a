-------------------------------- MODULE Media --------------------------------
(***************************************************************************)
(* Stored media: the row of an asset is in media_assets, its bytes are on  *)
(* the private disk, and ten kinds of record may point at it.  Uploads,    *)
(* deletes, reference writers and the gallery's automatic release run as   *)
(* concurrent requests; the disk is not transactional.                     *)
(*                                                                         *)
(* Sources: MediaService, MediaReferenceLock, MediaReferences, and the     *)
(* save methods of the reference writers (Teacher, Student, Resource,      *)
(* Instrument, Gallery, Chat, Learning, Branding), which share one shape:  *)
(* lockAvailable() inside the transaction that saves the row.              *)
(*                                                                         *)
(* Left out: MIME and filename validation, wire shapes, tenancy (every     *)
(* query is scoped to one organization; the model is one organization).    *)
(***************************************************************************)
EXTENDS Database

CONSTANTS Assets,   \* ids of media assets
          Owners,   \* record columns that may hold a media id
          Faults    \* which failures may happen: subset of FaultKinds

VARIABLES row,      \* committed media_assets rows
          bytes,    \* assets whose bytes are on the disk
          ref,      \* committed media id of each owner column, or None
          req,      \* the state of each request
          logged    \* assets an operator was told about in the log

vars == <<dbVars, row, bytes, ref, req, logged>>

FaultKinds == {"sql", "disk", "crash"}
Ops == {"none", "upload", "delete", "attach", "detach", "release"}
Places == {"start", "insert", "put", "cleanup", "lock", "references", "remove",
           "forget", "available", "write", "save", "commit", "orphaned", "done"}
Results == {"none", "ok", "in_use", "refused", "failed", "crashed"}

ASSUME MediaAssumption ==
  /\ Rows = Assets \cup Owners
  /\ Assets \cap Owners = {}
  /\ Faults \subseteq FaultKinds

\* `dropped' is the media id the request's own commit removed from its owner.
Request == [op : Ops, pc : Places, asset : Assets \cup {None},
            owner : Owners \cup {None}, dropped : Assets \cup {None},
            result : Results]

TypeOK ==
  /\ DbTypeOK
  /\ row \subseteq Assets /\ bytes \subseteq Assets /\ logged \subseteq Assets
  /\ ref \in [Owners -> Assets \cup {None}]
  /\ req \in [Requests -> Request]

Referenced(a) == \E o \in Owners : ref[o] = a
At(p, op, pc) == req[p].op = op /\ req[p].pc = pc
Goto(p, pc) == req' = [req EXCEPT ![p].pc = pc]
Answer(p, result) ==
  req' = [req EXCEPT ![p].pc = "done", ![p].result = result]

\* Mutant: logs the owner's id where the asset's belongs.
LoggedIdsMutant(p) == {req[p].owner}

\* logOperationFailure names the asset.
LoggedIds(p) == {req[p].asset}

Start(p, op, pc, a, o) ==
  /\ req[p].pc = "start"
  /\ req' = [req EXCEPT ![p] = [op |-> op, pc |-> pc, asset |-> a, owner |-> o,
                                dropped |-> None, result |-> "none"]]
  /\ UNCHANGED <<dbVars, row, bytes, ref, logged>>

(***************************************************************************)
(* Earlier requests may have left orphaned bytes and rows without bytes    *)
(* behind, both already logged; references only ever point at whole assets *)
(***************************************************************************)
Init ==
  /\ DbInit
  /\ row \in SUBSET Assets
  /\ bytes \in SUBSET Assets
  /\ ref \in [Owners -> (row \cap bytes) \cup {None}]
  /\ logged = (row \ bytes) \cup (bytes \ row)
  /\ req = [p \in Requests |->
              [op |-> "none", pc |-> "start", asset |-> None, owner |-> None,
               dropped |-> None, result |-> "none"]]

-----------------------------------------------------------------------------
(* MediaService::create                                                    *)

\* A ULID is never handed out twice.
Fresh(a) == a \notin row \cup bytes /\ \A q \in Requests : req[q].asset # a

StartUpload(p) == \E a \in Assets : Fresh(a) /\ Start(p, "upload", "insert", a, None)

UploadInsert(p) ==
  /\ At(p, "upload", "insert")
  /\ WriteRow(p, req[p].asset)
  /\ Goto(p, "put")
  /\ UNCHANGED <<row, bytes, ref, logged>>

UploadPut(p) ==
  /\ At(p, "upload", "put")
  /\ bytes' = bytes \cup {req[p].asset}
  /\ Goto(p, "commit")
  /\ UNCHANGED <<dbVars, row, ref, logged>>

\* put() threw or returned false; part of the object may be on the disk.
UploadPutFails(p) ==
  /\ At(p, "upload", "put")
  /\ "disk" \in Faults
  /\ bytes' \in {bytes, bytes \cup {req[p].asset}}
  /\ EndTx(p)
  /\ Goto(p, "cleanup")
  /\ UNCHANGED <<row, ref, logged>>

UploadCommit(p) ==
  /\ At(p, "upload", "commit")
  /\ CommitTx(p)
  /\ row' = row \cup {req[p].asset}
  /\ Answer(p, "ok")
  /\ UNCHANGED <<bytes, ref, logged>>

\* removeBytesAfterRollback
UploadCleanup(p) ==
  /\ At(p, "upload", "cleanup")
  /\ \/ bytes' = bytes \ {req[p].asset} /\ UNCHANGED logged
     \/ /\ "disk" \in Faults
        /\ logged' = logged \cup LoggedIds(p)
        /\ UNCHANGED bytes
  /\ Answer(p, "failed")
  /\ UNCHANGED <<dbVars, row, ref>>

-----------------------------------------------------------------------------
(* MediaService::delete, from MediaController::destroy or releaseIfOrphaned *)

StartDelete(p) == \E a \in row : Start(p, "delete", "lock", a, None)

Deleting(p) == req[p].op \in {"delete", "release"}

DeleteLock(p) ==
  /\ Deleting(p) /\ req[p].pc = "lock"
  /\ LockingRead(p, req[p].asset)
  /\ req[p].asset \in row
  /\ Goto(p, "references")
  /\ UNCHANGED <<row, bytes, ref, logged>>

\* lockAsset found no row: another delete was first, and this one succeeds.
DeleteAlreadyGone(p) ==
  /\ Deleting(p) /\ req[p].pc = "lock"
  /\ HasRowLocks => rowLock[req[p].asset] \in {None, p}
  /\ req[p].asset \notin row
  /\ EndTx(p)
  /\ Answer(p, "ok")
  /\ UNCHANGED <<row, bytes, ref, logged>>

\* The transaction's first plain reads: its snapshot is taken here.
DeleteCheck(p) ==
  /\ Deleting(p) /\ req[p].pc = "references"
  /\ ~Referenced(req[p].asset)
  /\ PlainRead(p)
  /\ Goto(p, "remove")
  /\ UNCHANGED <<row, bytes, ref, logged>>

\* Mutant: the early exit leaves the transaction, and its row lock, open.
DeleteInUseMutant(p) ==
  /\ Deleting(p) /\ req[p].pc = "references"
  /\ Referenced(req[p].asset)
  /\ Answer(p, IF req[p].op = "release" THEN "ok" ELSE "in_use")
  /\ UNCHANGED <<dbVars, row, bytes, ref, logged>>

\* MEDIA_IN_USE, which releaseIfOrphaned swallows.
DeleteInUse(p) ==
  /\ Deleting(p) /\ req[p].pc = "references"
  /\ Referenced(req[p].asset)
  /\ EndTx(p)
  /\ Answer(p, IF req[p].op = "release" THEN "ok" ELSE "in_use")
  /\ UNCHANGED <<row, bytes, ref, logged>>

DeleteBytes(p) ==
  /\ Deleting(p) /\ req[p].pc = "remove"
  /\ bytes' = bytes \ {req[p].asset}
  /\ Goto(p, "forget")
  /\ UNCHANGED <<dbVars, row, ref, logged>>


DeleteBytesFails(p) ==
  /\ Deleting(p) /\ req[p].pc = "remove"
  /\ "disk" \in Faults
  /\ EndTx(p)
  /\ logged' = logged \cup LoggedIds(p)
  /\ Answer(p, "failed")
  /\ UNCHANGED <<row, bytes, ref>>

DeleteRow(p) ==
  /\ Deleting(p) /\ req[p].pc = "forget"
  /\ WriteRow(p, req[p].asset)
  /\ Goto(p, "commit")
  /\ UNCHANGED <<row, bytes, ref, logged>>

DeleteCommit(p) ==
  /\ Deleting(p) /\ req[p].pc = "commit"
  /\ CommitTx(p)
  /\ row' = row \ {req[p].asset}
  /\ Answer(p, "ok")
  /\ UNCHANGED <<bytes, ref, logged>>

-----------------------------------------------------------------------------
(* The reference writers: saving an owner record that carries a media id,  *)
(* clearing it, and the gallery removals that release what they unlinked.  *)

\* The client may send any id; the optional preflight decides nothing.
StartAttach(p) ==
  \E a \in Assets, o \in Owners : Start(p, "attach", "lock", a, o)

StartDetach(p) ==
  \E o \in Owners : ref[o] # None /\ Start(p, "detach", "write", None, o)

\* removeImage and deleteAlbum work on the media id of the record they loaded.
StartRelease(p) ==
  \E o \in Owners : ref[o] # None /\ Start(p, "release", "write", ref[o], o)

\* Mutant: isAvailable() in the place of lockAvailable().
AttachLockMutant(p) ==
  /\ At(p, "attach", "lock")
  /\ PlainRead(p)
  /\ req[p].asset \in row
  /\ Goto(p, "available")
  /\ UNCHANGED <<row, bytes, ref, logged>>

AttachLock(p) ==
  /\ At(p, "attach", "lock")
  /\ LockingRead(p, req[p].asset)
  /\ req[p].asset \in row
  /\ Goto(p, "available")
  /\ UNCHANGED <<row, bytes, ref, logged>>

AttachLockMissing(p) ==
  /\ At(p, "attach", "lock")
  /\ HasRowLocks => rowLock[req[p].asset] \in {None, p}
  /\ req[p].asset \notin row
  /\ EndTx(p)
  /\ Answer(p, "refused")
  /\ UNCHANGED <<row, bytes, ref, logged>>

\* bytesExist
AttachCheckBytes(p) ==
  /\ At(p, "attach", "available")
  /\ req[p].asset \in bytes
  /\ Goto(p, "write")
  /\ UNCHANGED <<dbVars, row, bytes, ref, logged>>

\* The bytes are gone, or exists() threw, which counts as gone.
AttachRefused(p) ==
  /\ At(p, "attach", "available")
  /\ req[p].asset \notin bytes \/ "disk" \in Faults
  /\ EndTx(p)
  /\ Answer(p, "refused")
  /\ UNCHANGED <<row, bytes, ref, logged>>

WritesOwner(p) == req[p].op \in {"attach", "detach", "release"}

OwnerWrite(p) ==
  /\ WritesOwner(p) /\ req[p].pc = "write"
  /\ WriteRow(p, req[p].owner)
  /\ Goto(p, "save")
  /\ UNCHANGED <<row, bytes, ref, logged>>

\* Mutant: the orphan check runs before the row that is being removed is gone.
AfterSaveMutant(p) ==
  IF req[p].op = "release" /\ ~Referenced(req[p].asset) THEN "orphaned" ELSE "done"

AfterSave(p) == IF req[p].op = "release" THEN "orphaned" ELSE "done"

OwnerCommit(p) ==
  LET o == req[p].owner
      new == IF req[p].op = "attach" THEN req[p].asset ELSE None
  IN /\ WritesOwner(p) /\ req[p].pc = "save"
     /\ CommitTx(p)
     /\ ref' = [ref EXCEPT ![o] = new]
     /\ req' = [req EXCEPT
          ![p].pc = AfterSave(p),
          ![p].result = IF AfterSave(p) = "done" THEN "ok" ELSE "none",
          ![p].dropped = IF ref[o] = new THEN None ELSE ref[o]]
     /\ UNCHANGED <<row, bytes, logged>>

\* releaseIfOrphaned: an unlocked check first, then MediaService::delete.
ReleaseIfOrphaned(p) ==
  /\ At(p, "release", "orphaned")
  /\ IF Referenced(req[p].asset) \/ req[p].asset \notin row
     THEN Answer(p, "ok")
     ELSE Goto(p, "lock")
  /\ UNCHANGED <<dbVars, row, bytes, ref, logged>>

-----------------------------------------------------------------------------
(* Failures                                                                *)

\* Mutant: the upload compensates only in its ApiException branch.
AfterRollbackMutant(p) == "done"

\* A failed commit of an upload still has bytes to remove.
AfterRollback(p) == IF At(p, "upload", "commit") THEN "cleanup" ELSE "done"

\* The transaction rolls back and the service's catch blocks run.
Rollback(p) ==
  /\ EndTx(p)
  /\ req' = [req EXCEPT ![p].pc = AfterRollback(p), ![p].result = "failed"]
  /\ logged' = IF Deleting(p) /\ req[p].pc \in {"lock", "references", "forget", "commit"}
               THEN logged \cup LoggedIds(p) ELSE logged
  /\ UNCHANGED <<row, bytes, ref>>

\* Another transaction is the sqlite writer for longer than the busy timeout.
Busy(p) ==
  /\ req[p].pc \in {"insert", "forget", "write"}
  /\ WriterBusy(p)
  /\ Rollback(p)

\* A statement or the commit throws: lost connection, lock wait timeout, ...
SqlFails(p) ==
  /\ "sql" \in Faults
  /\ req[p].pc \in {"insert", "commit", "lock", "references", "forget", "write",
                    "save", "orphaned"}
  /\ Rollback(p)

\* The PHP process dies: its transaction rolls back, no catch block runs.
Crash(p) ==
  /\ "crash" \in Faults
  /\ req[p].pc \notin {"start", "done"}
  /\ EndTx(p)
  /\ Answer(p, "crashed")
  /\ UNCHANGED <<row, bytes, ref, logged>>

-----------------------------------------------------------------------------

Begin(p) ==
  StartUpload(p) \/ StartDelete(p) \/ StartAttach(p) \/ StartDetach(p) \/ StartRelease(p)

Upload(p) == UploadInsert(p) \/ UploadPut(p) \/ UploadCommit(p) \/ UploadCleanup(p)

Delete(p) ==
  \/ DeleteLock(p) \/ DeleteAlreadyGone(p) \/ DeleteCheck(p) \/ DeleteInUse(p)
  \/ DeleteBytes(p) \/ DeleteRow(p) \/ DeleteCommit(p)

Write(p) ==
  \/ AttachLock(p) \/ AttachLockMissing(p) \/ AttachCheckBytes(p) \/ AttachRefused(p)
  \/ OwnerWrite(p) \/ OwnerCommit(p) \/ ReleaseIfOrphaned(p)

Step(p) == Upload(p) \/ Delete(p) \/ Write(p) \/ Busy(p)

Fail(p) == UploadPutFails(p) \/ DeleteBytesFails(p) \/ SqlFails(p) \/ Crash(p)

AllAnswered == \A p \in Requests : req[p].pc = "done"

\* Every request has been answered; nothing is left to do.
Quiet == AllAnswered /\ UNCHANGED vars

Next == (\E p \in Requests : Begin(p) \/ Step(p) \/ Fail(p)) \/ Quiet

Spec == Init /\ [][Next]_vars

\* A PHP process keeps running its own request; which request arrives, and
\* when something fails, is up to the environment.
FairSpec == Spec /\ \A p \in Requests : WF_vars(Step(p))

-----------------------------------------------------------------------------
(* Properties                                                              *)

\* No committed record ever points at an asset whose row or bytes are gone,
\* whatever deletes, uploads, failures and crashes run beside its writer:
\* the promise of MediaReferenceLock ("the commit-time guarantee").
NoDanglingReference ==
  \A o \in Owners : ref[o] # None => ref[o] \in row \cap bytes

\* A delete that answered success left neither row nor bytes, also when a
\* concurrent delete did the work (MediaService::delete's idempotent return).
DeletedMeansGone ==
  \A p \in Requests :
    req[p].op = "delete" /\ req[p].result = "ok"
      => req[p].asset \notin row \cup bytes

\* Row and bytes disagree only while a request on the asset is in flight, or
\* after a failure that was logged for the operator (create's compensation,
\* delete's catch blocks): only a process that died leaves a silent orphan.
NoSilentOrphan ==
  \A a \in Assets :
    (a \in row) # (a \in bytes)
      => \/ a \in logged
         \/ \E p \in Requests : req[p].asset = a /\ (req[p].pc \notin {"start", "done"} \/ req[p].result = "crashed")

\* A delete that succeeds is complete, and one that fails says so.
DeletesAreHonest == DeletedMeansGone /\ NoSilentOrphan

NothingFailed == \A p \in Requests : req[p].result \notin {"failed", "crashed"}

\* Unless a request failed, an asset the gallery let go of is not leaked: once
\* every request is answered it is referenced again or deleted, however the
\* last removals overlapped (releaseIfOrphaned swallows MEDIA_IN_USE).
GalleryLeaksNothing ==
  \A p \in Requests :
    AllAnswered /\ NothingFailed /\ req[p].op = "release" /\ req[p].result = "ok"
      => LET a == req[p].asset
         IN \/ a \notin row
            \/ Referenced(a)
            \/ \E q \in Requests : req[q].dropped = a
                  /\ ~(req[q].op = "release" /\ req[q].asset = a)

\* Every request that arrived is answered: no lock is held for ever and no
\* two requests wait for each other.
EveryRequestAnswered ==
  \A p \in Requests : req[p].pc # "start" ~> req[p].pc = "done"
=============================================================================
