----------------------------- MODULE MediaProofs -----------------------------
(* Proofs about Media: typing, honest deletes and a gallery that leaks     *)
(* nothing on either engine, and no dangling reference wherever SELECT ... *)
(* FOR UPDATE really locks the row; and about Artifact: the validator of   *)
(* the sample dataset accepts just what its generator leaves.              *)
EXTENDS Media, Artifact, DatabaseProofs

\* A request that works on an asset or an owner names one.
Shape ==
  \A p \in Requests :
    /\ req[p].op \in {"upload", "delete", "attach", "release"} => req[p].asset \in Assets
    /\ req[p].op \in {"attach", "detach", "release"} => req[p].owner \in Owners

TypeInv == TypeOK /\ Shape

LEMMA InitTypeInv == Init => TypeInv
<1>1. SUFFICES ASSUME Init PROVE TypeInv
  OBVIOUS
<1>2. DbTypeOK
  BY <1>1, EngineAssumption, NoneAssumption DEF Init, DbInit, DbTypeOK
<1>3. req \in [Requests -> Request]
  BY <1>1 DEF Init, Request, Ops, Places, Results
<1>4. row \subseteq Assets /\ bytes \subseteq Assets /\ logged \subseteq Assets
  BY <1>1 DEF Init
<1>5. ref \in [Owners -> Assets \cup {None}]
  BY <1>1, <1>4 DEF Init
<1>6. Shape
  BY <1>1 DEF Init, Shape
<1> QED
  BY <1>2, <1>3, <1>4, <1>5, <1>6 DEF TypeInv, TypeOK

LEMMA NextTypeInv == TypeInv /\ [Next]_vars => TypeInv'
<1> SUFFICES ASSUME TypeInv, [Next]_vars PROVE TypeInv'
  OBVIOUS
<1> USE DEF TypeInv, TypeOK
<1>1. ASSUME NEW p \in Requests, Begin(p) PROVE TypeInv'
  <2>1. PICK op \in {"upload", "delete", "attach", "detach", "release"},
             pc \in {"insert", "lock", "write"},
             a \in Assets \cup {None}, o \in Owners \cup {None} :
          /\ Start(p, op, pc, a, o)
          /\ op \in {"upload", "delete", "attach", "release"} => a \in Assets
          /\ op \in {"attach", "detach", "release"} => o \in Owners
    BY <1>1 DEF Begin, StartUpload, StartDelete, StartAttach, StartDetach, StartRelease
  <2>2. req' \in [Requests -> Request]
    BY <2>1 DEF Start, Request, Ops, Places, Results
  <2>3. Shape'
    BY <2>1 DEF Start, Shape, Request
  <2> QED
    BY <2>1, <2>2, <2>3, DbTyped DEF Start
<1>2. ASSUME NEW p \in Requests, Upload(p) PROVE TypeInv'
  <2>1. DbTypeOK'
    BY <1>2, DbTyped DEF Upload, UploadInsert, UploadPut, UploadCommit, UploadCleanup
  <2>2. req' \in [Requests -> Request]
    BY <1>2 DEF Upload, UploadInsert, UploadPut, UploadCommit, UploadCleanup,
                Goto, Answer, Request, Places, Results
  <2>3. Shape'
    BY <1>2 DEF Upload, UploadInsert, UploadPut, UploadCommit, UploadCleanup,
                Goto, Answer, Request, Shape
  <2>4. req[p].asset \in Assets
    BY <1>2 DEF Upload, UploadInsert, UploadPut, UploadCommit, UploadCleanup, At, Shape
  <2> QED
    BY <1>2, <2>1, <2>2, <2>3, <2>4
    DEF Upload, UploadInsert, UploadPut, UploadCommit, UploadCleanup, LoggedIds
<1>3. ASSUME NEW p \in Requests, Delete(p) PROVE TypeInv'
  <2>1. DbTypeOK'
    BY <1>3, DbTyped DEF Delete, DeleteLock, DeleteAlreadyGone, DeleteCheck, DeleteInUse,
                         DeleteBytes, DeleteRow, DeleteCommit
  <2>2. req' \in [Requests -> Request]
    BY <1>3 DEF Delete, DeleteLock, DeleteAlreadyGone, DeleteCheck, DeleteInUse,
                DeleteBytes, DeleteRow, DeleteCommit, Goto, Answer, Request, Places, Results
  <2>3. Shape'
    BY <1>3 DEF Delete, DeleteLock, DeleteAlreadyGone, DeleteCheck, DeleteInUse,
                DeleteBytes, DeleteRow, DeleteCommit, Goto, Answer, Request, Shape
  <2> QED
    BY <1>3, <2>1, <2>2, <2>3
    DEF Delete, DeleteLock, DeleteAlreadyGone, DeleteCheck, DeleteInUse,
        DeleteBytes, DeleteRow, DeleteCommit
<1>4. ASSUME NEW p \in Requests, Write(p) PROVE TypeInv'
  <2>1. DbTypeOK'
    BY <1>4, DbTyped DEF Write, AttachLock, AttachLockMissing, AttachCheckBytes,
                         AttachRefused, OwnerWrite, OwnerCommit, ReleaseIfOrphaned
  <2>2. CASE OwnerCommit(p)
    <3> DEFINE o == req[p].owner
               new == IF req[p].op = "attach" THEN req[p].asset ELSE None
    <3>1. new \in Assets \cup {None} /\ ref[o] \in Assets \cup {None}
      BY <2>2 DEF OwnerCommit, WritesOwner, Shape
    <3>2. ref' \in [Owners -> Assets \cup {None}]
      BY <2>2, <3>1 DEF OwnerCommit
    <3> DEFINE res == IF AfterSave(p) = "done" THEN "ok" ELSE "none"
               drop == IF ref[o] = new THEN None ELSE ref[o]
    <3>a. AfterSave(p) \in Places /\ res \in Results /\ drop \in Assets \cup {None}
      BY <3>1 DEF AfterSave, Places, Results
    <3> DEFINE req1 == [req EXCEPT ![p].pc = AfterSave(p)]
               req2 == [req1 EXCEPT ![p].result = res]
               req3 == [req2 EXCEPT ![p].dropped = drop]
    <3>b. req1 \in [Requests -> Request]
      BY <3>a DEF Request
    <3>c. req2 \in [Requests -> Request]
      <4> HIDE DEF req1, res
      <4> QED  BY <3>a, <3>b DEF Request
    <3>d. req3 \in [Requests -> Request]
      <4> HIDE DEF req2, drop
      <4> QED  BY <3>a, <3>c DEF Request
    <3>3. req' \in [Requests -> Request]
      BY <2>2, <3>d, Zenon DEF OwnerCommit
    <3>4. Shape'
      BY <2>2, <3>1 DEF OwnerCommit, Request, Shape
    <3> QED
      BY <2>1, <2>2, <3>2, <3>3, <3>4 DEF OwnerCommit
  <2>3. CASE ~OwnerCommit(p)
    <3>1. req' \in [Requests -> Request]
      BY <1>4, <2>3 DEF Write, AttachLock, AttachLockMissing, AttachCheckBytes, AttachRefused,
                  OwnerWrite, ReleaseIfOrphaned, Goto, Answer, Request, Places, Results
    <3>2. Shape'
      BY <1>4, <2>3 DEF Write, AttachLock, AttachLockMissing, AttachCheckBytes, AttachRefused,
                  OwnerWrite, ReleaseIfOrphaned, Goto, Answer, Request, Shape
    <3> QED
      BY <1>4, <2>1, <2>3, <3>1, <3>2
      DEF Write, AttachLock, AttachLockMissing, AttachCheckBytes, AttachRefused,
          OwnerWrite, ReleaseIfOrphaned
  <2> QED
    BY <2>2, <2>3
<1>5. ASSUME NEW p \in Requests, Busy(p) \/ Fail(p) PROVE TypeInv'
  <2>1. DbTypeOK'
    BY <1>5, DbTyped DEF Busy, Fail, UploadPutFails, DeleteBytesFails, SqlFails, Crash, Rollback
  <2>2. req' \in [Requests -> Request]
    BY <1>5 DEF Busy, Fail, UploadPutFails, DeleteBytesFails, SqlFails, Crash, Rollback,
                AfterRollback, Goto, Answer, Request, Places, Results
  <2>3. Shape'
    BY <1>5 DEF Busy, Fail, UploadPutFails, DeleteBytesFails, SqlFails, Crash, Rollback,
                AfterRollback, Goto, Answer, Request, Shape
  <2>4. req[p].op \in {"upload", "delete", "release"} => LoggedIds(p) \subseteq Assets
    BY DEF Shape, LoggedIds
  <2>5. bytes' \subseteq Assets /\ logged' \subseteq Assets
    BY <1>5, <2>4 DEF Busy, Fail, UploadPutFails, DeleteBytesFails, SqlFails, Crash, Rollback,
                Deleting, At, LoggedIds
  <2> QED
    BY <1>5, <2>1, <2>2, <2>3, <2>5
    DEF Busy, Fail, UploadPutFails, DeleteBytesFails, SqlFails, Crash, Rollback
<1>6. CASE UNCHANGED vars
  BY <1>6 DEF vars, dbVars, Shape, DbTypeOK
<1> QED
  BY <1>1, <1>2, <1>3, <1>4, <1>5, <1>6 DEF Next, Step, Quiet

\* On either engine every request, lock and reference stays well-typed.
THEOREM MediaTypeOK == Spec => []TypeOK
<1>1. TypeInv => TypeOK
  BY DEF TypeInv
<1> QED
  BY <1>1, InitTypeInv, NextTypeInv, PTL DEF Spec

-----------------------------------------------------------------------------
(***************************************************************************)
(* No dangling reference, by row locks.  A writer that saw the row and the *)
(* bytes, and a delete that saw no reference, hold the asset's row lock    *)
(* until they commit or roll back, so they exclude each other; an upload   *)
(* works on an id nobody can have seen yet.                                *)
(***************************************************************************)

\* The requests that have passed lockAvailable() or lockAsset().
HoldsLock(p) ==
  \/ req[p].op = "attach" /\ req[p].pc \in {"available", "write", "save"}
  \/ Deleting(p) /\ req[p].pc \in {"references", "remove", "forget", "commit"}

LocksHeld == \A p \in Requests : HoldsLock(p) => rowLock[req[p].asset] = p

AttachSawRow ==
  \A p \in Requests :
    req[p].op = "attach" /\ req[p].pc \in {"available", "write", "save"}
      => req[p].asset \in row

AttachSawBytes ==
  \A p \in Requests :
    req[p].op = "attach" /\ req[p].pc \in {"write", "save"} => req[p].asset \in bytes

DeleteSawNoReference ==
  \A p \in Requests :
    Deleting(p) /\ req[p].pc \in {"remove", "forget", "commit"}
      => ~Referenced(req[p].asset)

UploadUnseen ==
  \A p \in Requests :
    req[p].op = "upload" /\ req[p].pc # "done" => req[p].asset \notin row

UploadsDistinct ==
  \A p, q \in Requests :
    req[p].op = "upload" /\ req[q].op = "upload" /\ req[p].asset = req[q].asset => p = q

LockInv ==
  /\ TypeInv
  /\ NoDanglingReference
  /\ LocksHeld
  /\ AttachSawRow /\ AttachSawBytes
  /\ DeleteSawNoReference
  /\ UploadUnseen /\ UploadsDistinct

LEMMA InitLockInv == Init => LockInv
<1> SUFFICES ASSUME Init PROVE LockInv
  OBVIOUS
<1>1. NoDanglingReference
  BY DEF Init, NoDanglingReference
<1> QED
  BY InitTypeInv, <1>1
  DEF LockInv, Init, LocksHeld, HoldsLock, Deleting, AttachSawRow, AttachSawBytes,
      DeleteSawNoReference, UploadUnseen, UploadsDistinct

\* A request that arrives disturbs nobody; a new upload's id is unused.
LEMMA BeginLockInv ==
  ASSUME LockInv, TypeInv', NEW p \in Requests, Begin(p)
  PROVE  LockInv'
<1> USE DEF LockInv, TypeInv, TypeOK
<1>1. /\ \A q \in Requests \ {p} : req'[q] = req[q]
      /\ req'[p].pc \in {"insert", "lock", "write"}
      /\ req'[p].op \in {"upload", "delete", "attach", "detach", "release"}
      /\ req'[p].op = "attach" => req'[p].pc = "lock"
      /\ req'[p].op \in {"delete", "release"} => req'[p].pc \in {"lock", "write"}
      /\ UNCHANGED <<dbVars, row, bytes, ref>>
  BY DEF Begin, StartUpload, StartDelete, StartAttach, StartDetach, StartRelease, Start
<1>2. req'[p].op = "upload" => Fresh(req'[p].asset)
  BY DEF Begin, StartUpload, StartDelete, StartAttach, StartDetach, StartRelease, Start
<1>3. NoDanglingReference'
  BY <1>1 DEF NoDanglingReference
<1>4. LocksHeld'
  BY <1>1 DEF LocksHeld, HoldsLock, Deleting, dbVars
<1>5. AttachSawRow' /\ AttachSawBytes'
  BY <1>1 DEF AttachSawRow, AttachSawBytes
<1>6. DeleteSawNoReference'
  BY <1>1 DEF DeleteSawNoReference, Deleting, Referenced
<1>7. UploadUnseen' /\ UploadsDistinct'
  BY <1>1, <1>2 DEF UploadUnseen, UploadsDistinct, Fresh
<1> QED
  BY <1>3, <1>4, <1>5, <1>6, <1>7

\* A step of a running request keeps its operation, asset and owner.
LEMMA StepFrame ==
  ASSUME TypeInv, NEW p \in Requests, Step(p) \/ Fail(p)
  PROVE  /\ \A q \in Requests \ {p} : req'[q] = req[q]
         /\ req'[p].op = req[p].op /\ req'[p].asset = req[p].asset
         /\ req'[p].owner = req[p].owner
<1> USE DEF TypeInv, TypeOK, Request, Goto, Answer
<1>1. CASE Upload(p)
  BY <1>1 DEF Upload, UploadInsert, UploadPut, UploadCommit, UploadCleanup
<1>2. CASE Delete(p)
  BY <1>2 DEF Delete, DeleteLock, DeleteAlreadyGone, DeleteCheck, DeleteInUse,
              DeleteBytes, DeleteRow, DeleteCommit
<1>3. CASE Write(p)
  BY <1>3 DEF Write, AttachLock, AttachLockMissing, AttachCheckBytes,
              AttachRefused, OwnerWrite, OwnerCommit, ReleaseIfOrphaned
<1>4. CASE Busy(p) \/ Fail(p)
  BY <1>4 DEF Busy, Fail, UploadPutFails, DeleteBytesFails, SqlFails, Crash, Rollback
<1> QED
  BY <1>1, <1>2, <1>3, <1>4 DEF Step

\* An upload touches only its own asset, which nobody references or locks on.
LEMMA UploadLockInv ==
  ASSUME LockInv, HasRowLocks, TypeInv', NEW p \in Requests, Upload(p)
  PROVE  LockInv'
<1> USE DEF LockInv, TypeInv, TypeOK
<1>1. /\ \A q \in Requests \ {p} : req'[q] = req[q]
      /\ req'[p].op = req[p].op /\ req'[p].asset = req[p].asset
  BY StepFrame DEF Step
<1>2. req[p].op = "upload" /\ req[p].asset \in Assets /\ req[p].pc # "done"
  BY DEF Upload, UploadInsert, UploadPut, UploadCommit, UploadCleanup, At, Shape
<1>3. req[p].asset \notin row
  BY <1>2 DEF UploadUnseen
<1>4. /\ row \subseteq row' /\ row' \subseteq row \cup {req[p].asset}
      /\ bytes \ {req[p].asset} \subseteq bytes'
      /\ UNCHANGED ref
  BY DEF Upload, UploadInsert, UploadPut, UploadCommit, UploadCleanup
<1>5. NoDanglingReference'
  BY <1>3, <1>4 DEF NoDanglingReference
<1>6. LocksHeld'
  <2> SUFFICES ASSUME NEW q \in Requests, HoldsLock(q)' PROVE rowLock'[req'[q].asset] = q
    BY DEF LocksHeld
  <2>1. q # p /\ HoldsLock(q) /\ req'[q] = req[q]
    BY <1>1, <1>2 DEF HoldsLock, Deleting
  <2>2. rowLock[req[q].asset] = q /\ req[q].asset \in Rows
    BY <2>1, MediaAssumption DEF LocksHeld, HoldsLock, Deleting, Shape
  <2> QED
    BY <2>1, <2>2, LockKept DEF Upload, UploadInsert, UploadPut, UploadCommit, UploadCleanup
<1>7. AttachSawRow' /\ AttachSawBytes'
  BY <1>1, <1>2, <1>3, <1>4 DEF AttachSawRow, AttachSawBytes
<1>8. DeleteSawNoReference'
  BY <1>1, <1>2, <1>4 DEF DeleteSawNoReference, Deleting, Referenced
<1>9. UploadUnseen'
  <2>1. req'[p].pc = "done" \/ row' = row
    BY DEF Upload, UploadInsert, UploadPut, UploadCommit, UploadCleanup, Goto, Answer, Request
  <2> QED
    BY <1>1, <1>2, <1>4, <2>1 DEF UploadUnseen, UploadsDistinct
<1>10. UploadsDistinct'
  BY <1>1 DEF UploadsDistinct
<1> QED
  BY <1>5, <1>6, <1>7, <1>8, <1>9, <1>10

\* A delete removes row and bytes only while it holds the lock of an asset it
\* saw unreferenced, so no writer of that asset is past its own lock.
LEMMA DeleteLockInv ==
  ASSUME LockInv, HasRowLocks, TypeInv', NEW p \in Requests, Delete(p)
  PROVE  LockInv'
<1> USE DEF LockInv, TypeInv, TypeOK
<1> DEFINE a == req[p].asset
<1>1. /\ \A q \in Requests \ {p} : req'[q] = req[q]
      /\ req'[p].op = req[p].op /\ req'[p].asset = a
  BY StepFrame DEF Step
<1>2. Deleting(p) /\ a \in Assets /\ a \in Rows
  BY MediaAssumption
  DEF Delete, DeleteLock, DeleteAlreadyGone, DeleteCheck, DeleteInUse,
      DeleteBytes, DeleteRow, DeleteCommit, Deleting, Shape
<1>3. UNCHANGED ref
  BY DEF Delete, DeleteLock, DeleteAlreadyGone, DeleteCheck, DeleteInUse,
         DeleteBytes, DeleteRow, DeleteCommit
<1>4. /\ row' \subseteq row /\ row \ {a} \subseteq row'
      /\ bytes' \subseteq bytes /\ bytes \ {a} \subseteq bytes'
      /\ row' # row \/ bytes' # bytes => req[p].pc \in {"remove", "commit"}
  BY DEF Delete, DeleteLock, DeleteAlreadyGone, DeleteCheck, DeleteInUse,
         DeleteBytes, DeleteRow, DeleteCommit
<1>5. NoDanglingReference'
  BY <1>2, <1>3, <1>4 DEF NoDanglingReference, DeleteSawNoReference, Referenced
<1>6. LocksHeld'
  <2> SUFFICES ASSUME NEW q \in Requests, HoldsLock(q)' PROVE rowLock'[req'[q].asset] = q
    BY DEF LocksHeld
  <2>1. CASE q = p
    <3>1. CASE DeleteLock(p)
      BY <1>1, <1>2, <2>1, <3>1, LockTaken DEF DeleteLock
    <3>2. CASE DeleteCheck(p) \/ DeleteBytes(p) \/ DeleteRow(p)
      <4>1. rowLock[a] = p
        BY <3>2 DEF DeleteCheck, DeleteBytes, DeleteRow, LocksHeld, HoldsLock
      <4> QED
        BY <1>1, <1>2, <2>1, <3>2, <4>1, OwnLockKept DEF DeleteCheck, DeleteBytes, DeleteRow
    <3>3. CASE DeleteAlreadyGone(p) \/ DeleteInUse(p) \/ DeleteCommit(p)
      BY <2>1, <3>3 DEF DeleteAlreadyGone, DeleteInUse, DeleteCommit, Answer, HoldsLock, Request
    <3> QED
      BY <3>1, <3>2, <3>3 DEF Delete
  <2>2. CASE q # p
    <3>1. HoldsLock(q) /\ req'[q] = req[q]
      BY <1>1, <2>2 DEF HoldsLock, Deleting
    <3>2. rowLock[req[q].asset] = q /\ req[q].asset \in Rows
      BY <3>1, MediaAssumption DEF LocksHeld, HoldsLock, Deleting, Shape
    <3> QED
      BY <2>2, <3>1, <3>2, LockKept
      DEF Delete, DeleteLock, DeleteAlreadyGone, DeleteCheck, DeleteInUse,
          DeleteBytes, DeleteRow, DeleteCommit
  <2> QED
    BY <2>1, <2>2
<1>7. AttachSawRow' /\ AttachSawBytes'
  <2>1. ASSUME NEW q \in Requests, req'[q].op = "attach",
               req'[q].pc \in {"available", "write", "save"},
               row' # row \/ bytes' # bytes
        PROVE  req[q].asset # a
    <3>1. q # p /\ HoldsLock(q) /\ HoldsLock(p)
      BY <1>1, <1>2, <1>4, <2>1 DEF HoldsLock, Deleting
    <3> QED
      BY <3>1 DEF LocksHeld
  <2> QED
    BY <1>1, <1>2, <1>4, <2>1 DEF AttachSawRow, AttachSawBytes, Deleting
<1>8. DeleteSawNoReference'
  <2>1. req'[p].pc \in {"remove", "forget", "commit"} => ~Referenced(a)
    BY <1>2 DEF Delete, DeleteLock, DeleteAlreadyGone, DeleteCheck, DeleteInUse,
           DeleteBytes, DeleteRow, DeleteCommit, Goto, Answer, Request, DeleteSawNoReference
  <2> QED
    BY <1>1, <1>3, <2>1 DEF DeleteSawNoReference, Deleting, Referenced
<1>9. UploadUnseen' /\ UploadsDistinct'
  BY <1>1, <1>2, <1>4 DEF UploadUnseen, UploadsDistinct, Deleting
<1> QED
  BY <1>5, <1>6, <1>7, <1>8, <1>9

\* A writer commits its reference while it holds the lock under which it saw
\* the row and the bytes, so no delete has seen the asset unreferenced.
LEMMA WriteLockInv ==
  ASSUME LockInv, HasRowLocks, TypeInv', NEW p \in Requests, Write(p)
  PROVE  LockInv'
<1> USE DEF LockInv, TypeInv, TypeOK
<1> DEFINE a == req[p].asset
<1>1. /\ \A q \in Requests \ {p} : req'[q] = req[q]
      /\ req'[p].op = req[p].op /\ req'[p].asset = a
  BY StepFrame DEF Step
<1>2. req[p].op \in {"attach", "detach", "release"} /\ UNCHANGED <<row, bytes>>
  BY DEF Write, AttachLock, AttachLockMissing, AttachCheckBytes, AttachRefused,
         OwnerWrite, OwnerCommit, ReleaseIfOrphaned, At, WritesOwner
<1>3. ASSUME NEW o \in Owners, ref'[o] # ref[o], ref'[o] # None
      PROVE  req[p].op = "attach" /\ req[p].pc = "save" /\ ref'[o] = a
  BY <1>3
  DEF Write, AttachLock, AttachLockMissing, AttachCheckBytes, AttachRefused,
      OwnerWrite, OwnerCommit, ReleaseIfOrphaned
<1>4. NoDanglingReference'
  BY <1>2, <1>3 DEF NoDanglingReference, AttachSawRow, AttachSawBytes
<1>5. LocksHeld'
  <2> SUFFICES ASSUME NEW q \in Requests, HoldsLock(q)' PROVE rowLock'[req'[q].asset] = q
    BY DEF LocksHeld
  <2>1. CASE q = p
    <3>1. a \in Rows
      BY <1>1, <2>1, MediaAssumption DEF HoldsLock, Deleting, Shape
    <3>2. CASE AttachLock(p)
      BY <1>1, <2>1, <3>1, <3>2, LockTaken DEF AttachLock
    <3>3. CASE AttachCheckBytes(p) \/ OwnerWrite(p)
      <4>1. HoldsLock(p)
        BY <1>1, <2>1, <3>3
        DEF AttachCheckBytes, OwnerWrite, At, WritesOwner, HoldsLock, Deleting, Goto, Request
      <4> QED
        BY <1>1, <2>1, <3>1, <3>3, <4>1, OwnLockKept DEF AttachCheckBytes, OwnerWrite, LocksHeld
    <3>4. CASE \/ AttachLockMissing(p) \/ AttachRefused(p)
               \/ OwnerCommit(p) \/ ReleaseIfOrphaned(p)
      BY <2>1, <3>4
      DEF AttachLockMissing, AttachRefused, OwnerCommit, AfterSave, ReleaseIfOrphaned,
          At, Answer, Goto, HoldsLock, Deleting, Request
    <3> QED
      BY <3>2, <3>3, <3>4 DEF Write
  <2>2. CASE q # p
    <3>1. HoldsLock(q) /\ req'[q] = req[q]
      BY <1>1, <2>2 DEF HoldsLock, Deleting
    <3>2. rowLock[req[q].asset] = q /\ req[q].asset \in Rows
      BY <3>1, MediaAssumption DEF LocksHeld, HoldsLock, Deleting, Shape
    <3> QED
      BY <2>2, <3>1, <3>2, LockKept
      DEF Write, AttachLock, AttachLockMissing, AttachCheckBytes, AttachRefused,
          OwnerWrite, OwnerCommit, ReleaseIfOrphaned
  <2> QED
    BY <2>1, <2>2
<1>6. AttachSawRow' /\ AttachSawBytes'
  <2>1. req'[p].op = "attach" /\ req'[p].pc \in {"available", "write", "save"} => a \in row
    BY <1>1, <1>2
    DEF Write, AttachLock, AttachLockMissing, AttachCheckBytes, AttachRefused,
        OwnerWrite, OwnerCommit, AfterSave, ReleaseIfOrphaned, At, WritesOwner, Goto, Answer,
        Request, AttachSawRow
  <2>2. req'[p].op = "attach" /\ req'[p].pc \in {"write", "save"} => a \in bytes
    BY <1>1, <1>2
    DEF Write, AttachLock, AttachLockMissing, AttachCheckBytes, AttachRefused,
        OwnerWrite, OwnerCommit, AfterSave, ReleaseIfOrphaned, At, WritesOwner, Goto, Answer,
        Request, AttachSawBytes
  <2> QED
    BY <1>1, <1>2, <2>1, <2>2 DEF AttachSawRow, AttachSawBytes
<1>7. DeleteSawNoReference'
  <2> SUFFICES ASSUME NEW q \in Requests, Deleting(q)',
                      req'[q].pc \in {"remove", "forget", "commit"}
               PROVE  \A o \in Owners : ref'[o] # req'[q].asset
    BY DEF DeleteSawNoReference, Referenced
  <2>1. q # p
    BY <1>2
    DEF Write, AttachLock, AttachLockMissing, AttachCheckBytes, AttachRefused,
        OwnerWrite, OwnerCommit, AfterSave, ReleaseIfOrphaned, At, WritesOwner, Goto, Answer,
        Request
  <2>2. HoldsLock(q) /\ ~Referenced(req[q].asset) /\ req'[q] = req[q] /\ req[q].asset \in Assets
    BY <1>1, <2>1 DEF HoldsLock, Deleting, DeleteSawNoReference, Shape
  <2>3. req[p].op = "attach" /\ req[p].pc = "save" => req[q].asset # a
    BY <2>1, <2>2 DEF HoldsLock, LocksHeld
  <2> QED
    BY <1>3, <2>2, <2>3, NoneAssumption, MediaAssumption DEF Referenced
<1>8. UploadUnseen' /\ UploadsDistinct'
  BY <1>1, <1>2 DEF UploadUnseen, UploadsDistinct
<1> QED
  BY <1>4, <1>5, <1>6, <1>7, <1>8

\* A failure rolls back: it may leave bytes behind or remove none, and never
\* takes the bytes from under a reference.
LEMMA FailLockInv ==
  ASSUME LockInv, HasRowLocks, TypeInv', NEW p \in Requests, Busy(p) \/ Fail(p)
  PROVE  LockInv'
<1> USE DEF LockInv, TypeInv, TypeOK
<1>1. /\ \A q \in Requests \ {p} : req'[q] = req[q]
      /\ req'[p].op = req[p].op /\ req'[p].asset = req[p].asset
  BY StepFrame DEF Step
<1>2. /\ EndTx(p) /\ UNCHANGED <<row, ref>> /\ bytes \subseteq bytes'
      /\ req'[p].pc = "done" \/ (req'[p].pc = "cleanup" /\ At(p, "upload", req[p].pc))
      /\ req[p].pc # "done"
  BY DEF Busy, Fail, UploadPutFails, DeleteBytesFails, SqlFails, Crash, Rollback, AfterRollback,
         Answer, Goto, At, Request
<1>3. NoDanglingReference'
  BY <1>2 DEF NoDanglingReference
<1>4. LocksHeld'
  <2> SUFFICES ASSUME NEW q \in Requests, HoldsLock(q)' PROVE rowLock'[req'[q].asset] = q
    BY DEF LocksHeld
  <2>1. q # p /\ HoldsLock(q) /\ req'[q] = req[q]
    BY <1>1, <1>2 DEF HoldsLock, Deleting
  <2>2. rowLock[req[q].asset] = q /\ req[q].asset \in Rows
    BY <2>1, MediaAssumption DEF LocksHeld, HoldsLock, Deleting, Shape
  <2> QED
    BY <1>2, <2>1, <2>2, LockKept
<1>5. AttachSawRow' /\ AttachSawBytes'
  BY <1>1, <1>2 DEF AttachSawRow, AttachSawBytes
<1>6. DeleteSawNoReference'
  BY <1>1, <1>2 DEF DeleteSawNoReference, Deleting, Referenced
<1>7. UploadUnseen' /\ UploadsDistinct'
  BY <1>1, <1>2 DEF UploadUnseen, UploadsDistinct, At
<1> QED
  BY <1>3, <1>4, <1>5, <1>6, <1>7

LEMMA NextLockInv == HasRowLocks /\ LockInv /\ [Next]_vars => LockInv'
<1> SUFFICES ASSUME HasRowLocks, LockInv, [Next]_vars PROVE LockInv'
  OBVIOUS
<1>1. TypeInv'
  BY NextTypeInv DEF LockInv
<1>2. ASSUME NEW p \in Requests, Begin(p) \/ Step(p) \/ Fail(p) PROVE LockInv'
  BY <1>1, <1>2, BeginLockInv, UploadLockInv, DeleteLockInv, WriteLockInv, FailLockInv DEF Step
<1>3. CASE UNCHANGED vars
  BY <1>1, <1>3
  DEF LockInv, vars, dbVars, NoDanglingReference, LocksHeld, HoldsLock, Deleting, AttachSawRow,
      AttachSawBytes, DeleteSawNoReference, Referenced, UploadUnseen, UploadsDistinct
<1> QED
  BY <1>2, <1>3 DEF Next, Quiet

\* For any number of requests, assets and owners, and whatever fails: where
\* the engine has row locks, no committed reference ever dangles.
THEOREM MediaNoDanglingReference ==
  ASSUME HasRowLocks PROVE Spec => []NoDanglingReference
<1>1. LockInv => NoDanglingReference
  BY DEF LockInv
<1>2. LockInv /\ [Next]_vars => LockInv'
  BY NextLockInv
<1> QED
  BY <1>1, <1>2, InitLockInv, PTL DEF Spec

-----------------------------------------------------------------------------
(***************************************************************************)
(* Honest deletes, on either engine.  Only an upload puts a row or bytes   *)
(* back, and its id is one that no delete, release or attachment ever saw; *)
(* whoever leaves row and bytes apart is still to mend it, was logged, or  *)
(* died.                                                                   *)
(***************************************************************************)

Uploading(p) == req[p].op = "upload" /\ req[p].pc # "done"

\* The requests that have seen the row of their asset, at some time.
Knows(p) ==
  Deleting(p) \/ (req[p].op = "attach" /\ req[p].pc \in {"available", "write", "save"})

StartClean ==
  \A p \in Requests : req[p].pc = "start" =>
    /\ req[p].op = "none" /\ req[p].asset = None
    /\ req[p].dropped = None /\ req[p].result = "none"

UploadAlone ==
  \A p \in Requests : Uploading(p) =>
    /\ req[p].asset \notin row /\ ~Referenced(req[p].asset)
    /\ req[p].pc = "commit" => req[p].asset \in bytes
    /\ \A q \in Requests \ {p} : Knows(q) \/ Uploading(q) => req[q].asset # req[p].asset

RefsAccounted ==
  \A a \in Assets : Referenced(a) => a \in row \/ \E q \in Requests : req[q].asset = a

KnownGone ==
  \A a \in Assets \ row :
    Referenced(a) \/ (\E q \in Requests : Knows(q) /\ req[q].asset = a) => a \notin bytes

DeletedBytes ==
  \A p \in Requests :
    Deleting(p) /\ req[p].pc \in {"forget", "commit"} => req[p].asset \notin bytes

\* The requests between their two halves: bytes written or removed, row not yet.
Dirty(p) ==
  \/ req[p].op = "upload" /\ req[p].pc \in {"commit", "cleanup"}
  \/ Deleting(p) /\ req[p].pc \in {"forget", "commit"}

Mismatch(a) == (a \in row) # (a \in bytes)

OrphansExcused ==
  \A a \in Assets :
    Mismatch(a) =>
      \/ a \in logged
      \/ \E p \in Requests : req[p].asset = a /\ (Dirty(p) \/ req[p].result = "crashed")

Answered ==
  \A p \in Requests :
    /\ req[p].result # "none" => req[p].pc \in {"done", "cleanup"}
    /\ req[p].result = "crashed" => req[p].pc = "done"
    /\ req[p].pc = "cleanup" => req[p].op = "upload"

HonestInv ==
  /\ TypeInv
  /\ StartClean /\ Answered
  /\ UploadAlone /\ RefsAccounted
  /\ KnownGone /\ DeletedBytes
  /\ OrphansExcused /\ DeletedMeansGone

LEMMA InitHonestInv == Init => HonestInv
<1> SUFFICES ASSUME Init PROVE HonestInv
  OBVIOUS
<1>1. \A p \in Requests : req[p] = [op |-> "none", pc |-> "start", asset |-> None,
                                    owner |-> None, dropped |-> None, result |-> "none"]
  BY DEF Init
<1>2. StartClean /\ Answered /\ UploadAlone /\ DeletedBytes /\ DeletedMeansGone
  BY <1>1 DEF StartClean, Answered, UploadAlone, Uploading, DeletedBytes, Deleting,
              DeletedMeansGone
<1>3. RefsAccounted /\ KnownGone
  BY <1>1, NoneAssumption, MediaAssumption
  DEF Init, RefsAccounted, KnownGone, Knows, Deleting, Referenced
<1>4. OrphansExcused
  BY DEF Init, OrphansExcused, Mismatch
<1> QED
  BY InitTypeInv, <1>2, <1>3, <1>4 DEF HonestInv

\* What an arriving request brings.
LEMMA BeginShape ==
  ASSUME TypeInv, NEW p \in Requests, Begin(p)
  PROVE  /\ \A q \in Requests \ {p} : req'[q] = req[q]
         /\ req[p].pc = "start"
         /\ UNCHANGED <<dbVars, row, bytes, ref, logged>>
         /\ req'[p].dropped = None /\ req'[p].result = "none"
         /\ req'[p].pc \in {"insert", "lock", "write"}
         /\ req'[p].op \in {"upload", "delete", "attach", "detach", "release"}
         /\ req'[p].op = "release" => Referenced(req'[p].asset) /\ req'[p].pc = "write"
         /\ req'[p].op = "delete" => req'[p].asset \in row
         /\ req'[p].op = "attach" => req'[p].pc = "lock"
         /\ req'[p].op = "upload" => Fresh(req'[p].asset) /\ req'[p].pc = "insert"
  BY DEF Begin, StartUpload, StartDelete, StartAttach, StartDetach, StartRelease, Start,
         TypeInv, TypeOK, Request, Referenced

LEMMA BeginHonestInv ==
  ASSUME HonestInv, TypeInv', NEW p \in Requests, Begin(p)
  PROVE  HonestInv'
<1> USE DEF HonestInv
<1>1. /\ \A q \in Requests \ {p} : req'[q] = req[q]
      /\ req[p].pc = "start"
      /\ UNCHANGED <<row, bytes, ref, logged>>
      /\ req'[p].result = "none"
      /\ req'[p].pc \in {"insert", "lock", "write"}
      /\ req'[p].op = "release" => Referenced(req'[p].asset) /\ req'[p].pc = "write"
      /\ req'[p].op = "delete" => req'[p].asset \in row
      /\ req'[p].op = "attach" => req'[p].pc = "lock"
      /\ req'[p].op = "upload" => Fresh(req'[p].asset) /\ req'[p].pc = "insert"
  BY BeginShape
<1>2. \A a \in Assets : Referenced(a)' <=> Referenced(a)
  BY <1>1 DEF Referenced
<1>3. req[p].asset = None /\ req[p].op = "none" /\ req[p].result = "none"
  BY <1>1 DEF StartClean
<1>4. \A q \in Requests : Uploading(q)' => req'[q].asset \in Assets
  BY DEF TypeInv, Shape, Uploading
<1>5. StartClean' /\ Answered' /\ DeletedMeansGone'
  BY <1>1 DEF StartClean, Answered, DeletedMeansGone
<1>6. UploadAlone'
  <2> SUFFICES ASSUME NEW q \in Requests, Uploading(q)'
               PROVE  /\ req'[q].asset \notin row /\ ~Referenced(req'[q].asset)
                      /\ req'[q].pc = "commit" => req'[q].asset \in bytes
                      /\ \A r \in Requests \ {q} :
                           Knows(r)' \/ Uploading(r)' => req'[r].asset # req'[q].asset
    BY <1>1 DEF UploadAlone, Referenced
  <2> DEFINE a == req'[q].asset
  <2>0. a \in Assets
    BY <1>4
  <2>1. CASE q = p
    <3>1. Fresh(a) /\ req'[p].pc = "insert"
      BY <1>1, <2>1 DEF Uploading
    <3>2. ~Referenced(a)
      BY <2>0, <3>1 DEF Fresh, RefsAccounted
    <3> QED
      BY <1>1, <2>1, <3>1, <3>2 DEF Fresh, Knows, Uploading, Deleting
  <2>2. CASE q # p
    <3>1. Uploading(q) /\ req'[q] = req[q]
      BY <1>1, <2>2 DEF Uploading
    <3>2. a \notin row /\ ~Referenced(a) /\ (req'[q].pc = "commit" => a \in bytes)
      BY <3>1 DEF UploadAlone
    <3>3. \A r \in Requests \ {q, p} : Knows(r)' \/ Uploading(r)' => req'[r].asset # a
      BY <1>1, <3>1 DEF UploadAlone, Knows, Uploading, Deleting
    <3>4. Knows(p)' \/ Uploading(p)' => req'[p].asset # a
      BY <1>1, <3>1, <3>2 DEF Knows, Uploading, Deleting, Fresh
    <3> QED
      BY <3>2, <3>3, <3>4
  <2> QED
    BY <2>1, <2>2
<1>7. RefsAccounted'
  BY <1>1, <1>2, <1>3, NoneAssumption, MediaAssumption DEF RefsAccounted
<1>8. KnownGone'
  <2> SUFFICES ASSUME NEW a \in Assets \ row,
                      Referenced(a)' \/ \E q \in Requests : Knows(q)' /\ req'[q].asset = a
               PROVE  a \notin bytes
    BY <1>1 DEF KnownGone
  <2>1. Referenced(a) \/ \E q \in Requests : Knows(q) /\ req[q].asset = a
    BY <1>1, <1>2 DEF Knows, Deleting
  <2> QED
    BY <2>1 DEF KnownGone
<1>9. DeletedBytes'
  BY <1>1 DEF DeletedBytes, Deleting
<1>10. OrphansExcused'
  BY <1>1, <1>3 DEF OrphansExcused, Mismatch, Dirty, Deleting
<1> QED
  BY <1>5, <1>6, <1>7, <1>8, <1>9, <1>10

\* What one step may do to the row, the bytes and the references: only its
\* own asset's, each of them at one place of the program.
LEMMA StepData ==
  ASSUME TypeInv, NEW p \in Requests, Step(p) \/ Fail(p)
  PROVE  /\ logged \subseteq logged'
         /\ \A b : b # req[p].asset => (b \in row' <=> b \in row) /\ (b \in bytes' <=> b \in bytes)
         /\ row' # row =>
              \/ At(p, "upload", "commit") /\ req'[p].pc = "done" /\ row' = row \cup {req[p].asset}
              \/ Deleting(p) /\ req[p].pc = "commit" /\ row' = row \ {req[p].asset}
         /\ ~(bytes' \subseteq bytes) => At(p, "upload", "put")
         /\ bytes' # bytes => Deleting(p) \/ req[p].op = "upload"
         /\ ref' # ref =>
              /\ WritesOwner(p) /\ req[p].pc = "save"
              /\ ref' = [ref EXCEPT ![req[p].owner] =
                           IF req[p].op = "attach" THEN req[p].asset ELSE None]
<1> USE DEF TypeInv, TypeOK, Request, Goto, Answer, At
<1>1. CASE Upload(p)
  BY <1>1 DEF Upload, UploadInsert, UploadPut, UploadCommit, UploadCleanup,
              Deleting
<1>2. CASE Delete(p)
  BY <1>2 DEF Delete, DeleteLock, DeleteAlreadyGone, DeleteCheck, DeleteInUse,
              DeleteBytes, DeleteRow, DeleteCommit,
              Deleting
<1>3. CASE Write(p)
  BY <1>3 DEF Write, AttachLock, AttachLockMissing, AttachCheckBytes,
              AttachRefused, OwnerWrite, OwnerCommit, AfterSave, WritesOwner, ReleaseIfOrphaned,
              Deleting
<1>4. CASE Busy(p) \/ Fail(p)
  BY <1>4 DEF Busy, Fail, UploadPutFails, DeleteBytesFails, SqlFails, Crash, Rollback,
              AfterRollback,
              Deleting
<1> QED
  BY <1>1, <1>2, <1>3, <1>4 DEF Step

\* What one step may do to the request that takes it.
LEMMA StepPc ==
  ASSUME TypeInv, NEW p \in Requests, Step(p) \/ Fail(p)
  PROVE  /\ req[p].pc \notin {"start", "done"} /\ req'[p].pc # "start"
         /\ req'[p].pc # "done" =>
              \/ req'[p].result \in {"none", req[p].result}
              \/ req'[p].result = "failed" /\ req'[p].pc = "cleanup"
         /\ req'[p].pc = "cleanup" => At(p, "upload", req[p].pc)
         /\ req[p].pc = "cleanup" => req'[p].pc = "done" /\ req'[p].result \in {"failed", "crashed"}
         /\ req'[p].result = "crashed" => req'[p].pc = "done" \/ req[p].result = "crashed"
         /\ req'[p].op = "attach" /\ req'[p].pc \in {"available", "write", "save"} =>
              req[p].pc \in {"available", "write", "save"} \/ req[p].asset \in row
         /\ req[p].op = "upload" /\ req'[p].pc = "commit" => req[p].asset \in bytes'
         /\ Deleting(p) /\ req'[p].pc \in {"forget", "commit"} =>
              req[p].asset \notin bytes' \/ req[p].pc \in {"forget", "commit"}
         /\ req[p].op = "delete" /\ req'[p].result = "ok" =>
              \/ req[p].result = "ok"
              \/ req[p].asset \notin row' /\ (row' = row \/ req[p].pc = "commit")
<1> USE DEF TypeInv, TypeOK, Request, Goto, Answer, At
<1>1. CASE Upload(p)
  BY <1>1 DEF Upload, UploadInsert, UploadPut, UploadCommit, UploadCleanup,
              Deleting
<1>2. CASE Delete(p)
  BY <1>2 DEF Delete, DeleteLock, DeleteAlreadyGone, DeleteCheck, DeleteInUse,
              DeleteBytes, DeleteRow, DeleteCommit,
              Deleting
<1>3. CASE Write(p)
  BY <1>3 DEF Write, AttachLock, AttachLockMissing, AttachCheckBytes,
              AttachRefused, OwnerWrite, OwnerCommit, AfterSave, WritesOwner, ReleaseIfOrphaned,
              Deleting
<1>4. CASE Busy(p) \/ Fail(p)
  BY <1>4 DEF Busy, Fail, UploadPutFails, DeleteBytesFails, SqlFails, Crash, Rollback,
              AfterRollback,
              Deleting
<1> QED
  BY <1>1, <1>2, <1>3, <1>4 DEF Step

\* Whoever drives row and bytes apart mends it, logs it, is still at it, or dies.
LEMMA StepMends ==
  ASSUME TypeInv, UploadAlone, DeletedBytes, NEW p \in Requests, Step(p) \/ Fail(p),
         NEW a \in Assets, a = req[p].asset, Mismatch(a)'
  PROVE  \/ a \in logged'
         \/ Dirty(p)' \/ req'[p].result = "crashed"
         \/ Mismatch(a) /\ ~Dirty(p)
<1> USE DEF TypeInv, TypeOK
<1>0. /\ req'[p].op = req[p].op
      /\ \A q \in Requests : req[q] \in Request
  BY StepFrame DEF Fail
<1>1. CASE Upload(p)
  <2>1. CASE UploadInsert(p)
    BY <2>1 DEF UploadInsert, At, Dirty, Deleting, Mismatch
  <2>2. CASE UploadPut(p)
    BY <1>0, <2>2 DEF UploadPut, At, Goto, Dirty, Request
  <2>3. CASE UploadCommit(p)
    BY <2>3 DEF UploadCommit, At, UploadAlone, Uploading, Mismatch
  <2>4. CASE UploadCleanup(p)
    BY <2>4 DEF UploadCleanup, At, UploadAlone, Uploading, Mismatch, LoggedIds
  <2> QED
    BY <1>1, <2>1, <2>2, <2>3, <2>4 DEF Upload
<1>2. CASE Delete(p)
  <2>1. CASE DeleteBytes(p) \/ DeleteRow(p)
    BY <1>0, <2>1 DEF DeleteBytes, DeleteRow, Deleting, Goto, Dirty, Request
  <2>2. CASE DeleteCommit(p)
    BY <2>2 DEF DeleteCommit, DeletedBytes, Mismatch
  <2>3. CASE DeleteLock(p) \/ DeleteAlreadyGone(p) \/ DeleteCheck(p) \/ DeleteInUse(p)
    BY <2>3 DEF DeleteLock, DeleteAlreadyGone, DeleteCheck, DeleteInUse, Deleting, Dirty, Mismatch
  <2> QED
    BY <1>2, <2>1, <2>2, <2>3 DEF Delete
<1>3. CASE Write(p)
  <2>1. UNCHANGED <<row, bytes>> /\ req[p].op # "upload"
        /\ req[p].pc \notin {"forget", "commit"}
    BY <1>3 DEF Write, AttachLock, AttachLockMissing, AttachCheckBytes,
              AttachRefused, OwnerWrite, OwnerCommit, WritesOwner, ReleaseIfOrphaned, At
  <2> QED
    BY <2>1 DEF Mismatch, Dirty
<1>4. CASE Busy(p) \/ Fail(p)
  BY <1>0, <1>4
  DEF Busy, Fail, UploadPutFails, DeleteBytesFails, SqlFails, Crash, Rollback, AfterRollback,
      Deleting, LoggedIds, Request, Goto, Answer, At, Mismatch, Dirty
<1> QED
  BY <1>1, <1>2, <1>3, <1>4 DEF Step

LEMMA StepHonestInv ==
  ASSUME HonestInv, TypeInv', NEW p \in Requests, Step(p) \/ Fail(p)
  PROVE  HonestInv'
<1> USE DEF HonestInv
<1> DEFINE b == req[p].asset
<1>1. /\ \A q \in Requests \ {p} : req'[q] = req[q]
      /\ req'[p].op = req[p].op /\ req'[p].asset = b
  BY StepFrame
<1>2. /\ logged \subseteq logged'
      /\ \A a : a # b => (a \in row' <=> a \in row) /\ (a \in bytes' <=> a \in bytes)
      /\ row' # row =>
           \/ At(p, "upload", "commit") /\ req'[p].pc = "done" /\ row' = row \cup {b}
           \/ Deleting(p) /\ req[p].pc = "commit" /\ row' = row \ {b}
      /\ ~(bytes' \subseteq bytes) => At(p, "upload", "put")
      /\ bytes' # bytes => Deleting(p) \/ req[p].op = "upload"
  BY StepData
<1>3. ASSUME NEW a \in Assets, Referenced(a)', ~Referenced(a)
      PROVE  b = a /\ req[p].op = "attach" /\ req[p].pc = "save"
  <2>1. /\ req[p].op \in {"attach", "detach", "release"} /\ req[p].pc = "save"
        /\ ref' = [ref EXCEPT ![req[p].owner] =
                     IF req[p].op = "attach" THEN req[p].asset ELSE None]
    BY <1>3, StepData DEF Referenced, WritesOwner
  <2> QED
    BY <1>3, <2>1, NoneAssumption, MediaAssumption DEF Referenced, TypeInv, TypeOK
<1>4. /\ req[p].pc \notin {"start", "done"} /\ req'[p].pc # "start"
      /\ req'[p].pc # "done" =>
           \/ req'[p].result \in {"none", req[p].result}
           \/ req'[p].result = "failed" /\ req'[p].pc = "cleanup"
      /\ req'[p].pc = "cleanup" => At(p, "upload", req[p].pc)
      /\ req[p].pc = "cleanup" => req'[p].pc = "done"
      /\ req'[p].result = "crashed" => req'[p].pc = "done" \/ req[p].result = "crashed"
      /\ req'[p].op = "attach" /\ req'[p].pc \in {"available", "write", "save"} =>
           req[p].pc \in {"available", "write", "save"} \/ b \in row
      /\ req[p].op = "upload" /\ req'[p].pc = "commit" => b \in bytes'
      /\ Deleting(p) /\ req'[p].pc \in {"forget", "commit"} =>
           b \notin bytes' \/ req[p].pc \in {"forget", "commit"}
      /\ req[p].op = "delete" /\ req'[p].result = "ok" =>
           \/ req[p].result = "ok"
           \/ b \notin row' /\ (row' = row \/ req[p].pc = "commit")
  BY StepPc
<1>5. \A q \in Requests : Deleting(q) \/ Uploading(q) \/ Knows(q) => req[q].asset \in Assets
  BY DEF TypeInv, Shape, Deleting, Uploading, Knows
<1>6. \A q \in Requests : Knows(q)' => Knows(q) \/ (q = p /\ b \in row)
  BY <1>1, <1>4 DEF Knows, Deleting
<1>7. \A q \in Requests : Uploading(q)' => Uploading(q) /\ (q # p => req'[q] = req[q])
  BY <1>1, <1>4 DEF Uploading
<1>8. \A q \in Requests : req'[q].asset = req[q].asset /\ req'[q].op = req[q].op
  BY <1>1
<1>9. \A q \in Requests : Knows(q) => ~(req[q].asset = b /\ req[p].op = "upload")
  BY <1>4 DEF UploadAlone, Uploading, Knows, Deleting
<1>10. StartClean' /\ Answered'
  BY <1>1, <1>4 DEF StartClean, Answered, At
<1>11. UploadAlone'
  <2> SUFFICES ASSUME NEW q \in Requests, Uploading(q)'
               PROVE  /\ req'[q].asset \notin row' /\ ~\E o \in Owners : ref'[o] = req'[q].asset
                      /\ req'[q].pc = "commit" => req'[q].asset \in bytes'
                      /\ \A r \in Requests \ {q} :
                           Knows(r)' \/ Uploading(r)' => req'[r].asset # req'[q].asset
    BY DEF UploadAlone, Referenced
  <2>1. PICK a \in Assets : a = req[q].asset
    BY <1>5, <1>7
  <2>2. /\ a \notin row /\ ~Referenced(a)
        /\ req[q].pc = "commit" => a \in bytes
        /\ \A r \in Requests \ {q} : Knows(r) \/ Uploading(r) => req[r].asset # a
    BY <1>7, <2>1 DEF UploadAlone
  <2>3. \A r \in Requests \ {q} : Knows(r)' \/ Uploading(r)' => req'[r].asset # a
    BY <1>6, <1>7, <1>8, <2>2
  <2>4. b = a => q = p \/ ~(Deleting(p) \/ req[p].op = "upload")
    BY <1>4, <2>2 DEF Knows, Uploading
  <2>5. a \notin row'
    <3>1. q = p => row' = row
      BY <1>2, <1>4, <1>7 DEF Uploading, Deleting
    <3>2. q # p /\ b = a => row' = row
      BY <1>2, <2>4 DEF At
    <3> QED
      BY <1>2, <2>2, <3>1, <3>2
  <2>6. req'[q].pc = "commit" => a \in bytes'
    <3>1. q # p /\ b = a => bytes' = bytes
      BY <1>2, <2>4
    <3> QED
      BY <1>1, <1>2, <1>4, <1>7, <2>1, <2>2, <3>1 DEF Uploading
  <2>7. ~Referenced(a)'
    <3>1. ~(b = a /\ req[p].op = "attach" /\ req[p].pc = "save")
      BY <1>7, <2>2 DEF Knows, Uploading
    <3> QED
      BY <1>3, <2>2, <3>1
  <2> QED
    BY <1>8, <2>1, <2>3, <2>5, <2>6, <2>7 DEF Referenced
<1>12. RefsAccounted'
  BY <1>2, <1>3, <1>8 DEF RefsAccounted
<1>13. KnownGone'
  <2> SUFFICES ASSUME NEW a \in Assets, a \notin row', a \in bytes',
                      Referenced(a)' \/ \E q \in Requests : Knows(q)' /\ req'[q].asset = a
               PROVE  FALSE
    BY DEF KnownGone
  <2>1. CASE a \in row
    <3>1. Deleting(p) /\ req[p].pc = "commit" /\ b = a
      BY <1>2, <2>1
    <3>2. a \notin bytes /\ bytes' \subseteq bytes
      BY <1>2, <3>1 DEF DeletedBytes, At, Deleting
    <3> QED
      BY <3>2
  <2>2. CASE a \notin row
    <3>1. Referenced(a) \/ \E q \in Requests : Knows(q) /\ req[q].asset = a
      BY <1>3, <1>6, <1>8, <2>2 DEF Knows
    <3>2. a \notin bytes
      BY <2>2, <3>1 DEF KnownGone
    <3>3. b = a /\ req[p].op = "upload"
      BY <1>2, <3>2 DEF At
    <3> QED
      BY <1>4, <1>9, <3>1, <3>3 DEF UploadAlone, Uploading
  <2> QED
    BY <2>1, <2>2
<1>14. ASSUME NEW q \in Requests, Knows(q), q # p, req[q].asset \notin bytes
       PROVE  req[q].asset \notin bytes'
  BY <1>2, <1>9, <1>14 DEF At
<1>15. DeletedBytes'
  <2> SUFFICES ASSUME NEW q \in Requests, Deleting(q)', req'[q].pc \in {"forget", "commit"}
               PROVE  req'[q].asset \notin bytes'
    BY DEF DeletedBytes
  <2>1. CASE q = p
    BY <1>1, <1>2, <1>4, <2>1 DEF DeletedBytes, Deleting, At
  <2>2. CASE q # p
    BY <1>1, <1>14, <2>2 DEF DeletedBytes, Deleting, Knows
  <2> QED
    BY <2>1, <2>2
<1>16. OrphansExcused'
  <2> SUFFICES ASSUME NEW a \in Assets, Mismatch(a)', a \notin logged'
               PROVE  \E q \in Requests : req'[q].asset = a
                                          /\ (Dirty(q)' \/ req'[q].result = "crashed")
    BY DEF OrphansExcused
  <2>1. \/ Mismatch(a) /\ (b = a => ~Dirty(p))
        \/ b = a /\ (Dirty(p)' \/ req'[p].result = "crashed")
    <3>1. CASE b = a
      <4>1. \/ a \in logged'
            \/ Dirty(p)' \/ req'[p].result = "crashed"
            \/ Mismatch(a) /\ ~Dirty(p)
        BY <3>1, StepMends
      <4> QED
        BY <3>1, <4>1
    <3>2. CASE b # a
      BY <1>2, <3>2 DEF Mismatch
    <3> QED
      BY <3>1, <3>2
  <2>2. ASSUME Mismatch(a), b = a => ~Dirty(p)
        PROVE  \E q \in Requests : req'[q].asset = a
                                   /\ (Dirty(q)' \/ req'[q].result = "crashed")
    <3>1. PICK q \in Requests : req[q].asset = a /\ (Dirty(q) \/ req[q].result = "crashed")
      BY <1>2, <2>2 DEF OrphansExcused
    <3>2. q # p
      BY <1>4, <2>2, <3>1 DEF Answered
    <3> QED
      BY <1>1, <3>1, <3>2 DEF Dirty, Deleting
  <2> QED
    BY <1>1, <2>1, <2>2
<1>17. DeletedMeansGone'
  <2> SUFFICES ASSUME NEW q \in Requests, req'[q].op = "delete", req'[q].result = "ok"
               PROVE  req'[q].asset \notin row' \cup bytes'
    BY DEF DeletedMeansGone
  <2>1. Knows(q) /\ req[q].op = "delete"
    BY <1>8 DEF Knows, Deleting
  <2>2. CASE q = p
    <3>1. req[p].result # "ok"
      BY <1>4, <2>1, <2>2 DEF Answered
    <3>2. b \notin row' /\ (row' = row \/ req[p].pc = "commit") /\ bytes' \subseteq bytes
      BY <1>2, <1>4, <2>1, <2>2, <3>1 DEF At
    <3>3. b \notin bytes
      BY <1>5, <2>1, <2>2, <3>2 DEF KnownGone, DeletedBytes, Deleting
    <3> QED
      BY <1>1, <2>2, <3>2, <3>3
  <2>3. CASE q # p
    <3>1. req[q].asset \notin row \cup bytes
      BY <1>1, <2>1, <2>3 DEF DeletedMeansGone
    <3>2. req[q].asset \notin row'
      BY <1>2, <1>9, <2>1, <3>1 DEF At
    <3> QED
      BY <1>8, <1>14, <2>1, <2>3, <3>1, <3>2
  <2> QED
    BY <2>2, <2>3
<1> QED
  BY <1>10, <1>11, <1>12, <1>13, <1>15, <1>16, <1>17

LEMMA NextHonestInv == HonestInv /\ [Next]_vars => HonestInv'
<1> SUFFICES ASSUME HonestInv, [Next]_vars PROVE HonestInv'
  OBVIOUS
<1>1. TypeInv'
  BY NextTypeInv DEF HonestInv
<1>2. ASSUME NEW p \in Requests, Begin(p) \/ Step(p) \/ Fail(p) PROVE HonestInv'
  BY <1>1, <1>2, BeginHonestInv, StepHonestInv
<1>3. CASE UNCHANGED vars
  BY <1>1, <1>3
  DEF HonestInv, vars, StartClean, Answered, UploadAlone, Uploading, Knows, Deleting, Referenced,
      RefsAccounted, KnownGone, DeletedBytes, OrphansExcused, Mismatch, Dirty, DeletedMeansGone
<1> QED
  BY <1>2, <1>3 DEF Next, Quiet

\* On either engine, for any number of requests and whatever fails: a delete
\* that answers success left neither row nor bytes, and an asset with one but
\* not the other is being worked on, was logged, or belongs to a process that
\* died (MediaService::create and ::delete with their compensations).
THEOREM MediaDeletesAreHonest == Spec => []DeletesAreHonest
<1>1. HonestInv => DeletesAreHonest
  BY DEF HonestInv, DeletesAreHonest, NoSilentOrphan, OrphansExcused, Mismatch, Dirty, Deleting
<1> QED
  BY <1>1, InitHonestInv, NextHonestInv, PTL DEF Spec

-----------------------------------------------------------------------------
(***************************************************************************)
(* The gallery leaks nothing.  While no request has failed, an asset that  *)
(* a release let go of is referenced, gone, dropped by a writer that never *)
(* releases it, or some release of it is still to check; the release that  *)
(* removes the last reference checks after its own commit.                 *)
(***************************************************************************)

\* A release that has let go of its asset and not yet decided about it.
Pending(q) ==
  /\ req[q].op = "release"
  /\ req[q].pc \in {"orphaned", "lock", "references", "remove", "forget", "commit"}

DroppedElsewhere(a) ==
  \E q \in Requests : req[q].dropped = a /\ ~(req[q].op = "release" /\ req[q].asset = a)

Released(p) == req[p].op = "release" /\ (Pending(p) \/ req[p].result = "ok")

\* An owner's value is dropped once, by the commit that ends the transaction.
DropsOnce ==
  \A p \in Requests :
    req[p].pc \in {"write", "save"} \/ (req[p].op = "attach" /\ req[p].pc # "done")
      => req[p].dropped = None

SomeReleaseActs ==
  NothingFailed =>
    \A p \in Requests : Released(p) =>
      LET a == req[p].asset
      IN  \/ a \notin row \/ Referenced(a) \/ DroppedElsewhere(a)
          \/ \E q \in Requests : Pending(q) /\ req[q].asset = a

GalleryInv == HonestInv /\ DropsOnce /\ SomeReleaseActs

LEMMA BeginGalleryInv ==
  ASSUME GalleryInv, NEW p \in Requests, Begin(p)
  PROVE  DropsOnce' /\ SomeReleaseActs'
<1> USE DEF GalleryInv, HonestInv
<1>1. /\ \A q \in Requests \ {p} : req'[q] = req[q]
      /\ req[p].pc = "start"
      /\ UNCHANGED <<row, ref>>
      /\ req'[p].dropped = None /\ req'[p].result = "none"
      /\ req'[p].op = "release" => req'[p].pc = "write"
  BY BeginShape
<1>2. DropsOnce'
  BY <1>1 DEF DropsOnce
<1>3. req[p].dropped = None /\ req[p].op = "none" /\ req[p].result = "none"
  BY <1>1 DEF StartClean
<1>4. SomeReleaseActs'
  <2> SUFFICES ASSUME NothingFailed', NEW r \in Requests, Released(r)'
               PROVE  \/ req'[r].asset \notin row' \/ \E o \in Owners : ref'[o] = req'[r].asset
                      \/ \E q \in Requests : req'[q].dropped = req'[r].asset
                           /\ ~(req'[q].op = "release" /\ req'[q].asset = req'[r].asset)
                      \/ \E q \in Requests : Pending(q)' /\ req'[q].asset = req'[r].asset
    BY DEF SomeReleaseActs, Referenced, DroppedElsewhere
  <2>1. r # p /\ req'[r] = req[r] /\ Released(r) /\ NothingFailed
    BY <1>1, <1>3 DEF Released, Pending, NothingFailed
  <2>2. PICK a \in Assets : a = req[r].asset
    BY <2>1 DEF Released, TypeInv, Shape
  <2>3. \/ a \notin row \/ Referenced(a) \/ DroppedElsewhere(a)
        \/ \E q \in Requests : Pending(q) /\ req[q].asset = a
    BY <2>1, <2>2 DEF SomeReleaseActs
  <2>4. DroppedElsewhere(a) =>
          \E q \in Requests : req'[q].dropped = a
                              /\ ~(req'[q].op = "release" /\ req'[q].asset = a)
    BY <1>1, <1>3, NoneAssumption, MediaAssumption DEF DroppedElsewhere
  <2>5. (\E q \in Requests : Pending(q) /\ req[q].asset = a) =>
          \E q \in Requests : Pending(q)' /\ req'[q].asset = a
    BY <1>1, <1>3 DEF Pending
  <2> QED
    BY <1>1, <2>1, <2>2, <2>3, <2>4, <2>5 DEF Referenced
<1> QED
  BY <1>2, <1>4

\* What one step may do to the drops and the releases.
LEMMA StepDrops ==
  ASSUME TypeInv, NEW p \in Requests, Step(p) \/ Fail(p)
  PROVE  \/ /\ WritesOwner(p) /\ req[p].pc = "save"
            /\ req'[p].pc = IF req[p].op = "release" THEN "orphaned" ELSE "done"
            /\ ref' = [ref EXCEPT ![req[p].owner] =
                         IF req[p].op = "attach" THEN req[p].asset ELSE None]
            /\ req'[p].dropped = IF ref[req[p].owner] = IF req[p].op = "attach" THEN req[p].asset ELSE None
                                 THEN None ELSE ref[req[p].owner]
            /\ row' = row
         \/ /\ req'[p].dropped = req[p].dropped /\ UNCHANGED ref
            /\ req'[p].pc = "write" => req[p].op = "attach"
            /\ req'[p].pc = "save" => req[p].pc = "write"
            /\ Pending(p) => \/ Pending(p)' \/ req'[p].result \in {"failed", "crashed"}
                             \/ Referenced(req[p].asset) \/ req[p].asset \notin row'
            /\ req[p].op = "release" /\ ~Pending(p) =>
                 ~Pending(p)' /\ req'[p].result \in {req[p].result, "failed", "crashed"}
<1> USE DEF TypeInv, TypeOK, Request, Goto, Answer, At, Pending, Deleting, WritesOwner
<1>1. CASE Upload(p)
  BY <1>1 DEF Upload, UploadInsert, UploadPut, UploadCommit, UploadCleanup
<1>2. CASE Delete(p)
  BY <1>2 DEF Delete, DeleteLock, DeleteAlreadyGone, DeleteCheck, DeleteInUse,
              DeleteBytes, DeleteRow, DeleteCommit
<1>3. CASE Write(p) /\ ~OwnerCommit(p)
  BY <1>3 DEF Write, AttachLock, AttachLockMissing, AttachCheckBytes,
              AttachRefused, OwnerWrite, ReleaseIfOrphaned
<1>4. CASE OwnerCommit(p)
  BY <1>4 DEF OwnerCommit, AfterSave
<1>5. CASE Busy(p) \/ Fail(p)
  BY <1>5 DEF Busy, Fail, UploadPutFails, DeleteBytesFails, SqlFails, Crash, Rollback,
              AfterRollback
<1> QED
  BY <1>1, <1>2, <1>3, <1>4, <1>5 DEF Step

LEMMA StepGalleryInv ==
  ASSUME GalleryInv, TypeInv', NEW p \in Requests, Step(p) \/ Fail(p)
  PROVE  DropsOnce' /\ SomeReleaseActs'
<1> USE DEF GalleryInv, HonestInv
<1> DEFINE b == req[p].asset
           o == req[p].owner
           new == IF req[p].op = "attach" THEN b ELSE None
<1>1. \A q \in Requests : /\ q # p => req'[q] = req[q]
                          /\ req'[q].op = req[q].op /\ req'[q].asset = req[q].asset
  BY StepFrame
<1>2. /\ \A a : a # b => (a \in row' <=> a \in row)
      /\ row' # row =>
           \/ At(p, "upload", "commit") /\ req'[p].pc = "done" /\ row' = row \cup {b}
           \/ Deleting(p) /\ req[p].pc = "commit" /\ row' = row \ {b}
  BY StepData
<1>3. \/ /\ WritesOwner(p) /\ req[p].pc = "save"
         /\ req'[p].pc = IF req[p].op = "release" THEN "orphaned" ELSE "done"
         /\ ref' = [ref EXCEPT ![o] = new]
         /\ req'[p].dropped = IF ref[o] = new THEN None ELSE ref[o]
         /\ row' = row
      \/ /\ req'[p].dropped = req[p].dropped /\ UNCHANGED ref
         /\ req'[p].pc = "write" => req[p].op = "attach"
         /\ req'[p].pc = "save" => req[p].pc = "write"
         /\ Pending(p) => \/ Pending(p)' \/ req'[p].result \in {"failed", "crashed"}
                          \/ Referenced(req[p].asset) \/ req[p].asset \notin row'
         /\ req[p].op = "release" /\ ~Pending(p) =>
              ~Pending(p)' /\ req'[p].result \in {req[p].result, "failed", "crashed"}
  BY StepDrops
<1>4. /\ req[p].pc \notin {"start", "done"}
      /\ req[p].pc = "cleanup" => req'[p].result \in {"failed", "crashed"}
  BY StepPc
<1>5. DropsOnce'
  BY <1>1, <1>3, <1>4 DEF DropsOnce, WritesOwner
<1>6. SomeReleaseActs'
  <2> SUFFICES ASSUME NothingFailed', NEW r \in Requests, Released(r)'
               PROVE  \/ req'[r].asset \notin row' \/ \E w \in Owners : ref'[w] = req'[r].asset
                      \/ \E q \in Requests : req'[q].dropped = req'[r].asset
                           /\ ~(req'[q].op = "release" /\ req'[q].asset = req'[r].asset)
                      \/ \E q \in Requests : Pending(q)' /\ req'[q].asset = req'[r].asset
    BY DEF SomeReleaseActs, Referenced, DroppedElsewhere
  <2>1. PICK a \in Assets : a = req[r].asset /\ a = req'[r].asset
    BY <1>1 DEF Released, TypeInv, Shape
  <2>2. NothingFailed
    <3>1. req[p].result \notin {"failed", "crashed"}
      BY <1>4 DEF Answered, NothingFailed
    <3> QED
      BY <1>1, <3>1 DEF NothingFailed
  <2> DEFINE Goal == \/ a \notin row' \/ \E w \in Owners : ref'[w] = a
                     \/ \E q \in Requests : req'[q].dropped = a
                          /\ ~(req[q].op = "release" /\ req[q].asset = a)
                     \/ \E q \in Requests : Pending(q)' /\ req[q].asset = a
  <2>3. CASE Pending(r)'
    BY <1>1, <2>1, <2>3
  <2>4. ASSUME ~Pending(r)' PROVE Released(r)
    <3>1. req'[r].result = "ok" /\ req[r].op = "release"
      BY <1>1, <2>4 DEF Released
    <3>2. CASE r # p
      BY <1>1, <3>1, <3>2 DEF Released
    <3>3. CASE r = p
      <4>1. Pending(p) \/ req[p].result = "ok"
        BY <1>1, <1>3, <2>4, <3>1, <3>3 DEF Pending
      <4> QED
        BY <3>1, <3>3, <4>1 DEF Released
    <3> QED
      BY <3>2, <3>3
  <2>5. ASSUME Released(r) PROVE Goal
    <3>1. \/ a \notin row \/ Referenced(a) \/ DroppedElsewhere(a)
          \/ \E q \in Requests : Pending(q) /\ req[q].asset = a
      BY <2>1, <2>2, <2>5 DEF SomeReleaseActs
    <3>2. CASE a \notin row
      <4>1. ~(At(p, "upload", "commit") /\ b = a)
        BY <1>4, <2>1, <2>5 DEF UploadAlone, Uploading, Knows, Deleting, Released, At
      <4> QED
        BY <1>2, <3>2, <4>1
    <3>3. CASE Referenced(a)
      <4>1. PICK w \in Owners : ref[w] = a
        BY <3>3 DEF Referenced
      <4>2. CASE ref' = ref
        BY <4>1, <4>2
      <4>3. CASE ref' # ref
        <5>1. /\ req[p].op = "release" => req'[p].pc = "orphaned"
              /\ ref' = [ref EXCEPT ![o] = new]
              /\ req'[p].dropped = IF ref[o] = new THEN None ELSE ref[o]
          BY <1>3, <4>3
        <5>2. w # o \/ new = a => ref'[w] = a
          BY <4>1, <5>1 DEF TypeInv, TypeOK
        <5>3. w = o /\ new # a => req'[p].dropped = a
          BY <4>1, <5>1
        <5>4. req[p].op = "release" /\ b = a => Pending(p)'
          BY <1>1, <5>1 DEF Pending
        <5> QED
          BY <5>2, <5>3, <5>4
      <4> QED
        BY <4>2, <4>3
    <3>4. CASE DroppedElsewhere(a)
      <4>1. PICK q \in Requests : req[q].dropped = a /\ ~(req[q].op = "release" /\ req[q].asset = a)
        BY <3>4 DEF DroppedElsewhere
      <4>2. req'[q].dropped = a
        <5>1. CASE q # p
          BY <1>1, <4>1, <5>1
        <5>2. CASE q = p
          <6>1. req[p].pc # "save"
            BY <4>1, <5>2, NoneAssumption, MediaAssumption DEF DropsOnce
          <6> QED
            BY <1>3, <4>1, <5>2, <6>1
        <5> QED
          BY <5>1, <5>2
      <4> QED
        BY <4>1, <4>2
    <3>5. CASE \E q \in Requests : Pending(q) /\ req[q].asset = a
      <4>1. PICK q \in Requests : Pending(q) /\ req[q].asset = a
        BY <3>5
      <4>2. CASE q # p
        <5>1. Pending(q)'
          BY <1>1, <4>1, <4>2 DEF Pending
        <5> QED
          BY <4>1, <5>1
      <4>3. CASE q = p
        <5>1. req[p].pc # "save" /\ b = a
          BY <4>1, <4>3 DEF Pending
        <5>2. Pending(p)' \/ req'[p].result \in {"failed", "crashed"} \/ Referenced(a) \/ a \notin row'
          BY <1>3, <4>1, <4>3, <5>1
        <5> QED
          BY <3>3, <4>1, <4>3, <5>2 DEF NothingFailed
      <4> QED
        BY <4>2, <4>3
    <3> QED
      BY <3>1, <3>2, <3>3, <3>4, <3>5
  <2> QED
    BY <1>1, <2>1, <2>3, <2>4, <2>5
<1> QED
  BY <1>5, <1>6

LEMMA NextGalleryInv == GalleryInv /\ [Next]_vars => GalleryInv'
<1> SUFFICES ASSUME GalleryInv, [Next]_vars PROVE GalleryInv'
  OBVIOUS
<1>1. HonestInv' /\ TypeInv'
  BY NextHonestInv DEF GalleryInv, HonestInv
<1>2. ASSUME NEW p \in Requests, Begin(p) \/ Step(p) \/ Fail(p) PROVE GalleryInv'
  BY <1>1, <1>2, BeginGalleryInv, StepGalleryInv DEF GalleryInv
<1>3. CASE UNCHANGED vars
  BY <1>1, <1>3
  DEF GalleryInv, vars, DropsOnce, SomeReleaseActs, NothingFailed, Released, Pending,
      DroppedElsewhere, Referenced
<1> QED
  BY <1>2, <1>3 DEF Next, Quiet

LEMMA InitGalleryInv == Init => GalleryInv
<1> SUFFICES ASSUME Init PROVE GalleryInv
  OBVIOUS
<1>1. DropsOnce /\ SomeReleaseActs
  BY DEF Init, DropsOnce, SomeReleaseActs, Released, Pending
<1> QED
  BY <1>1, InitHonestInv DEF GalleryInv

\* On either engine, and however the last removals of an asset overlap: once
\* every request is answered and none failed, what the gallery let go of is
\* gone, referenced again, or was last dropped by a writer that never releases
\* (releaseIfOrphaned).
THEOREM MediaGalleryLeaksNothing == Spec => []GalleryLeaksNothing
<1>1. GalleryInv => GalleryLeaksNothing
  <2> SUFFICES ASSUME GalleryInv, AllAnswered, NothingFailed, NEW p \in Requests,
                      req[p].op = "release", req[p].result = "ok"
               PROVE  \/ req[p].asset \notin row \/ Referenced(req[p].asset)
                      \/ DroppedElsewhere(req[p].asset)
    BY DEF GalleryLeaksNothing, DroppedElsewhere
  <2>1. \A q \in Requests : ~Pending(q)
    BY DEF AllAnswered, Pending
  <2> QED
    BY <2>1 DEF GalleryInv, SomeReleaseActs, Released
<1> QED
  BY <1>1, InitGalleryInv, NextGalleryInv, PTL DEF Spec

-----------------------------------------------------------------------------
(***************************************************************************)
(* The sample dataset.  The manifest that lies in the directory is one     *)
(* that some version's build wrote, and a generator that was not disturbed *)
(* has written what it no longer has to.                                   *)
(***************************************************************************)
Documents == {LibraryDocument, Malformed}
AllBytes == [Photos -> PhotoVersions]
ManifestOf(b, pictures, document) ==
  LET assets == datasetAssetRecords(b.dataset, pictures, document)
  IN  [keyOrder |-> b.names, members |-> b.dataset, datasetSha256 |-> b.dataset, assets |-> assets, schema |-> b.names]

FilesAreTyped ==
  /\ source \in Builds /\ photo \in AllBytes /\ dir = [p \in Paths |-> dir[p]]
  /\ dir[DEMO_LIBRARY_ASSET_FILE] \in Documents \union {Absent} /\ damages \in 0..MaxDamages
ManifestKnown ==
  Readable(DATASET_MANIFEST_FILE) =>
    \E b \in Builds, pictures \in AllBytes, document \in Documents :
      HasByteSource(b.dataset) /\ manifest = ManifestOf(b, pictures, document)
\* What is written so far, of the build of this source.
Progresses(pictures, document, todo, disturbed) ==
  LET build == buildDatasetArtifact(source, pictures, document)
  IN  /\ todo \subseteq Paths /\ disturbed \in BOOLEAN /\ HasByteSource(source.dataset)
      /\ writing = [to |-> build, left |-> todo, disturbed |-> disturbed]
      /\ \A p \in Paths \ todo : dir[p] \in {Absent, Malformed} \/ (p \in DOMAIN build /\ dir[p] = build[p])
      /\ ~disturbed => /\ pictures = photo /\ document = dir[DEMO_LIBRARY_ASSET_FILE]
                       /\ \A p \in Paths \ todo : dir[p] = IF p \in DOMAIN build THEN build[p] ELSE Absent
WritingKnown ==
  \/ writing = NotWriting
  \/ /\ lastRun = NoReport
     /\ \E pictures \in AllBytes, document \in Documents, todo \in SUBSET Paths, disturbed \in BOOLEAN :
          Progresses(pictures, document, todo, disturbed)
ReportKnown == lastRun.is \in {"none", "threw", "written"} /\ GeneratorTellsTheTruth
ArtifactInv == FilesAreTyped /\ ManifestKnown /\ WritingKnown /\ ReportKnown

-----------------------------------------------------------------------------
(* What a build is.                                                        *)

LEMMA NamesApart ==
  /\ \A b \in Builds : b.names \subseteq MemberNames /\ b.names = DOMAIN b.dataset /\ "media" \in b.names
                       /\ LibraryDocument \in b.dataset.media
  /\ \A n \in MemberNames : /\ n # DATASET_MANIFEST_FILE /\ n # DATASET_ASSET_LIST_FILE
                            /\ n # DEMO_LIBRARY_ASSET_FILE /\ n # DATASET_SCHEMA_FILE /\ n # FormerAsset
  BY ArtifactAssumption, FilesAssumption DEF ArtifactAssumption, FilesAssumption, MemberNames

LEMMA FilesApart ==
  /\ DATASET_MANIFEST_FILE # DATASET_ASSET_LIST_FILE /\ DATASET_MANIFEST_FILE # DEMO_LIBRARY_ASSET_FILE
  /\ DATASET_MANIFEST_FILE # DATASET_SCHEMA_FILE /\ DATASET_MANIFEST_FILE # FormerAsset
  /\ DATASET_ASSET_LIST_FILE # DEMO_LIBRARY_ASSET_FILE /\ DATASET_ASSET_LIST_FILE # DATASET_SCHEMA_FILE
  /\ DATASET_ASSET_LIST_FILE # FormerAsset /\ DEMO_LIBRARY_ASSET_FILE # DATASET_SCHEMA_FILE
  /\ DEMO_LIBRARY_ASSET_FILE # FormerAsset /\ DATASET_SCHEMA_FILE # FormerAsset
  BY DEF DATASET_MANIFEST_FILE, DATASET_ASSET_LIST_FILE, DEMO_LIBRARY_ASSET_FILE, DATASET_SCHEMA_FILE, FormerAsset

LEMMA BuildHolds ==
  ASSUME NEW b \in Builds, NEW pictures, NEW document
  PROVE  LET build == buildDatasetArtifact(b, pictures, document)
         IN  /\ DOMAIN build = b.names \union {DATASET_MANIFEST_FILE, DATASET_ASSET_LIST_FILE, DEMO_LIBRARY_ASSET_FILE,
                                              DATASET_SCHEMA_FILE}
             /\ DOMAIN build \subseteq Paths
             /\ \A n \in b.names : build[n] = b.dataset[n]
             /\ build[DEMO_LIBRARY_ASSET_FILE] = document
             /\ build[DATASET_ASSET_LIST_FILE] = datasetAssetRecords(b.dataset, pictures, document)
             /\ build[DATASET_SCHEMA_FILE] = b.names
             /\ build[DATASET_MANIFEST_FILE] = ManifestOf(b, pictures, document)
<1> DEFINE build == buildDatasetArtifact(b, pictures, document)
           D == Paths \ ({FormerAsset} \union (MemberNames \ b.names))
<1>1. D = b.names \union {DATASET_MANIFEST_FILE, DATASET_ASSET_LIST_FILE, DEMO_LIBRARY_ASSET_FILE, DATASET_SCHEMA_FILE}
  BY NamesApart, FilesApart DEF Paths
<1>2. build = [p \in D |->
            IF p \in b.names THEN b.dataset[p]
            ELSE CASE p = DEMO_LIBRARY_ASSET_FILE -> document
                   [] p = DATASET_ASSET_LIST_FILE -> datasetAssetRecords(b.dataset, pictures, document)
                   [] p = DATASET_SCHEMA_FILE -> b.names [] p = DATASET_MANIFEST_FILE -> ManifestOf(b, pictures, document)]
  BY DEF buildDatasetArtifact, ManifestOf
<1>3. /\ DATASET_MANIFEST_FILE \notin b.names /\ DATASET_ASSET_LIST_FILE \notin b.names
      /\ DEMO_LIBRARY_ASSET_FILE \notin b.names /\ DATASET_SCHEMA_FILE \notin b.names
  BY NamesApart
<1> HIDE DEF build, D
<1>4. build[DEMO_LIBRARY_ASSET_FILE] = document
  BY <1>1, <1>2, <1>3, FilesApart
<1>5. build[DATASET_ASSET_LIST_FILE] = datasetAssetRecords(b.dataset, pictures, document)
  BY <1>1, <1>2, <1>3, FilesApart
<1>6. build[DATASET_SCHEMA_FILE] = b.names
  BY <1>1, <1>2, <1>3, FilesApart
<1>7. build[DATASET_MANIFEST_FILE] = ManifestOf(b, pictures, document)
  BY <1>1, <1>2, <1>3, FilesApart
<1>8. DOMAIN build = D /\ \A n \in b.names : build[n] = b.dataset[n]
  BY <1>1, <1>2
<1>9. D \subseteq Paths
  BY DEF D
<1> QED
  BY <1>1, <1>4, <1>5, <1>6, <1>7, <1>8, <1>9 DEF build

\* What a build writes is there and can be read.
LEMMA BuildIsReadable ==
  ASSUME NEW b \in Builds, HasByteSource(b.dataset), NEW pictures \in AllBytes, NEW document \in Documents,
         NEW p \in DOMAIN buildDatasetArtifact(b, pictures, document), p # DEMO_LIBRARY_ASSET_FILE
  PROVE  buildDatasetArtifact(b, pictures, document)[p] \notin {Absent, Malformed}
  BY FilesAssumption DEF FilesAssumption, AllBytes, Documents
-----------------------------------------------------------------------------
(* When the validator reports nothing.                                     *)

MembersPass ==
  /\ \A q \in MemberNames \ manifest.keyOrder : ~Exists(q)
  /\ manifest.keyOrder = source.names
  /\ \A n \in manifest.keyOrder : Readable(n) /\ dir[n] = manifest.members[n]
AssetsPass ==
  /\ Readable(DATASET_ASSET_LIST_FILE) /\ Listed = manifest.assets /\ ~Exists(FormerAsset)
  /\ \A a \in Listed : Bytes(a) # Absent /\ Bytes(a) = a.sha256
  /\ Rebuilt => dir["media"] = {a.id : a \in Listed}
SchemaPasses ==
  /\ Readable(DATASET_SCHEMA_FILE)
  /\ dir[DATASET_SCHEMA_FILE] = manifest.schema /\ dir[DATASET_SCHEMA_FILE] = manifest.keyOrder
DatasetPasses ==
  /\ Loads /\ loadDatasetArtifact = manifest.datasetSha256
  /\ Rebuilt => Coherent(loadDatasetArtifact)

LEMMA NoIssue == ASSUME NEW S, NEW c PROVE {<<c, p>> : p \in S} = {} <=> S = {}
  OBVIOUS

LEMMA MembersReported == (validateFileSet = {} /\ validateMembers = {}) <=> MembersPass
<1> DEFINE A == {q \in MemberNames \ manifest.keyOrder : Exists(q)}
           B == manifest.keyOrder \ source.names
           C == source.names \ manifest.keyOrder
           D == {m \in manifest.keyOrder : ~Exists(m)}
           E == {m \in manifest.keyOrder : dir[m] = Malformed}
           F == {m \in manifest.keyOrder : Exists(m) /\ dir[m] # manifest.members[m]}
<1>1. validateFileSet = {} <=> A = {}
  <2> HIDE DEF A
  <2>1. validateFileSet = {<<"UNEXPECTED_ARTIFACT_FILE", p>> : p \in A}
    BY DEF validateFileSet, A
  <2>2. {<<"UNEXPECTED_ARTIFACT_FILE", p>> : p \in A} = {} <=> A = {}
    BY NoIssue
  <2> QED
    BY <2>1, <2>2
<1>2. validateMembers = {} <=> B = {} /\ C = {} /\ D = {} /\ E = {} /\ F = {}
  <2>1. validateMembers = {<<"UNEXPECTED_MEMBER", n>> : n \in B} \union {<<"MEMBER_MISSING", n>> : n \in C}
                          \union {<<"MEMBER_FILE_MISSING", n>> : n \in D}
                          \union {<<"MEMBER_MALFORMED", n>> : n \in E}
                          \union {<<"MEMBER_HASH_MISMATCH", n>> : n \in F}
    BY Zenon DEF validateMembers
  <2> HIDE DEF B, C, D, E, F
  <2>2. /\ {<<"UNEXPECTED_MEMBER", n>> : n \in B} = {} <=> B = {}
        /\ {<<"MEMBER_MISSING", n>> : n \in C} = {} <=> C = {}
        /\ {<<"MEMBER_FILE_MISSING", n>> : n \in D} = {} <=> D = {}
        /\ {<<"MEMBER_MALFORMED", n>> : n \in E} = {} <=> E = {}
        /\ {<<"MEMBER_HASH_MISMATCH", n>> : n \in F} = {} <=> F = {}
    BY NoIssue
  <2>3. \A v, w, x, y, z : v \union w \union x \union y \union z = {} <=> v = {} /\ w = {} /\ x = {} /\ y = {} /\ z = {}
    OBVIOUS
  <2> QED
    BY <2>1, <2>2, <2>3, Zenon
<1>3. B = {} /\ C = {} <=> manifest.keyOrder = source.names
  OBVIOUS
<1>4. A = {} <=> \A q \in MemberNames \ manifest.keyOrder : ~Exists(q)
  OBVIOUS
<1>5. D = {} /\ E = {} /\ F = {} <=> \A n \in manifest.keyOrder : Readable(n) /\ dir[n] = manifest.members[n]
  BY DEF Readable
<1> HIDE DEF A, B, C, D, E, F
<1> QED
  BY <1>1, <1>2, <1>3, <1>4, <1>5 DEF MembersPass

LEMMA AssetsReported == validateAssetList = {} <=> AssetsPass
<1>1. CASE ~Readable(DATASET_ASSET_LIST_FILE)
  BY <1>1 DEF validateAssetList, AssetsPass
<1>2. CASE Readable(DATASET_ASSET_LIST_FILE)
  <2> DEFINE A == {q \in {DATASET_ASSET_LIST_FILE} : Listed # manifest.assets}
             B == {b \in Listed : Bytes(b) = Absent}
             C == {b \in Listed : Bytes(b) \notin {Absent, b.sha256}}
             D == {q \in {FormerAsset} : Exists(q)}
             E == dir["media"] \ {a.id : a \in Listed}
             F == {a.id : a \in Listed} \ dir["media"]
             last == IF ~Rebuilt THEN {} ELSE {<<"ASSET_MISSING_FOR_MEDIA", m>> : m \in E}
                                              \union {<<"ASSET_ORPHANED", m>> : m \in F}
             missing == {<<"ASSET_MISSING", a.id>> : a \in B}
             changed == {<<"ASSET_HASH_MISMATCH", a.id>> : a \in C}
  <2>1. validateAssetList = {<<"ASSET_LIST_HASH_MISMATCH", p>> : p \in A} \union missing \union changed
                            \union {<<"UNEXPECTED_ASSET_FILE", p>> : p \in D} \union last
    BY <1>2, Zenon DEF validateAssetList
  <2>2. missing = {} <=> B = {}
    OBVIOUS
  <2>3. changed = {} <=> C = {}
    OBVIOUS
  <2>4. A = {} <=> Listed = manifest.assets
    OBVIOUS
  <2>5. B = {} /\ C = {} <=> \A a \in Listed : Bytes(a) # Absent /\ Bytes(a) = a.sha256
    OBVIOUS
  <2>6. D = {} <=> ~Exists(FormerAsset)
    OBVIOUS
  <2>7. last = {} <=> (Rebuilt => E = {} /\ F = {})
    <3> HIDE DEF E, F
    <3>1. {<<"ASSET_MISSING_FOR_MEDIA", m>> : m \in E} = {} <=> E = {}
      BY NoIssue
    <3>2. {<<"ASSET_ORPHANED", m>> : m \in F} = {} <=> F = {}
      BY NoIssue
    <3> QED
      BY <3>1, <3>2
  <2>8. E = {} /\ F = {} <=> dir["media"] = {a.id : a \in Listed}
    OBVIOUS
  <2> HIDE DEF A, B, C, D, E, F, last, missing, changed
  <2>9. /\ {<<"ASSET_LIST_HASH_MISMATCH", p>> : p \in A} = {} <=> A = {}
        /\ {<<"UNEXPECTED_ASSET_FILE", p>> : p \in D} = {} <=> D = {}
    BY NoIssue
  <2>10. \A v, w, x, y, z : v \union w \union x \union y \union z = {} <=> v = {} /\ w = {} /\ x = {} /\ y = {} /\ z = {}
    OBVIOUS
  <2>11. validateAssetList = {} <=> A = {} /\ B = {} /\ C = {} /\ D = {} /\ (Rebuilt => E = {} /\ F = {})
    BY <2>1, <2>2, <2>3, <2>7, <2>9, <2>10, Zenon
  <2> QED
    BY <1>2, <2>4, <2>5, <2>6, <2>8, <2>11 DEF AssetsPass
<1> QED
  BY <1>1, <1>2

LEMMA SchemaReported == validateSchemaDocument = {} <=> SchemaPasses
<1>1. CASE ~Readable(DATASET_SCHEMA_FILE)
  BY <1>1 DEF validateSchemaDocument, SchemaPasses
<1>2. CASE Readable(DATASET_SCHEMA_FILE)
  <2> DEFINE A == IF dir[DATASET_SCHEMA_FILE] # manifest.schema THEN {"SCHEMA_FILE_HASH_MISMATCH"} ELSE {}
             B == IF dir[DATASET_SCHEMA_FILE] # manifest.keyOrder THEN {"SCHEMA_FILE_DRIFT"} ELSE {}
  <2>1. validateSchemaDocument = {<<code, DATASET_SCHEMA_FILE>> : code \in A \union B}
    BY <1>2, Zenon DEF validateSchemaDocument
  <2>2. A \union B = {} <=> dir[DATASET_SCHEMA_FILE] = manifest.schema /\ dir[DATASET_SCHEMA_FILE] = manifest.keyOrder
    OBVIOUS
  <2> HIDE DEF A, B
  <2>3. validateSchemaDocument = {} <=> A \union B = {}
    BY <2>1
  <2> QED
    BY <1>2, <2>2, <2>3 DEF SchemaPasses
<1> QED
  BY <1>1, <1>2

LEMMA IssuesReported ==
  validateDatasetArtifact = {}
    <=> Readable(DATASET_MANIFEST_FILE) /\ MembersPass /\ AssetsPass /\ SchemaPasses /\ DatasetPasses
<1>1. CASE ~Readable(DATASET_MANIFEST_FILE)
  BY <1>1 DEF validateDatasetArtifact
<1>2. CASE Readable(DATASET_MANIFEST_FILE)
  <2> DEFINE A == {q \in {DATASET_MANIFEST_FILE} : ~Loads}
             B == {q \in {DATASET_MANIFEST_FILE} : Loads /\ loadDatasetArtifact # manifest.datasetSha256}
             C == {q \in {DATASET_MANIFEST_FILE} : Rebuilt /\ ~Coherent(loadDatasetArtifact)}
  <2>1. validateDatasetArtifact = validateFileSet \union validateMembers \union validateAssetList
                                  \union validateSchemaDocument \union {<<"DATASET_LOAD_FAILED", p>> : p \in A}
                                  \union {<<"DATASET_HASH_MISMATCH", p>> : p \in B} \union {<<"INTEGRITY", p>> : p \in C}
    BY <1>2, Zenon DEF validateDatasetArtifact
  <2>2. A = {} /\ B = {} /\ C = {} <=> DatasetPasses
    BY DEF DatasetPasses
  <2> HIDE DEF A, B, C
  <2>3. /\ {<<"DATASET_LOAD_FAILED", p>> : p \in A} = {} <=> A = {}
        /\ {<<"DATASET_HASH_MISMATCH", p>> : p \in B} = {} <=> B = {}
        /\ {<<"INTEGRITY", p>> : p \in C} = {} <=> C = {}
    BY NoIssue
  <2>4. \A t, u, v, w, x, y, z : t \union u \union v \union w \union x \union y \union z = {}
                                <=> t = {} /\ u = {} /\ v = {} /\ w = {} /\ x = {} /\ y = {} /\ z = {}
    OBVIOUS
  <2>5. validateDatasetArtifact = {} <=> /\ validateFileSet = {} /\ validateMembers = {} /\ validateAssetList = {}
                                         /\ validateSchemaDocument = {} /\ A = {} /\ B = {} /\ C = {}
    BY <2>1, <2>3, <2>4, Zenon
  <2> QED
    BY <1>2, <2>2, <2>5, MembersReported, AssetsReported, SchemaReported
<1> QED
  BY <1>1, <1>2

-----------------------------------------------------------------------------
(* What is accepted is what a generator writes.                            *)

Whole(b) ==
  /\ b.coherent /\ b.names = source.names /\ HasByteSource(b.dataset)
  /\ Exists(DEMO_LIBRARY_ASSET_FILE) /\ dir = Complete(b, dir[DEMO_LIBRARY_ASSET_FILE])

\* The records of a dataset depend on its own photos only.
LEMMA RecordsOf ==
  ASSUME NEW dataset, NEW pictures, NEW document
  PROVE  LET records == datasetAssetRecords(dataset, pictures, document)
         IN  /\ {a.id : a \in records} = dataset.media
             /\ \A a \in records : /\ a.id \in dataset.media
                                   /\ a.location = "file" <=> a.id = LibraryDocument
                                   /\ a.sha256 = IF a.id = LibraryDocument THEN document ELSE pictures[a.id]
             /\ \A m \in dataset.media : \E a \in records : a.id = m
<1> DEFINE record(m) == [id |-> m, location |-> IF m = LibraryDocument THEN "file" ELSE "sourcePath",
                         sha256 |-> IF m = LibraryDocument THEN document ELSE pictures[m]]
           records == datasetAssetRecords(dataset, pictures, document)
<1>1. records = {record(m) : m \in dataset.media}
  BY DEF datasetAssetRecords
<1>2. \A m : /\ record(m).id = m /\ (record(m).location = "file" <=> m = LibraryDocument)
             /\ record(m).sha256 = IF m = LibraryDocument THEN document ELSE pictures[m]
  OBVIOUS
<1> HIDE DEF record, records
<1>3. \A a \in records : \E m \in dataset.media : a = record(m)
  BY <1>1
<1>4. \A m \in dataset.media : record(m) \in records
  BY <1>1
<1>5. \A a \in records : /\ a.id \in dataset.media /\ (a.location = "file" <=> a.id = LibraryDocument)
                         /\ a.sha256 = IF a.id = LibraryDocument THEN document ELSE pictures[a.id]
  BY <1>2, <1>3
<1>6. \A m \in dataset.media : \E a \in records : a.id = m
  BY <1>2, <1>4
<1>7. {a.id : a \in records} = dataset.media
  BY <1>5, <1>6
<1> QED
  BY <1>5, <1>6, <1>7 DEF records

LEMMA SameRecords ==
  ASSUME NEW dataset, NEW pictures, NEW other, NEW document,
         \A m \in dataset.media : m # LibraryDocument => pictures[m] = other[m]
  PROVE  datasetAssetRecords(dataset, pictures, document) = datasetAssetRecords(dataset, other, document)
<1> DEFINE record(f, m) == [id |-> m, location |-> IF m = LibraryDocument THEN "file" ELSE "sourcePath",
                            sha256 |-> IF m = LibraryDocument THEN document ELSE f[m]]
<1>1. \A m \in dataset.media : record(pictures, m) = record(other, m)
  OBVIOUS
<1>2. /\ datasetAssetRecords(dataset, pictures, document) = {record(pictures, m) : m \in dataset.media}
      /\ datasetAssetRecords(dataset, other, document) = {record(other, m) : m \in dataset.media}
  BY DEF datasetAssetRecords
<1> HIDE DEF record
<1> QED
  BY <1>1, <1>2

LEMMA CompleteHolds ==
  ASSUME NEW b \in Builds, NEW document
  PROVE  LET files == Complete(b, document)
         IN  /\ files = [p \in Paths |-> files[p]]
             /\ \A n \in b.names : files[n] = b.dataset[n]
             /\ files[DEMO_LIBRARY_ASSET_FILE] = document
             /\ files[DATASET_ASSET_LIST_FILE] = datasetAssetRecords(b.dataset, photo, document)
             /\ files[DATASET_SCHEMA_FILE] = b.names
             /\ files[DATASET_MANIFEST_FILE] = ManifestOf(b, photo, document)
             /\ files[FormerAsset] = Absent
             /\ \A n \in MemberNames \ b.names : files[n] = Absent
<1> DEFINE build == buildDatasetArtifact(b, photo, document)
           files == Complete(b, document)
<1>1. files = [p \in Paths |-> IF p \in DOMAIN build THEN build[p] ELSE Absent]
  BY DEF Complete
<1>2. /\ DOMAIN build = b.names \union {DATASET_MANIFEST_FILE, DATASET_ASSET_LIST_FILE, DEMO_LIBRARY_ASSET_FILE,
                                        DATASET_SCHEMA_FILE}
      /\ DOMAIN build \subseteq Paths
      /\ \A n \in b.names : build[n] = b.dataset[n]
      /\ build[DEMO_LIBRARY_ASSET_FILE] = document
      /\ build[DATASET_ASSET_LIST_FILE] = datasetAssetRecords(b.dataset, photo, document)
      /\ build[DATASET_SCHEMA_FILE] = b.names
      /\ build[DATASET_MANIFEST_FILE] = ManifestOf(b, photo, document)
  BY BuildHolds
<1>3. FormerAsset \in Paths /\ MemberNames \subseteq Paths
  BY DEF Paths
<1>4. FormerAsset \notin DOMAIN build /\ \A n \in MemberNames \ b.names : n \notin DOMAIN build
  BY <1>2, NamesApart, FilesApart
<1> HIDE DEF build, files
<1>5. \A p \in DOMAIN build : files[p] = build[p]
  BY <1>1, <1>2
<1>6. \A p \in Paths \ DOMAIN build : files[p] = Absent
  BY <1>1
<1> QED
  BY <1>1, <1>2, <1>3, <1>4, <1>5, <1>6 DEF files

LEMMA WholeIsAccepted ==
  ASSUME FilesAreTyped, NEW b \in Builds, Whole(b)
  PROVE  validateDatasetArtifact = {}
<1> DEFINE document == dir[DEMO_LIBRARY_ASSET_FILE]
<1>1. /\ b.coherent /\ b.names = source.names /\ HasByteSource(b.dataset) /\ document # Absent
      /\ dir = Complete(b, document) /\ document \in Documents /\ photo \in AllBytes
  BY DEF Whole, FilesAreTyped, Exists
<1>2. /\ \A n \in b.names : dir[n] = b.dataset[n]
      /\ Listed = datasetAssetRecords(b.dataset, photo, document)
      /\ dir[DATASET_SCHEMA_FILE] = b.names /\ manifest = ManifestOf(b, photo, document)
      /\ dir[FormerAsset] = Absent /\ \A n \in MemberNames \ b.names : dir[n] = Absent
  <2> HIDE DEF document
  <2> QED
    BY <1>1, CompleteHolds DEF manifest, Listed
<1>3. \A p \in b.names \union {DATASET_MANIFEST_FILE, DATASET_ASSET_LIST_FILE, DATASET_SCHEMA_FILE} : Readable(p)
  <2> HIDE DEF document
  <2> DEFINE build == buildDatasetArtifact(b, photo, document)
  <2>1. /\ DOMAIN build = b.names \union {DATASET_MANIFEST_FILE, DATASET_ASSET_LIST_FILE, DEMO_LIBRARY_ASSET_FILE,
                                          DATASET_SCHEMA_FILE}
        /\ DOMAIN build \subseteq Paths
        /\ \A n \in b.names : build[n] = b.dataset[n]
        /\ build[DEMO_LIBRARY_ASSET_FILE] = document
        /\ build[DATASET_ASSET_LIST_FILE] = datasetAssetRecords(b.dataset, photo, document)
        /\ build[DATASET_SCHEMA_FILE] = b.names
        /\ build[DATASET_MANIFEST_FILE] = ManifestOf(b, photo, document)
    BY BuildHolds
  <2>2. \A p \in DOMAIN build : p # DEMO_LIBRARY_ASSET_FILE => build[p] \notin {Absent, Malformed}
    BY <1>1, BuildIsReadable
  <2>3. \A n \in b.names : n # DEMO_LIBRARY_ASSET_FILE
    BY NamesApart
  <2> HIDE DEF build
  <2>4. \A p \in b.names \union {DATASET_MANIFEST_FILE, DATASET_ASSET_LIST_FILE, DATASET_SCHEMA_FILE} :
          dir[p] = build[p] /\ p \in DOMAIN build /\ p # DEMO_LIBRARY_ASSET_FILE
    BY <1>2, <2>1, <2>3, FilesApart DEF manifest, Listed
  <2> QED
    BY <2>2, <2>4 DEF Readable, Exists
<1>4. /\ manifest.keyOrder = b.names /\ manifest.members = b.dataset /\ manifest.datasetSha256 = b.dataset
      /\ manifest.assets = datasetAssetRecords(b.dataset, photo, document) /\ manifest.schema = b.names
  BY <1>2 DEF ManifestOf
<1> HIDE DEF document
<1>5. b.names \subseteq MemberNames /\ b.names = DOMAIN b.dataset /\ "media" \in b.names
  BY NamesApart
<1>6. Loads /\ loadDatasetArtifact = b.dataset
  <2>1. loadDatasetArtifact = [n \in b.names |-> b.dataset[n]]
    BY <1>2, <1>4 DEF loadDatasetArtifact
  <2>2. b.dataset = [n \in DOMAIN b.dataset |-> b.dataset[n]]
    BY <1>5, ArtifactAssumption DEF ArtifactAssumption
  <2> QED
    BY <1>3, <1>4, <1>5, <2>1, <2>2 DEF Loads
<1>7. MembersPass
  BY <1>1, <1>2, <1>3, <1>4 DEF MembersPass, Exists
<1>8. AssetsPass
  <2>1. \A a \in Listed : Bytes(a) = a.sha256 /\ a.sha256 # Absent
    <3> TAKE a \in Listed
    <3>1. /\ a.id \in b.dataset.media /\ (a.location = "file" <=> a.id = LibraryDocument)
          /\ a.sha256 = IF a.id = LibraryDocument THEN document ELSE photo[a.id]
      BY <1>2, RecordsOf
    <3>2. Bytes(a) = IF a.location = "file" THEN document ELSE photo[a.id]
      BY DEF Bytes, document
    <3>3. a.id # LibraryDocument => photo[a.id] # Absent
      BY <1>1, <3>1, FilesAssumption DEF HasByteSource, AllBytes, FilesAssumption
    <3> QED
      BY <1>1, <3>1, <3>2, <3>3
  <2>2. dir["media"] = {a.id : a \in Listed}
    <3>1. b.dataset["media"] = b.dataset.media
      OBVIOUS
    <3>2. {a.id : a \in Listed} = b.dataset.media
      BY <1>2, RecordsOf
    <3> QED
      BY <1>2, <1>5, <3>1, <3>2
  <2> QED
    BY <1>2, <1>3, <1>4, <2>1, <2>2 DEF AssetsPass, Exists
<1>9. SchemaPasses
  BY <1>2, <1>3, <1>4 DEF SchemaPasses
<1>10. DatasetPasses
  BY <1>1, <1>4, <1>6 DEF DatasetPasses, Coherent
<1> QED
  BY <1>3, <1>7, <1>8, <1>9, <1>10, IssuesReported

LEMMA AcceptedIsWhole ==
  ASSUME FilesAreTyped, ManifestKnown, validateDatasetArtifact = {}
  PROVE  \E b \in Builds : Whole(b)
<1> DEFINE document == dir[DEMO_LIBRARY_ASSET_FILE]
<1>1. Readable(DATASET_MANIFEST_FILE) /\ MembersPass /\ AssetsPass /\ SchemaPasses /\ DatasetPasses
  BY IssuesReported
<1>2. PICK c \in Builds, pictures \in AllBytes, doc \in Documents :
        HasByteSource(c.dataset) /\ manifest = ManifestOf(c, pictures, doc)
  BY <1>1 DEF ManifestKnown
<1>3. /\ manifest.keyOrder = c.names /\ manifest.members = c.dataset /\ manifest.datasetSha256 = c.dataset
      /\ manifest.assets = datasetAssetRecords(c.dataset, pictures, doc) /\ manifest.schema = c.names
  BY <1>2 DEF ManifestOf
<1>4. c.names \subseteq MemberNames /\ c.names = DOMAIN c.dataset /\ "media" \in c.names /\ LibraryDocument \in c.dataset.media
  BY NamesApart
<1>5. c.names = source.names /\ loadDatasetArtifact = c.dataset /\ Rebuilt
  BY <1>1, <1>3, <1>4 DEF MembersPass, DatasetPasses, Rebuilt
<1>6. PICK b \in Builds : b.dataset = c.dataset /\ b.coherent
  BY <1>1, <1>5 DEF DatasetPasses, Coherent
<1>7. b.names = c.names
  BY <1>4, <1>6, NamesApart
<1>8. Listed = datasetAssetRecords(b.dataset, pictures, doc) /\ \A a \in Listed : Bytes(a) # Absent /\ Bytes(a) = a.sha256
  BY <1>1, <1>3, <1>6 DEF AssetsPass
<1>9. document # Absent /\ document = doc
  <2>1. PICK a \in Listed : a.id = LibraryDocument
    BY <1>4, <1>6, <1>8, RecordsOf
  <2>2. a.location = "file" /\ a.sha256 = doc
    BY <1>8, <2>1, RecordsOf
  <2> QED
    BY <1>8, <2>1, <2>2 DEF Bytes
<1>10. \A m \in b.dataset.media : m # LibraryDocument => pictures[m] = photo[m]
  <2> TAKE m \in b.dataset.media
  <2> HAVE m # LibraryDocument
  <2>1. PICK a \in Listed : a.id = m
    BY <1>8, RecordsOf
  <2>2. a.location # "file" /\ a.sha256 = pictures[m]
    BY <1>8, <2>1, RecordsOf
  <2> QED
    BY <1>8, <2>1, <2>2 DEF Bytes
<1> HIDE DEF document
<1>11. Listed = datasetAssetRecords(b.dataset, photo, document)
  BY <1>8, <1>9, <1>10, SameRecords
<1>12. manifest = ManifestOf(b, photo, document)
  <2>1. datasetAssetRecords(b.dataset, pictures, doc) = datasetAssetRecords(b.dataset, photo, document)
    BY <1>8, <1>11
  <2> QED
    BY <1>2, <1>6, <1>7, <2>1 DEF ManifestOf
<1>13. dir = Complete(b, document)
  <2> DEFINE files == Complete(b, document)
  <2>1. files = [p \in Paths |-> files[p]] /\ dir = [p \in Paths |-> dir[p]]
    BY CompleteHolds DEF FilesAreTyped
  <2>2. \A n \in b.names : dir[n] = files[n]
    BY <1>1, <1>3, <1>6, <1>7, CompleteHolds DEF MembersPass
  <2>3. \A n \in MemberNames \ b.names : dir[n] = files[n]
    BY <1>1, <1>3, <1>7, CompleteHolds DEF MembersPass, Exists
  <2>4. dir[FormerAsset] = files[FormerAsset]
    BY <1>1, CompleteHolds DEF AssetsPass, Exists
  <2>5. dir[DATASET_MANIFEST_FILE] = files[DATASET_MANIFEST_FILE]
    BY <1>12, CompleteHolds DEF manifest
  <2>6. dir[DATASET_ASSET_LIST_FILE] = files[DATASET_ASSET_LIST_FILE]
    BY <1>11, CompleteHolds DEF Listed
  <2>7. dir[DATASET_SCHEMA_FILE] = files[DATASET_SCHEMA_FILE]
    BY <1>1, <1>3, <1>7, CompleteHolds DEF SchemaPasses
  <2>8. dir[DEMO_LIBRARY_ASSET_FILE] = files[DEMO_LIBRARY_ASSET_FILE]
    BY CompleteHolds DEF document
  <2> HIDE DEF files
  <2>9. \A p \in Paths : dir[p] = files[p]
    BY <2>2, <2>3, <2>4, <2>5, <2>6, <2>7, <2>8 DEF Paths
  <2> QED
    BY <2>1, <2>9 DEF files
<1> QED
  BY <1>2, <1>5, <1>6, <1>7, <1>9, <1>13 DEF Whole, Exists, document

-----------------------------------------------------------------------------
(* The steps.                                                              *)

\* A file is replaced; a manifest only by one of a build, or by none.
LEMMA FileIsReplaced ==
  ASSUME FilesAreTyped, ManifestKnown, NEW p \in Paths, NEW x, dir' = [dir EXCEPT ![p] = x],
         UNCHANGED <<source, photo>>, damages' \in 0..MaxDamages,
         p = DEMO_LIBRARY_ASSET_FILE => x \in Documents \union {Absent},
         p = DATASET_MANIFEST_FILE =>
            \/ x \in {Absent, Malformed}
            \/ \E b \in Builds, pictures \in AllBytes, document \in Documents :
                  HasByteSource(b.dataset) /\ x = ManifestOf(b, pictures, document)
  PROVE  FilesAreTyped' /\ ManifestKnown'
<1>1. dir' = [q \in Paths |-> dir'[q]] /\ dir'[p] = x /\ \A q \in Paths \ {p} : dir'[q] = dir[q]
  BY DEF FilesAreTyped
<1>2. DEMO_LIBRARY_ASSET_FILE \in Paths /\ DATASET_MANIFEST_FILE \in Paths
  BY DEF Paths
<1>3. FilesAreTyped'
  BY <1>1, <1>2 DEF FilesAreTyped
<1>4. ManifestKnown'
  <2>1. CASE p = DATASET_MANIFEST_FILE
    BY <1>1, <2>1 DEF ManifestKnown, manifest, Readable, Exists
  <2>2. CASE p # DATASET_MANIFEST_FILE
    BY <1>1, <1>2, <2>2 DEF ManifestKnown, manifest, Readable, Exists
  <2> QED
    BY <2>1, <2>2
<1> QED
  BY <1>3, <1>4

\* Nothing was reported yet.
LEMMA NothingReported ==
  ASSUME lastRun' = NoReport
  PROVE  ReportKnown'
  BY DEF ReportKnown, GeneratorTellsTheTruth, NoReport

LEMMA GeneratorStarts == ASSUME ArtifactInv, Generate PROVE ArtifactInv'
<1> DEFINE document == dir[DEMO_LIBRARY_ASSET_FILE]
<1>1. writing = NotWriting /\ UNCHANGED <<source, dir, photo, damages>>
  BY DEF Generate, generates
<1>2. FilesAreTyped' /\ ManifestKnown'
  BY <1>1 DEF ArtifactInv, FilesAreTyped, ManifestKnown, Readable, Exists, manifest
<1>3. CASE Publishable
  <2> DEFINE build == buildDatasetArtifact(source, photo, document)
             todo == DOMAIN build \union Stale(build)
  <2>1. writing' = [to |-> build, left |-> todo, disturbed |-> FALSE] /\ lastRun' = NoReport
    BY <1>3, Zenon DEF Generate
  <2>2. source \in Builds /\ photo \in AllBytes /\ document \in Documents /\ HasByteSource(source.dataset)
    BY <1>3 DEF ArtifactInv, FilesAreTyped, Publishable, Exists
  <2>3. todo \subseteq Paths
    <3>1. DOMAIN build \subseteq Paths
      BY <2>2, BuildHolds
    <3> QED
      BY <3>1 DEF Stale
  <2>4. \A q \in Paths \ todo : q \notin DOMAIN build /\ dir[q] = Absent
    BY DEF Stale, Exists
  <2>5. WritingKnown'
    <3> HIDE DEF todo
    <3>1. PICK pictures, doc : pictures = photo /\ doc = document
      OBVIOUS
    <3>2. buildDatasetArtifact(source, pictures, doc)' = build
      BY <1>1, <3>1 DEF buildDatasetArtifact, datasetAssetRecords
    <3>3. PICK late : late = todo
      OBVIOUS
    <3> HIDE DEF build, document
    <3>4. Progresses(pictures, doc, late, FALSE)'
      BY <1>1, <2>1, <2>2, <2>3, <2>4, <3>1, <3>2, <3>3 DEF Progresses, document, HasByteSource
    <3> QED
      BY <2>1, <2>2, <2>3, <3>1, <3>3, <3>4 DEF WritingKnown
  <2> QED
    BY <1>2, <2>1, <2>5, NothingReported DEF ArtifactInv
<1>4. CASE ~Publishable
  <2>1. lastRun' = [is |-> "threw", disturbed |-> FALSE] /\ writing' = writing
    BY <1>4 DEF Generate
  <2>2. ~Publishable'
    BY <1>1, <1>4 DEF Publishable, Exists, HasByteSource
  <2> QED
    BY <1>1, <1>2, <2>1, <2>2 DEF ArtifactInv, WritingKnown, ReportKnown, GeneratorTellsTheTruth
<1> QED
  BY <1>3, <1>4

\* What has not been written yet is known while the generator runs.
LEMMA GeneratorRuns ==
  ASSUME ArtifactInv, writing # NotWriting
  PROVE  /\ lastRun = NoReport
         /\ \E pictures \in AllBytes, document \in Documents, todo \in SUBSET Paths, disturbed \in BOOLEAN :
              Progresses(pictures, document, todo, disturbed)
  BY DEF ArtifactInv, WritingKnown

LEMMA FileIsWritten == ASSUME ArtifactInv, WriteFile PROVE ArtifactInv'
<1>1. PICK p \in Paths :
        /\ p \in writing.left
        /\ dir' = [dir EXCEPT ![p] = IF p \in DOMAIN writing.to THEN writing.to[p] ELSE Absent]
        /\ writing' = [writing EXCEPT !.left = @ \ {p}]
        /\ UNCHANGED <<source, photo, lastRun, damages>>
  BY DEF WriteFile, Turn
<1>2. writing # NotWriting
  BY <1>1 DEF NotWriting
<1>3. PICK pictures \in AllBytes, document \in Documents, todo \in SUBSET Paths, disturbed \in BOOLEAN :
      Progresses(pictures, document, todo, disturbed)
  BY <1>2, GeneratorRuns
<1> DEFINE build == buildDatasetArtifact(source, pictures, document)
           x == IF p \in DOMAIN build THEN build[p] ELSE Absent
<1>4. /\ todo \subseteq Paths /\ disturbed \in BOOLEAN /\ HasByteSource(source.dataset)
      /\ writing = [to |-> build, left |-> todo, disturbed |-> disturbed]
      /\ \A q \in Paths \ todo : dir[q] \in {Absent, Malformed} \/ (q \in DOMAIN build /\ dir[q] = build[q])
      /\ ~disturbed => /\ pictures = photo /\ document = dir[DEMO_LIBRARY_ASSET_FILE]
                       /\ \A q \in Paths \ todo : dir[q] = IF q \in DOMAIN build THEN build[q] ELSE Absent
  BY <1>3 DEF Progresses
<1>5. source \in Builds /\ FilesAreTyped /\ ManifestKnown
  BY DEF ArtifactInv, FilesAreTyped
<1>5a. source \in Builds
  BY <1>5
<1>6. /\ DOMAIN build = source.names \union {DATASET_MANIFEST_FILE, DATASET_ASSET_LIST_FILE, DEMO_LIBRARY_ASSET_FILE,
                                              DATASET_SCHEMA_FILE}
      /\ DOMAIN build \subseteq Paths
      /\ \A n \in source.names : build[n] = source.dataset[n]
      /\ build[DEMO_LIBRARY_ASSET_FILE] = document
      /\ build[DATASET_ASSET_LIST_FILE] = datasetAssetRecords(source.dataset, pictures, document)
      /\ build[DATASET_SCHEMA_FILE] = source.names
      /\ build[DATASET_MANIFEST_FILE] = ManifestOf(source, pictures, document)
  BY <1>5a, BuildHolds
<1>7. buildDatasetArtifact(source, pictures, document)' = build
  BY <1>1 DEF buildDatasetArtifact, datasetAssetRecords
<1> HIDE DEF build
<1>8. dir' = [dir EXCEPT ![p] = x] /\ writing' = [to |-> build, left |-> todo \ {p}, disturbed |-> disturbed]
  BY <1>1, <1>4
<1>9. DEMO_LIBRARY_ASSET_FILE \in DOMAIN build /\ DATASET_MANIFEST_FILE \in DOMAIN build
  BY <1>6
<1>10. FilesAreTyped' /\ ManifestKnown'
  <2>1. p = DEMO_LIBRARY_ASSET_FILE => x = document
    BY <1>6, <1>9
  <2>2. p = DATASET_MANIFEST_FILE => x = ManifestOf(source, pictures, document)
    BY <1>6, <1>9
  <2>3. damages' \in 0..MaxDamages
    BY <1>1, <1>5 DEF FilesAreTyped
  <2> HIDE DEF x
  <2>4. p = DEMO_LIBRARY_ASSET_FILE => x \in Documents \union {Absent}
    BY <2>1
  <2>5. p = DATASET_MANIFEST_FILE =>
          \/ x \in {Absent, Malformed}
          \/ \E b \in Builds, late \in AllBytes, doc \in Documents :
                HasByteSource(b.dataset) /\ x = ManifestOf(b, late, doc)
    BY <1>4, <1>5, <2>2
  <2>6. UNCHANGED <<source, photo>>
    BY <1>1
  <2> QED
    BY <1>5, <1>8, <2>3, <2>4, <2>5, <2>6, FileIsReplaced
<1>11. dir'[p] = x /\ \A q \in Paths \ {p} : dir'[q] = dir[q]
  BY <1>5, <1>8 DEF FilesAreTyped
<1>12. WritingKnown'
  <2>1. \A q \in Paths \ (todo \ {p}) : dir'[q] \in {Absent, Malformed} \/ (q \in DOMAIN build /\ dir'[q] = build[q])
    BY <1>4, <1>11
  <2>2. ~disturbed => /\ pictures = photo /\ document = dir'[DEMO_LIBRARY_ASSET_FILE]
                      /\ \A q \in Paths \ (todo \ {p}) : dir'[q] = IF q \in DOMAIN build THEN build[q] ELSE Absent
    <3>1. DEMO_LIBRARY_ASSET_FILE \in Paths
      BY DEF Paths
    <3> QED
      BY <1>4, <1>6, <1>9, <1>11, <3>1
  <2>3. PICK late : late = todo \ {p}
    OBVIOUS
  <2>4. Progresses(pictures, document, late, disturbed)'
    BY <1>1, <1>4, <1>7, <1>8, <2>1, <2>2, <2>3 DEF Progresses, HasByteSource
  <2>5. lastRun' = NoReport
    BY <1>1, <1>2, GeneratorRuns
  <2> QED
    BY <1>4, <2>3, <2>4, <2>5 DEF WritingKnown
<1> QED
  BY <1>1, <1>2, <1>10, <1>12, GeneratorRuns, NothingReported DEF ArtifactInv

LEMMA GeneratorReports == ASSUME ArtifactInv, writeDatasetArtifact PROVE ArtifactInv'
<1>1. /\ writing # NotWriting /\ writing.left = {} /\ writing' = NotWriting /\ UNCHANGED <<source, dir, photo, damages>>
      /\ lastRun' = [is |-> IF validateDatasetArtifact = {} THEN "written" ELSE "threw", disturbed |-> writing.disturbed]
  BY DEF writeDatasetArtifact, generates
<1>2. PICK pictures \in AllBytes, document \in Documents, todo \in SUBSET Paths, disturbed \in BOOLEAN :
      Progresses(pictures, document, todo, disturbed)
  BY <1>1, GeneratorRuns
<1> DEFINE build == buildDatasetArtifact(source, pictures, document)
<1>3. /\ HasByteSource(source.dataset) /\ todo = {} /\ writing.disturbed = disturbed /\ disturbed \in BOOLEAN
      /\ \A q \in Paths : dir[q] \in {Absent, Malformed} \/ (q \in DOMAIN build /\ dir[q] = build[q])
      /\ ~disturbed => /\ pictures = photo /\ document = dir[DEMO_LIBRARY_ASSET_FILE]
                       /\ \A q \in Paths : dir[q] = IF q \in DOMAIN build THEN build[q] ELSE Absent
  <2>1. writing = [to |-> build, left |-> todo, disturbed |-> disturbed]
    BY <1>2 DEF Progresses
  <2>2. todo = {} /\ writing.disturbed = disturbed
    BY <1>1, <2>1
  <2> HIDE DEF build
  <2> QED
    BY <1>2, <2>2 DEF Progresses, build
<1>4. source \in Builds /\ FilesAreTyped /\ ManifestKnown /\ dir = [p \in Paths |-> dir[p]]
  BY DEF ArtifactInv, FilesAreTyped
<1>4a. source \in Builds
  BY <1>4
<1>5. /\ DOMAIN build = source.names \union {DATASET_MANIFEST_FILE, DATASET_ASSET_LIST_FILE, DEMO_LIBRARY_ASSET_FILE,
                                              DATASET_SCHEMA_FILE}
      /\ DOMAIN build \subseteq Paths
      /\ \A n \in source.names : build[n] = source.dataset[n]
      /\ build[DEMO_LIBRARY_ASSET_FILE] = document
      /\ build[DATASET_ASSET_LIST_FILE] = datasetAssetRecords(source.dataset, pictures, document)
      /\ build[DATASET_SCHEMA_FILE] = source.names
      /\ build[DATASET_MANIFEST_FILE] = ManifestOf(source, pictures, document)
  BY <1>4a, BuildHolds
<1> HIDE DEF build
<1>6. ASSUME validateDatasetArtifact = {} PROVE Loads /\ loadDatasetArtifact = source.dataset
  <2>1. Readable(DATASET_MANIFEST_FILE) /\ DatasetPasses
    BY <1>6, IssuesReported
  <2>2. manifest = ManifestOf(source, pictures, document)
    BY <1>3, <1>5, <2>1 DEF Readable, Exists, manifest, Paths
  <2> QED
    BY <2>1, <2>2 DEF DatasetPasses, ManifestOf
<1>7. ASSUME ~disturbed, source.coherent, Publishable PROVE validateDatasetArtifact = {}
  <2>1. pictures = photo /\ document = dir[DEMO_LIBRARY_ASSET_FILE]
    BY <1>3, <1>7
  <2>2. dir = Complete(source, document)
    <3>1. Complete(source, document) = [q \in Paths |-> IF q \in DOMAIN build THEN build[q] ELSE Absent]
      BY <2>1 DEF Complete, build
    <3> QED
      BY <1>3, <1>4, <1>7, <3>1
  <2>3. Whole(source)
    BY <1>3, <1>7, <2>1, <2>2 DEF Whole, Publishable
  <2> QED
    BY <1>4, <2>3, WholeIsAccepted
<1>8. FilesAreTyped' /\ ManifestKnown'
  BY <1>1, <1>4 DEF FilesAreTyped, ManifestKnown, Readable, Exists, manifest
<1>9. /\ Loads' = Loads /\ loadDatasetArtifact' = loadDatasetArtifact /\ Publishable' = Publishable
  BY <1>1 DEF Loads, loadDatasetArtifact, Publishable, manifest, Readable, Exists, HasByteSource
<1>10. ReportKnown'
  <2>1. CASE validateDatasetArtifact = {}
    BY <1>1, <1>6, <1>9, <2>1 DEF ReportKnown, GeneratorTellsTheTruth
  <2>2. CASE validateDatasetArtifact # {}
    BY <1>1, <1>3, <1>7, <1>9, <2>2 DEF ReportKnown, GeneratorTellsTheTruth
  <2> QED
    BY <2>1, <2>2
<1> QED
  BY <1>1, <1>8, <1>10 DEF ArtifactInv, WritingKnown

LEMMA GeneratorIsKilled == ASSUME ArtifactInv, Killed PROVE ArtifactInv'
<1>1. /\ writing' = NotWriting /\ lastRun' = NoReport /\ UNCHANGED <<source, photo>>
      /\ damages < MaxDamages /\ damages' = damages + 1
  BY DEF Killed, Damages
<1>2. FilesAreTyped /\ ManifestKnown /\ damages' \in 0..MaxDamages
  BY <1>1, ArtifactAssumption DEF ArtifactInv, FilesAreTyped, ArtifactAssumption
<1>3. FilesAreTyped' /\ ManifestKnown'
  <2>1. CASE dir' = dir
    BY <1>1, <1>2, <2>1 DEF FilesAreTyped, ManifestKnown, Readable, Exists, manifest
  <2>2. CASE dir' # dir
    <3>1. PICK p \in writing.left : dir' = [dir EXCEPT ![p] = Malformed]
      BY <2>2 DEF Killed, Turn
    <3>2. p \in Paths
      <4>1. writing # NotWriting
        BY DEF Killed, generates
      <4>2. PICK pictures \in AllBytes, document \in Documents, todo \in SUBSET Paths, disturbed \in BOOLEAN :
            Progresses(pictures, document, todo, disturbed)
        BY <4>1, GeneratorRuns
      <4> DEFINE build == buildDatasetArtifact(source, pictures, document)
      <4>3. todo \subseteq Paths /\ writing = [to |-> build, left |-> todo, disturbed |-> disturbed]
        BY <4>2 DEF Progresses
      <4> HIDE DEF build
      <4> QED
        BY <3>1, <4>3
    <3>3. PICK x : x = Malformed
      OBVIOUS
    <3>4. x \in Documents \union {Absent} /\ x \in {Absent, Malformed} /\ dir' = [dir EXCEPT ![p] = x]
      BY <3>1, <3>3 DEF Documents
    <3> QED
      BY <1>1, <1>2, <3>2, <3>4, FileIsReplaced
  <2> QED
    BY <2>1, <2>2
<1> QED
  BY <1>1, <1>3, NothingReported DEF ArtifactInv, WritingKnown

LEMMA SourceIsCheckedOut == ASSUME ArtifactInv, Checkout PROVE ArtifactInv'
<1>1. /\ writing = NotWriting /\ lastRun' = NoReport /\ source' \in Builds /\ UNCHANGED <<dir, photo, writing>>
      /\ damages < MaxDamages /\ damages' = damages + 1
  BY DEF Checkout, Damages, generates
<1>2. damages' \in 0..MaxDamages
  BY <1>1, ArtifactAssumption DEF ArtifactInv, FilesAreTyped, ArtifactAssumption
<1>3. FilesAreTyped' /\ ManifestKnown'
  BY <1>1, <1>2 DEF ArtifactInv, FilesAreTyped, ManifestKnown, Readable, Exists, manifest
<1> QED
  BY <1>1, <1>3, NothingReported DEF ArtifactInv, WritingKnown

LEMMA FileIsMerged == ASSUME ArtifactInv, MergeFile PROVE ArtifactInv'
<1>1. /\ writing' = NotWriting /\ lastRun' = NoReport /\ UNCHANGED <<source, photo>>
      /\ damages < MaxDamages /\ damages' = damages + 1
  BY DEF MergeFile, Damages, generates
<1>2. PICK b \in {c \in Builds : HasByteSource(c.dataset)}, p \in Paths :
        dir' = [dir EXCEPT ![p] = IF p \in DOMAIN buildDatasetArtifact(b, photo, LibraryDocument)
                                  THEN buildDatasetArtifact(b, photo, LibraryDocument)[p] ELSE Absent]
  BY DEF MergeFile
<1>3. FilesAreTyped /\ ManifestKnown /\ photo \in AllBytes /\ damages' \in 0..MaxDamages
  BY <1>1, ArtifactAssumption DEF ArtifactInv, FilesAreTyped, ArtifactAssumption
<1> DEFINE build == buildDatasetArtifact(b, photo, LibraryDocument)
           x == IF p \in DOMAIN build THEN build[p] ELSE Absent
<1>4. b \in Builds /\ HasByteSource(b.dataset)
  BY <1>2
<1>5. /\ DOMAIN build = b.names \union {DATASET_MANIFEST_FILE, DATASET_ASSET_LIST_FILE, DEMO_LIBRARY_ASSET_FILE,
                                              DATASET_SCHEMA_FILE}
      /\ DOMAIN build \subseteq Paths
      /\ \A n \in b.names : build[n] = b.dataset[n]
      /\ build[DEMO_LIBRARY_ASSET_FILE] = LibraryDocument
      /\ build[DATASET_ASSET_LIST_FILE] = datasetAssetRecords(b.dataset, photo, LibraryDocument)
      /\ build[DATASET_SCHEMA_FILE] = b.names
      /\ build[DATASET_MANIFEST_FILE] = ManifestOf(b, photo, LibraryDocument)
  BY <1>4, BuildHolds
<1>6. dir' = [dir EXCEPT ![p] = x]
  BY <1>2
<1> HIDE DEF build
<1>7. p = DEMO_LIBRARY_ASSET_FILE => x \in Documents \union {Absent}
  BY <1>5 DEF Documents
<1>8. p = DATASET_MANIFEST_FILE => x = ManifestOf(b, photo, LibraryDocument)
  BY <1>5
<1> HIDE DEF x
<1>9. p = DATASET_MANIFEST_FILE =>
        \/ x \in {Absent, Malformed}
        \/ \E c \in Builds, pictures \in AllBytes, document \in Documents :
              HasByteSource(c.dataset) /\ x = ManifestOf(c, pictures, document)
  BY <1>3, <1>4, <1>8 DEF Documents
<1>10. FilesAreTyped' /\ ManifestKnown'
  <2>1. UNCHANGED <<source, photo>>
    BY <1>1
  <2> QED
    BY <1>3, <1>6, <1>7, <1>9, <2>1, FileIsReplaced
<1> QED
  BY <1>1, <1>10, NothingReported DEF ArtifactInv, WritingKnown

\* A generator whose files are touched is a disturbed one.
LEMMA GeneratorIsDisturbed ==
  ASSUME ArtifactInv, Damages, Disturbs, UNCHANGED source,
         \A q \in Paths : dir'[q] = dir[q] \/ dir'[q] \in {Absent, Malformed}
  PROVE  WritingKnown' /\ ReportKnown'
<1>1. lastRun' = NoReport
  BY DEF Damages
<1>2. CASE writing = NotWriting
  <2>1. writing' = NotWriting
    BY <1>2 DEF Disturbs, generates, NotWriting
  <2> QED
    BY <1>1, <2>1, NothingReported DEF WritingKnown
<1>3. CASE writing # NotWriting
  <2>1. PICK pictures \in AllBytes, document \in Documents, todo \in SUBSET Paths, disturbed \in BOOLEAN :
        Progresses(pictures, document, todo, disturbed)
    BY <1>3, GeneratorRuns
  <2> DEFINE build == buildDatasetArtifact(source, pictures, document)
  <2>2. /\ todo \subseteq Paths /\ HasByteSource(source.dataset)
        /\ writing = [to |-> build, left |-> todo, disturbed |-> disturbed]
        /\ \A q \in Paths \ todo : dir[q] \in {Absent, Malformed} \/ (q \in DOMAIN build /\ dir[q] = build[q])
    BY <2>1 DEF Progresses
  <2>3. buildDatasetArtifact(source, pictures, document)' = build
    BY DEF buildDatasetArtifact, datasetAssetRecords
  <2> HIDE DEF build
  <2>4. writing' = [to |-> build, left |-> todo, disturbed |-> TRUE]
    BY <1>3, <2>2 DEF Disturbs, generates
  <2>5. \A q \in Paths \ todo : dir'[q] \in {Absent, Malformed} \/ (q \in DOMAIN build /\ dir'[q] = build[q])
    BY <2>2
  <2>6. PICK late, touched : late = todo /\ touched = TRUE
    OBVIOUS
  <2>7. Progresses(pictures, document, late, touched)'
    BY <2>2, <2>3, <2>4, <2>5, <2>6 DEF Progresses, HasByteSource
  <2> QED
    BY <1>1, <2>2, <2>6, <2>7, NothingReported DEF WritingKnown
<1> QED
  BY <1>2, <1>3

LEMMA FileIsSpoilt == ASSUME ArtifactInv, SpoilFile PROVE ArtifactInv'
<1>1. Damages /\ Disturbs /\ UNCHANGED <<source, photo>>
  BY DEF SpoilFile
<1>2. PICK p \in Paths, x \in {Absent, Malformed} : dir' = [dir EXCEPT ![p] = x]
  BY DEF SpoilFile
<1>3. FilesAreTyped /\ ManifestKnown /\ damages' \in 0..MaxDamages
  BY <1>1, ArtifactAssumption DEF ArtifactInv, FilesAreTyped, Damages, ArtifactAssumption
<1>4. x \in Documents \union {Absent}
  BY DEF Documents
<1>5. FilesAreTyped' /\ ManifestKnown'
  BY <1>1, <1>2, <1>3, <1>4, FileIsReplaced
<1>6. \A q \in Paths : dir'[q] = dir[q] \/ dir'[q] \in {Absent, Malformed}
  BY <1>2, <1>3 DEF FilesAreTyped
<1>7. WritingKnown' /\ ReportKnown'
  BY <1>1, <1>6, GeneratorIsDisturbed
<1> QED
  BY <1>5, <1>7 DEF ArtifactInv

LEMMA PhotoIsReplaced == ASSUME ArtifactInv, ReplacePhoto PROVE ArtifactInv'
<1>1. Damages /\ Disturbs /\ UNCHANGED <<source, dir>> /\ photo' \in AllBytes
  BY DEF ReplacePhoto, ArtifactInv, FilesAreTyped, AllBytes
<1>2. FilesAreTyped' /\ ManifestKnown'
  BY <1>1, ArtifactAssumption
  DEF ArtifactInv, FilesAreTyped, ManifestKnown, Readable, Exists, manifest, Damages, ArtifactAssumption
<1>3. WritingKnown' /\ ReportKnown'
  BY <1>1, GeneratorIsDisturbed
<1> QED
  BY <1>2, <1>3 DEF ArtifactInv

-----------------------------------------------------------------------------
LEMMA ArtifactStarts == ASSUME ArtifactInit PROVE ArtifactInv
<1>1. /\ source \in Builds /\ photo \in AllBytes /\ writing = NotWriting /\ lastRun = NoReport
      /\ damages \in 0..MaxDamages
  BY ArtifactAssumption DEF ArtifactInit, AllBytes, ArtifactAssumption
<1>2. DEMO_LIBRARY_ASSET_FILE \in Paths /\ DATASET_MANIFEST_FILE \in Paths /\ LibraryDocument \in Documents
  BY DEF Paths, Documents
<1>3. FilesAreTyped /\ ManifestKnown
  <2>1. CASE \E b \in {c \in Builds : HasByteSource(c.dataset)} : dir = Complete(b, LibraryDocument)
    <3>1. PICK b \in {c \in Builds : HasByteSource(c.dataset)} : dir = Complete(b, LibraryDocument)
      BY <2>1
    <3>2. b \in Builds /\ HasByteSource(b.dataset)
      BY <3>1
    <3> DEFINE files == Complete(b, LibraryDocument)
    <3>3. /\ files = [p \in Paths |-> files[p]]
          /\ \A n \in b.names : files[n] = b.dataset[n]
          /\ files[DEMO_LIBRARY_ASSET_FILE] = LibraryDocument
          /\ files[DATASET_ASSET_LIST_FILE] = datasetAssetRecords(b.dataset, photo, LibraryDocument)
          /\ files[DATASET_SCHEMA_FILE] = b.names
          /\ files[DATASET_MANIFEST_FILE] = ManifestOf(b, photo, LibraryDocument)
          /\ files[FormerAsset] = Absent
          /\ \A n \in MemberNames \ b.names : files[n] = Absent
      BY <3>2, CompleteHolds
    <3> HIDE DEF files
    <3>4. dir = files
      BY <3>1 DEF files
    <3> QED
      BY <1>1, <1>2, <3>2, <3>3, <3>4 DEF FilesAreTyped, ManifestKnown, manifest
  <2>2. CASE dir = [p \in Paths |-> IF p = DEMO_LIBRARY_ASSET_FILE THEN LibraryDocument
                                    ELSE IF p = FormerAsset THEN Malformed ELSE Absent]
    <3>1. dir[DATASET_MANIFEST_FILE] = Absent
      BY <1>2, <2>2, FilesApart
    <3> QED
      BY <1>1, <1>2, <2>2, <3>1 DEF FilesAreTyped, ManifestKnown, Readable, Exists
  <2> QED
    BY <2>1, <2>2 DEF ArtifactInit
<1> QED
  BY <1>1, <1>3, NothingReported DEF ArtifactInv, WritingKnown, ReportKnown, GeneratorTellsTheTruth, NoReport

LEMMA ArtifactSteps == ASSUME ArtifactInv, [ArtifactNext]_artifactVars PROVE ArtifactInv'
<1>1. CASE UNCHANGED artifactVars
  <2>1. UNCHANGED <<source, dir, photo, writing, lastRun, damages>>
    BY <1>1 DEF artifactVars
  <2>2. FilesAreTyped' /\ ManifestKnown'
    BY <2>1 DEF ArtifactInv, FilesAreTyped, ManifestKnown, Readable, Exists, manifest
  <2>3. WritingKnown'
    <3>1. CASE writing = NotWriting
      BY <2>1, <3>1 DEF WritingKnown
    <3>2. CASE writing # NotWriting
      <4>1. PICK pictures \in AllBytes, document \in Documents, todo \in SUBSET Paths, disturbed \in BOOLEAN :
              Progresses(pictures, document, todo, disturbed)
        BY <3>2, GeneratorRuns
      <4>2. buildDatasetArtifact(source, pictures, document)' = buildDatasetArtifact(source, pictures, document)
        BY <2>1 DEF buildDatasetArtifact, datasetAssetRecords
      <4>3. Progresses(pictures, document, todo, disturbed)'
        BY <2>1, <4>1, <4>2 DEF Progresses, HasByteSource
      <4>4. lastRun' = NoReport
        BY <2>1, <3>2, GeneratorRuns
      <4> QED
        BY <4>3, <4>4 DEF WritingKnown
    <3> QED
      BY <3>1, <3>2
  <2>4. /\ Loads' = Loads /\ loadDatasetArtifact' = loadDatasetArtifact /\ Publishable' = Publishable
    BY <2>1 DEF Loads, loadDatasetArtifact, Publishable, manifest, Readable, Exists, HasByteSource
  <2>5. ReportKnown'
    BY <2>1, <2>4 DEF ArtifactInv, ReportKnown, GeneratorTellsTheTruth
  <2> QED
    BY <2>2, <2>3, <2>5 DEF ArtifactInv
<1> QED
  BY <1>1, GeneratorStarts, FileIsWritten, GeneratorReports, GeneratorIsKilled, SourceIsCheckedOut, FileIsMerged,
     FileIsSpoilt, PhotoIsReplaced DEF ArtifactNext

LEMMA ArtifactIsKnown == ArtifactSpec => []ArtifactInv
  BY ArtifactStarts, ArtifactSteps, PTL DEF ArtifactSpec

\* At every moment the validator accepts just what a generator of a
\* coherent seed leaves, and the generator's report is true.
THEOREM ArtifactAlwaysHolds == ArtifactSpec => []ArtifactHolds
<1>1. ASSUME ArtifactInv PROVE ArtifactHolds
  <2>1. ASSUME validateDatasetArtifact = {} PROVE \E b \in Builds : Whole(b)
    BY <1>1, <2>1, AcceptedIsWhole DEF ArtifactInv
  <2>2. ASSUME NEW b \in Builds, Whole(b) PROVE validateDatasetArtifact = {}
    BY <1>1, <2>2, WholeIsAccepted DEF ArtifactInv
  <2>3. AcceptsWhatIsGenerated
    BY <2>1, <2>2 DEF AcceptsWhatIsGenerated, Whole
  <2> QED
    BY <1>1, <2>3 DEF ArtifactHolds, ArtifactInv, ReportKnown
<1> QED
  BY <1>1, ArtifactIsKnown, PTL

THEOREM ArtifactTypeCorrect == ArtifactSpec => []ArtifactTypeOK
<1>1. ASSUME ArtifactInv PROVE ArtifactTypeOK
  <2>1. DOMAIN dir = Paths /\ source \in Builds /\ photo \in [Photos -> PhotoVersions] /\ damages \in 0..MaxDamages
    BY <1>1 DEF ArtifactInv, FilesAreTyped, AllBytes
  <2>2. writing.left \subseteq Paths
    <3>1. CASE writing = NotWriting
      BY <3>1 DEF NotWriting
    <3>2. CASE writing # NotWriting
      <4>1. PICK pictures \in AllBytes, document \in Documents, todo \in SUBSET Paths, disturbed \in BOOLEAN :
            Progresses(pictures, document, todo, disturbed)
        BY <1>1, <3>2, GeneratorRuns
      <4> DEFINE build == buildDatasetArtifact(source, pictures, document)
      <4>2. todo \subseteq Paths /\ writing = [to |-> build, left |-> todo, disturbed |-> disturbed]
        BY <4>1 DEF Progresses
      <4> HIDE DEF build
      <4> QED
        BY <4>2
    <3> QED
      BY <3>1, <3>2
  <2>3. lastRun.is \in {"none", "threw", "written"}
    BY <1>1 DEF ArtifactInv, ReportKnown
  <2> QED
    BY <2>1, <2>2, <2>3 DEF ArtifactTypeOK
<1> QED
  BY <1>1, ArtifactIsKnown, PTL

=============================================================================
