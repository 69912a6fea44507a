------------------------------- MODULE Database -------------------------------
(***************************************************************************)
(* The database under the Laravel API, modelled from how the services use  *)
(* it (DB::transaction, lockForUpdate, plain queries): nothing here is in  *)
(* the repository, so every definition is external.                        *)
(*                                                                         *)
(* The repository runs on two engines: config/database.php defaults to     *)
(* sqlite, and the CI workflow backend-tests.yml adds a MySQL 8.0 leg.     *)
(* No isolation level and no journal mode is set, so both keep theirs:     *)
(*                                                                         *)
(*   mysql   InnoDB, REPEATABLE READ.  lockForUpdate and every UPDATE,     *)
(*           INSERT and DELETE take an exclusive row lock that is held     *)
(*           until the transaction ends; a plain SELECT takes no lock and  *)
(*           reads the snapshot of the transaction's first plain SELECT.   *)
(*   sqlite  rollback journal, deferred BEGIN.  lockForUpdate compiles to  *)
(*           a plain SELECT.  A transaction holds a SHARED lock from its   *)
(*           first read, one transaction at a time holds RESERVED from its *)
(*           first write, and COMMIT needs every other SHARED lock gone.   *)
(*                                                                         *)
(* A request holds at most one transaction, so a transaction is named by   *)
(* its request.  The snapshot of a plain read is data of the component.    *)
(***************************************************************************)
CONSTANTS Engine,     \* "mysql" or "sqlite"
          Requests,   \* HTTP requests in flight, each a PHP process
          Rows,       \* the rows some transaction locks or writes
          None        \* the SQL NULL, and "nobody"

VARIABLES rowLock,    \* mysql: the transaction holding each row's lock
          shared,     \* sqlite: the transactions holding SHARED
          reserved    \* sqlite: the transaction holding RESERVED

dbVars == <<rowLock, shared, reserved>>

ASSUME EngineAssumption == Engine \in {"mysql", "sqlite"}
ASSUME NoneAssumption == None \notin Requests /\ None \notin Rows

HasRowLocks == Engine = "mysql"

DbTypeOK ==
  /\ rowLock \in [Rows -> Requests \cup {None}]
  /\ shared \subseteq Requests
  /\ reserved \in Requests \cup {None}

DbInit ==
  /\ rowLock = [r \in Rows |-> None]
  /\ shared = {}
  /\ reserved = None

\* Takes r's row lock for p, and waits while another transaction holds it.
TakeRowLock(p, r) ==
  /\ rowLock[r] \in {None, p}
  /\ rowLock' = [rowLock EXCEPT ![r] = p]
  /\ UNCHANGED <<shared, reserved>>

\* A plain SELECT inside p's transaction.
PlainRead(p) ==
  /\ shared' = IF HasRowLocks THEN shared ELSE shared \cup {p}
  /\ UNCHANGED <<rowLock, reserved>>

\* SELECT ... FOR UPDATE on row r; without row locks it is a plain SELECT.
LockingRead(p, r) == IF HasRowLocks THEN TakeRowLock(p, r) ELSE PlainRead(p)

\* INSERT, UPDATE or DELETE of row r, uncommitted until p commits.
WriteRow(p, r) ==
  IF HasRowLocks
  THEN TakeRowLock(p, r)
  ELSE /\ reserved \in {None, p}
       /\ reserved' = p
       /\ shared' = shared \cup {p}
       /\ UNCHANGED rowLock

\* SQLITE_BUSY: p cannot become the writer, and its statement throws.
WriterBusy(p) == ~HasRowLocks /\ reserved \notin {None, p}

\* A statement outside any transaction that writes row r and commits at once.
AutoCommitWrite(p, r) ==
  /\ IF HasRowLocks THEN rowLock[r] = None ELSE shared \subseteq {p}
  /\ UNCHANGED dbVars

\* Commit and rollback both release what the transaction holds.
EndTx(p) ==
  /\ rowLock' = [r \in Rows |-> IF rowLock[r] = p THEN None ELSE rowLock[r]]
  /\ shared' = shared \ {p}
  /\ reserved' = IF reserved = p THEN None ELSE reserved

\* COMMIT; on sqlite a writer waits for the other readers to finish.
CommitTx(p) ==
  /\ reserved = p => shared \subseteq {p}
  /\ EndTx(p)
=============================================================================
