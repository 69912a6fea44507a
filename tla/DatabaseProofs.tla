--------------------------- MODULE DatabaseProofs ----------------------------
(* Lemmas about the database that the proofs of several components use.   *)
EXTENDS Database, TLAPS

\* Every step of the database keeps its own variables well-typed.
LEMMA DbTyped ==
  ASSUME DbTypeOK, NEW p \in Requests, NEW r,
         \/ UNCHANGED dbVars \/ EndTx(p) \/ CommitTx(p)
         \/ PlainRead(p) \/ LockingRead(p, r) \/ WriteRow(p, r)
  PROVE  DbTypeOK'
<1>1. CASE UNCHANGED dbVars
  BY <1>1 DEF DbTypeOK, dbVars
<1>2. CASE EndTx(p) \/ CommitTx(p)
  BY <1>2 DEF DbTypeOK, EndTx, CommitTx
<1>3. CASE PlainRead(p) \/ LockingRead(p, r) \/ WriteRow(p, r)
  BY <1>3 DEF DbTypeOK, PlainRead, LockingRead, WriteRow, TakeRowLock
<1> QED
  BY <1>1, <1>2, <1>3

\* A transaction that holds a row lock keeps it through every step of another.
LEMMA LockKept ==
  ASSUME DbTypeOK, HasRowLocks, NEW p \in Requests, NEW q \in Requests, p # q,
         NEW r, NEW a \in Rows, rowLock[a] = q,
         \/ UNCHANGED dbVars \/ EndTx(p) \/ CommitTx(p)
         \/ PlainRead(p) \/ LockingRead(p, r) \/ WriteRow(p, r)
  PROVE  rowLock'[a] = q
BY NoneAssumption
DEF DbTypeOK, dbVars, EndTx, CommitTx, PlainRead, LockingRead, WriteRow, TakeRowLock

\* What a request keeps of the database while it holds its transaction open.
LEMMA OwnLockKept ==
  ASSUME DbTypeOK, HasRowLocks, NEW p \in Requests, NEW r, NEW a \in Rows, rowLock[a] = p,
         UNCHANGED dbVars \/ PlainRead(p) \/ LockingRead(p, r) \/ WriteRow(p, r)
  PROVE  rowLock'[a] = p
BY DEF DbTypeOK, dbVars, PlainRead, LockingRead, WriteRow, TakeRowLock

LEMMA LockTaken ==
  ASSUME DbTypeOK, HasRowLocks, NEW p \in Requests, NEW a \in Rows, LockingRead(p, a)
  PROVE  rowLock'[a] = p
BY DEF DbTypeOK, LockingRead, TakeRowLock

\* The sqlite writer keeps RESERVED, and every transaction its SHARED lock,
\* through the steps of another.
LEMMA WriterKept ==
  ASSUME DbTypeOK, ~HasRowLocks, NEW p \in Requests, NEW q \in Requests, p # q, NEW r,
         \/ UNCHANGED dbVars \/ EndTx(p) \/ CommitTx(p)
         \/ PlainRead(p) \/ LockingRead(p, r) \/ WriteRow(p, r)
  PROVE  /\ q \in shared => q \in shared'
         /\ reserved = q => reserved' = q
BY NoneAssumption
DEF dbVars, EndTx, CommitTx, PlainRead, LockingRead, WriteRow

\* Reading takes SHARED, writing RESERVED as well, and nothing gives them up
\* before the transaction ends.
LEMMA ReaderIsShared ==
  ASSUME ~HasRowLocks, NEW p \in Requests, NEW r,
         PlainRead(p) \/ LockingRead(p, r) \/ WriteRow(p, r)
  PROVE  /\ p \in shared'
         /\ WriteRow(p, r) => reserved' = p
         /\ reserved = p => reserved' = p
BY DEF PlainRead, LockingRead, WriteRow
=============================================================================
