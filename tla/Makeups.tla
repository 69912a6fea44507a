------------------------------- MODULE Makeups --------------------------------
(***************************************************************************)
(* Make-up obligations of private lessons: a cancelled session is owed,    *)
(* booked as an ordinary session through SessionService::create, and       *)
(* discharged.  Which session an obligation stands on is derived from the  *)
(* reschedule links on every read, never stored, so it depends on what     *)
(* scheduling does to those sessions meanwhile.                            *)
(*                                                                         *)
(* Source: CompensationService with SessionService.  Left out: the roster, *)
(* the attendance acknowledgement, reasons, scope of a teacher; one class  *)
(* with one student, as a private class has.                               *)
(***************************************************************************)
EXTENDS Scheduling, Sequences

CONSTANTS Originals,   \* the sessions that were cancelled and are owed
          MaxMoves,    \* ATTEMPT_LINEAGE_MAX_MOVES
          Cap          \* the academy's max_makeups_per_term

VARIABLES comp,        \* committed obligations, one per original session
          duty,        \* the compensation request a worker serves
          madeFor      \* history: the obligation a session was booked for

makeupVars == <<vars, comp, duty, madeFor>>

ASSUME MakeupAssumption ==
  /\ Originals \subseteq ManualIds
  /\ {<<"cp", o>> : o \in Originals} \subseteq Rows
  /\ IsFiniteSet(Originals) /\ MaxMoves \in Nat /\ Cap \in Nat

CompRow(o) == <<"cp", o>>
Open(o) == comp[o].status = "open"

Obligation == [status : {"none", "open", "completed"}, attempts : Seq(Ids)]
NoDuty == [op |-> "none", pc |-> "idle", for |-> None]

MakeupTypeOK ==
  /\ TypeOK
  /\ comp \in [Originals -> Obligation]
  /\ duty \in [Requests -> [op : {"none", "register", "schedule", "complete"},
                            pc : {"idle", "write", "commit"}, for : Originals \cup {None}]]
  /\ madeFor \in [Ids -> Originals \cup {None}]

-----------------------------------------------------------------------------
(* lineageOf: where a booked make-up stands now                            *)

\* The forward link decides; a row that is gone or cancelled without one is
\* bridged by the session that names it as its origin.
NextInLineage(i) ==
  IF Exists(i) /\ session[i].movedTo # None THEN {session[i].movedTo}
  ELSE IF Live(i) THEN {}
  ELSE {j \in Ids : Exists(j) /\ session[j].movedFrom = i}

\* The status of the session at the end of the walk, `missing' for a deleted
\* one and for a chain of more than MaxMoves moves.
Effective[n \in 0..MaxMoves] == [i \in Ids |->
  LET onward == NextInLineage(i)
  IN IF onward = {} THEN (IF Exists(i) THEN session[i].status ELSE "missing")
     ELSE IF n = MaxMoves THEN "missing"
     ELSE Effective[n + 1][CHOOSE j \in onward : TRUE]]

\* Mutant: the walk stops at the session that was booked.
HasLiveMakeupMutant(o) ==
  LET attempts == comp[o].attempts
  IN attempts # <<>> /\ Live(attempts[Len(attempts)])

HasLiveMakeup(o) ==
  LET attempts == comp[o].attempts
  IN attempts # <<>> /\ Effective[0][attempts[Len(attempts)]] \notin {"missing", "cancelled"}

-----------------------------------------------------------------------------
(* register, schedule and complete                                         *)

Free(p) == req[p].pc = "idle" /\ duty[p] = NoDuty
Serve(p, op, o) == duty' = [duty EXCEPT ![p] = [op |-> op, pc |-> "write", for |-> o]]
Doing(p, op, pc) == duty[p].op = op /\ duty[p].pc = pc


\* assertPairFree and assertWithinMakeupCap, inside the transaction.
MayRegister(o) ==
  /\ session[o].status = "cancelled" /\ comp[o].status = "none"
  /\ Cardinality({x \in Originals : comp[x].status # "none"}) < Cap

Register(p) ==
  \E o \in Originals :
    /\ Free(p) /\ MayRegister(o)
    /\ PlainRead(p)
    /\ Serve(p, "register", o)
    /\ UNCHANGED <<tables, req, comp, madeFor>>

\* The obligation's row is locked, then SessionService::create runs inside the
\* same transaction.
Schedule(p) ==
  \E o \in Originals, i \in ManualIds, c \in Classes, slot \in Bookings :
    /\ Free(p) /\ Open(o) /\ ~HasLiveMakeup(o)
    /\ Unused(i) /\ ClassExists(c) /\ Bookable(None, c, slot)
    /\ LockingRead(p, CompRow(o))
    /\ Begin(p, "create", i, c, {WriteTo(i, Booked(c, slot, "scheduled", "manual", None))})
    /\ Serve(p, "schedule", o)
    /\ UNCHANGED <<comp, madeFor>>

\* Mutant: any booking will do, cancelled or not.
CompleteMutant(p) ==
  \E o \in Originals :
    /\ Free(p) /\ Open(o) /\ comp[o].attempts # <<>>
    /\ LockingRead(p, CompRow(o))
    /\ Serve(p, "complete", o)
    /\ UNCHANGED <<tables, req, comp, madeFor>>

Complete(p) ==
  \E o \in Originals :
    /\ Free(p) /\ Open(o) /\ HasLiveMakeup(o)
    /\ LockingRead(p, CompRow(o))
    /\ Serve(p, "complete", o)
    /\ UNCHANGED <<tables, req, comp, madeFor>>

\* The pair's unique key: a second registration waits, then fails.
SaveObligation(p) ==
  LET o == duty[p].for
  IN /\ duty[p].op \in {"register", "complete"} /\ duty[p].pc = "write"
     /\ duty[p].op = "register" => comp[o].status = "none"
     /\ WriteRow(p, CompRow(o))
     /\ duty' = [duty EXCEPT ![p].pc = "commit"]
     /\ UNCHANGED <<tables, req, comp, madeFor>>

CommitObligation(p) ==
  LET next == IF duty[p].op = "register" THEN "open" ELSE "completed"
  IN /\ duty[p].op \in {"register", "complete"} /\ duty[p].pc = "commit"
     /\ CommitTx(p)
     /\ comp' = [comp EXCEPT ![duty[p].for].status = next]
     /\ duty' = [duty EXCEPT ![p] = NoDuty]
     /\ UNCHANGED <<tables, req, madeFor>>

SaveMakeup(p) ==
  /\ Doing(p, "schedule", "write")
  /\ Save(p)
  /\ UNCHANGED <<comp, duty, madeFor>>

\* Mutant: the ledger line names the class.
CommitMakeupMutant(p) ==
  LET o == duty[p].for
  IN /\ Doing(p, "schedule", "write")
     /\ Commit(p)
     /\ comp' = [comp EXCEPT ![o].attempts = Append(@, req[p].class)]
     /\ duty' = [duty EXCEPT ![p] = NoDuty]
     /\ madeFor' = [madeFor EXCEPT ![req[p].id] = o]

\* The session and its line in the obligation's ledger commit together.
CommitMakeup(p) ==
  LET o == duty[p].for
  IN /\ Doing(p, "schedule", "write")
     /\ Commit(p)
     /\ comp' = [comp EXCEPT ![o].attempts = Append(@, req[p].id)]
     /\ duty' = [duty EXCEPT ![p] = NoDuty]
     /\ madeFor' = [madeFor EXCEPT ![req[p].id] = o]

FailDuty(p) ==
  /\ duty[p] # NoDuty
  /\ RollBack(p)
  /\ duty' = [duty EXCEPT ![p] = NoDuty]
  /\ UNCHANGED <<comp, madeFor>>

-----------------------------------------------------------------------------

\* What scheduling does meanwhile; a moved make-up stays one.
Elsewhere(p) ==
  /\ duty[p] = NoDuty
  /\ Call(p) \/ Continue(p)
  /\ madeFor' = [i \in Ids |->
       IF ~Exists(i) /\ Exists(i)' /\ session'[i].movedFrom \in Ids
       THEN madeFor[session'[i].movedFrom] ELSE madeFor[i]]
  /\ UNCHANGED <<comp, duty>>

\* The originals were booked and cancelled before.
MakeupInit ==
  /\ DbInit
  /\ class \in [Classes -> [status : {"active"}, plan : Plans]]
  /\ \E c \in Classes, slot \in Bookings :
       session = [i \in Ids |->
         IF i \in Originals THEN Booked(c, slot, "cancelled", "manual", None) ELSE Unborn]
  /\ students = Students
  /\ attended = {}
  /\ req = [p \in Requests |-> Idle]
  /\ comp = [o \in Originals |-> [status |-> "none", attempts |-> <<>>]]
  /\ duty = [p \in Requests |-> NoDuty]
  /\ madeFor = [i \in Ids |-> None]

MakeupNext ==
  \E p \in Requests :
    \/ Register(p) \/ Schedule(p) \/ Complete(p)
    \/ SaveObligation(p) \/ CommitObligation(p) \/ SaveMakeup(p) \/ CommitMakeup(p)
    \/ FailDuty(p) \/ Elsewhere(p)

MakeupSpec == MakeupInit /\ [][MakeupNext]_makeupVars

-----------------------------------------------------------------------------
(* Properties                                                              *)

Family(o) == {i \in Ids : madeFor[i] = o}
LiveMakeups(o) == {i \in Family(o) : Live(i)}

\* lineageOf follows an obligation through one deleted link (two may hide a live
\* session behind them), and through MaxMoves moves.
Traceable(o) ==
  /\ Cardinality({i \in Family(o) : session[i] = Deleted}) < 2
  /\ Cardinality(Family(o)) <= MaxMoves + 1

\* "At most one live make-up per obligation" (compensation README, section 4),
\* wherever it was moved, as far as the derivation can follow.
OneLiveMakeupWhileTraceable ==
  \A o \in Originals : Traceable(o) => Cardinality(LiveMakeups(o)) <= 1

\* "`complete` refuses to discharge one that is not [live]": at the moment an
\* obligation is discharged, its make-up stands.
DischargedWhileLive ==
  [][\A o \in Originals :
       comp[o].status = "open" /\ comp'[o].status = "completed" => LiveMakeups(o) # {}]_makeupVars

\* COMPENSATION_MAKEUP_CAP_REACHED: racing registrations do not exceed the cap.
MakeupCapRespected ==
  Cardinality({o \in Originals : comp[o].status # "none"}) <= Cap

\* What the register of make-ups promises whatever registrations, bookings,
\* moves and deletes interleave: the cap, and one live make-up per obligation.
MakeupsHold == MakeupCapRespected /\ OneLiveMakeupWhileTraceable
=============================================================================
