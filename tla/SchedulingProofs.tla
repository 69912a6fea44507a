--------------------------- MODULE SchedulingProofs ---------------------------
(***************************************************************************)
(* Proofs about Scheduling and about Makeups, which builds on it.  On      *)
(* either engine: typing, that a move and its replacement name each other, *)
(* and that attendance and cancellations stand.  On sqlite, where readers  *)
(* keep writers from committing: no double booking, no plan that is stale  *)
(* when it is written, the cap on make-ups, and no discharge without a     *)
(* live one.                                                               *)
(***************************************************************************)
EXTENDS Makeups, DatabaseProofs, SequenceTheorems, FiniteSetTheorems, WellFoundedInduction

\* A generation names its class and marks nobody, and every other request
\* names its session.
Named ==
  \A p \in Requests :
    req[p].pc # "idle" =>
      IF req[p].op = "generate" THEN req[p].class \in Classes /\ req[p].marking = {}
      ELSE req[p].id \in Ids

TypeInv ==
  /\ DbTypeOK
  /\ class \in [Classes -> ClassRow]
  /\ session \in [Ids -> SessionRow \cup {Unborn, Deleted}]
  /\ students \subseteq Students
  /\ attended \subseteq Ids \X Students
  /\ req \in [Requests -> Request]
  /\ Named

LEMMA TypeInvImpliesTypeOK == TypeInv => TypeOK
<1> SUFFICES ASSUME TypeInv, NEW p \in Requests
             PROVE  /\ \A w \in req[p].writes : w \in Write
                    /\ [req[p] EXCEPT !.writes = {}] \in Request
  BY DEF TypeInv, TypeOK
<1> QED
  BY DEF TypeInv, Request

LEMMA NoneIsNoId == None \notin Ids /\ None \notin Classes
BY SchedulingAssumption

LEMMA ExistingRow ==
  ASSUME TypeInv, NEW i \in Ids, Exists(i) PROVE session[i] \in SessionRow
BY DEF TypeInv, Exists, Unborn, Deleted

LEMMA BookedTyped ==
  ASSUME NEW c \in Classes, NEW slot \in Slots, NEW status \in {"scheduled", "cancelled"},
         NEW origin \in {"manual", "generated"}, NEW from \in Ids \cup {None}
  PROVE  Booked(c, slot, status, origin, from) \in SessionRow
BY DEF Booked, SessionRow

LEMMA GeneratedId ==
  ASSUME NEW c \in Classes, NEW slot \in Slots PROVE SlotId(c, slot) \in Ids
BY DEF Ids

\* The recurrence of a class gives slots, one for each date.
LEMMA FollowingSlots ==
  ASSUME TypeInv, NEW c \in Classes, NEW days \in SUBSET Dates
  PROVE  /\ Following(c, days) \subseteq Slots
         /\ \A s, t \in Following(c, days) : s # t => s.date # t.date
<1>1. class[c].plan \in Plans
  BY DEF TypeInv, ClassRow
<1>2. Following(c, days) \subseteq Slots
  BY <1>1 DEF Following, Slots
<1>3. \A d \in days : SlotOn(d, class[c].plan).date = d
  BY DEF SlotOn
<1> QED
  BY <1>2, <1>3 DEF Following

\* A register names the students it marks, and other calls on a session none.
Starts(p, op, i, c, writes) == \E marked \in SUBSET Students : Start(p, op, i, c, writes, marked)

LEMMA BeginStarts ==
  ASSUME NEW p, NEW op, NEW i, NEW c, NEW writes, Begin(p, op, i, c, writes)
  PROVE  Starts(p, op, i, c, writes)
BY DEF Begin, Starts

LEMMA MarkStarts ==
  ASSUME TypeInv, NEW p \in Requests, Mark(p)
  PROVE  \E i \in Ids : Exists(i) /\ LockingRead(p, i) /\ Starts(p, "mark", i, None, {})
<1>1. PICK i \in Ids, marked \in SUBSET students :
        Exists(i) /\ LockingRead(p, i) /\ Start(p, "mark", i, None, {}, marked)
  BY DEF Mark
<1>2. marked \in SUBSET Students
  BY DEF TypeInv
<1> QED
  BY <1>1, <1>2 DEF Starts

\* Every call but a generation stages its rows in one step.
LEMMA BeginTyped ==
  ASSUME TypeInv, NEW p \in Requests, NEW op \in Ops \ {"generate"},
         NEW i \in Ids, NEW c \in Classes \cup {None}, NEW writes \in SUBSET Write,
         DbTypeOK', Begin(p, op, i, c, writes) \/ Starts(p, op, i, c, writes)
  PROVE  TypeInv'
<1>0. PICK marked \in SUBSET Students : Start(p, op, i, c, writes, marked)
  BY BeginStarts DEF Starts
<1>1. req' \in [Requests -> Request]
  BY <1>0 DEF Start, TypeInv, Request, Idle, Places
<1>2. Named'
  BY <1>0 DEF Start, TypeInv, Request, Idle, Named
<1> QED
  BY <1>0, <1>1, <1>2 DEF Start, TypeInv, tables

\* The calls on one session read it, or its calendar, and stage their rows.
Books(p) == Create(p) \/ Update(p) \/ Cancel(p) \/ Reschedule(p) \/ Delete(p) \/ Mark(p)
Asks(p) == Books(p) \/ Plan(p) \/ EditClass(p) \/ DeleteClass(p) \/ DeleteStudent(p)
StepOf(p) == Asks(p) \/ Continue(p)

LEMMA StepsOfNext == \A p \in Requests : (Call(p) => Asks(p)) /\ (Call(p) \/ Continue(p) => StepOf(p))
BY DEF Call, Asks, Books, StepOf

LEMMA CallTyped ==
  ASSUME TypeInv, NEW p \in Requests, Asks(p) PROVE TypeInv'
<1> USE NoneIsNoId
<1>1. CASE Create(p)
  <2>1. PICK i \in ManualIds, c \in Classes, slot \in Bookings,
             status \in {"scheduled", "cancelled"} :
          /\ PlainRead(p)
          /\ Begin(p, "create", i, c, {WriteTo(i, Booked(c, slot, status, "manual", None))})
    BY <1>1 DEF Create
  <2>2. i \in Ids /\ slot \in Slots
    BY DEF Ids, Slots
  <2>3. {WriteTo(i, Booked(c, slot, status, "manual", None))} \in SUBSET Write
    BY <2>2, BookedTyped DEF WriteTo, Write
  <2> QED
    BY <2>1, <2>2, <2>3, BeginTyped, DbTyped DEF TypeInv, Ops
<1>2. CASE Update(p)
  <2>1. PICK i \in Ids, slot \in Bookings :
          /\ Exists(i) /\ LockingRead(p, i)
          /\ Begin(p, "update", i, None, {WriteTo(i, [session[i] EXCEPT !.at = slot])})
    BY <1>2 DEF Update
  <2>2. [session[i] EXCEPT !.at = slot] \in SessionRow
    BY <2>1, ExistingRow DEF SessionRow, Slots
  <2>3. {WriteTo(i, [session[i] EXCEPT !.at = slot])} \in SUBSET Write
    BY <2>2 DEF WriteTo, Write
  <2> QED
    BY <2>1, <2>3, BeginTyped, DbTyped DEF TypeInv, Ops
<1>3. CASE Cancel(p)
  <2>1. PICK i \in Ids :
          /\ Live(i) /\ LockingRead(p, i)
          /\ Begin(p, "cancel", i, None, {WriteTo(i, [session[i] EXCEPT !.status = "cancelled"])})
    BY <1>3 DEF Cancel
  <2>2. [session[i] EXCEPT !.status = "cancelled"] \in SessionRow
    BY <2>1, ExistingRow DEF SessionRow, Live, Exists
  <2>3. {WriteTo(i, [session[i] EXCEPT !.status = "cancelled"])} \in SUBSET Write
    BY <2>2 DEF WriteTo, Write
  <2> QED
    BY <2>1, <2>3, BeginTyped, DbTyped DEF TypeInv, Ops
<1>4. CASE Reschedule(p)
  <2>1. PICK i \in Ids, j \in ManualIds, slot \in Bookings :
          /\ Live(i) /\ LockingRead(p, i)
          /\ Begin(p, "reschedule", i, session[i].class,
               {WriteTo(j, Booked(session[i].class, slot, "scheduled", "manual", i)),
                WriteTo(i, [session[i] EXCEPT !.status = "cancelled", !.movedTo = j])})
    BY <1>4 DEF Reschedule
  <2>2. j \in Ids /\ slot \in Slots /\ session[i] \in SessionRow
    BY <2>1, ExistingRow DEF Ids, Slots, Live, Exists
  <2>3. session[i].class \in Classes
    BY <2>2 DEF SessionRow
  <2>4. WriteTo(i, [session[i] EXCEPT !.status = "cancelled", !.movedTo = j]) \in Write
    BY <2>2 DEF WriteTo, Write, SessionRow
  <2>5. WriteTo(j, Booked(session[i].class, slot, "scheduled", "manual", i)) \in Write
    BY <2>2, <2>3, BookedTyped DEF WriteTo, Write
  <2>6. {WriteTo(j, Booked(session[i].class, slot, "scheduled", "manual", i)),
         WriteTo(i, [session[i] EXCEPT !.status = "cancelled", !.movedTo = j])} \in SUBSET Write
    BY <2>4, <2>5
  <2> QED
    BY <2>1, <2>3, <2>6, BeginTyped, DbTyped DEF TypeInv, Ops
<1>5. CASE Delete(p)
  <2>1. PICK i \in Ids :
          LockingRead(p, i) /\ Begin(p, "delete", i, None, {WriteTo(i, Deleted)})
    BY <1>5 DEF Delete
  <2>2. {WriteTo(i, Deleted)} \in SUBSET Write
    BY DEF WriteTo, Write
  <2> QED
    BY <2>1, <2>2, BeginTyped, DbTyped DEF TypeInv, Ops
<1>6. CASE Mark(p)
  <2>1. PICK i \in Ids : LockingRead(p, i) /\ Starts(p, "mark", i, None, {})
    BY <1>6, MarkStarts
  <2> QED
    BY <2>1, BeginTyped, DbTyped DEF TypeInv, Ops
<1>7. CASE Plan(p)
  <2> DEFINE creates(c, days) == {s \in Following(c, days) : ~Exists(SlotId(c, s))}
             updates(c, days, confirm) ==
               {s \in Following(c, days) : confirm /\ MayRewrite(SlotId(c, s), s)}
  <2>1. PICK c \in Classes, days \in SUBSET Dates, confirm \in BOOLEAN :
          /\ PlainRead(p)
          /\ req' = [req EXCEPT ![p] = [Idle EXCEPT !.op = "generate", !.pc = "write",
               !.class = c, !.creates = creates(c, days), !.updates = updates(c, days, confirm)]]
          /\ UNCHANGED tables
    BY <1>7 DEF Plan
  <2>2. creates(c, days) \subseteq Slots /\ updates(c, days, confirm) \subseteq Slots
    BY FollowingSlots
  <2> HIDE DEF creates, updates
  <2>3. req' \in [Requests -> Request] /\ Named'
    BY <2>1, <2>2 DEF TypeInv, Request, Idle, Places, Ops, Named
  <2> QED
    BY <2>1, <2>3, DbTyped DEF TypeInv, tables
<1>8. CASE EditClass(p)
  <2>1. UNCHANGED <<dbVars, session, students, attended, req>>
    BY <1>8 DEF EditClass, AutoCommitWrite
  <2>2. class' \in [Classes -> ClassRow]
    BY <1>8 DEF EditClass, TypeInv, ClassRow
  <2> QED
    BY <2>1, <2>2, DbTyped DEF TypeInv, Named
<1>9. CASE DeleteClass(p)
  <2>1. UNCHANGED <<dbVars, students, req>> /\ attended' \subseteq attended
    BY <1>9 DEF DeleteClass, AutoCommitWrite, RecordsOf
  <2>2. class' \in [Classes -> ClassRow]
    BY <1>9 DEF DeleteClass, TypeInv, ClassRow
  <2>3. session' \in [Ids -> SessionRow \cup {Unborn, Deleted}]
    BY <1>9 DEF DeleteClass, TypeInv
  <2> QED
    BY <2>1, <2>2, <2>3, DbTyped DEF TypeInv, Named
<1>10. CASE DeleteStudent(p)
  <2>1. UNCHANGED <<dbVars, class, session, req>> /\ students' \subseteq students
        /\ attended' \subseteq attended
    BY <1>10 DEF DeleteStudent, AutoCommitWrite
  <2> QED
    BY <2>1, DbTyped DEF TypeInv, Named
<1> QED
  BY <1>1, <1>2, <1>3, <1>4, <1>5, <1>6, <1>7, <1>8, <1>9, <1>10 DEF Asks, Books

\* What a generation writes is a row of its class at one of the slots.
LEMMA GenerateTyped ==
  ASSUME TypeInv, NEW p \in Requests, NEW s \in Slots, NEW row \in SessionRow,
         At(p, "generate", "write")
  PROVE  /\ req[p].class \in Classes
         /\ WriteTo(SlotId(req[p].class, s), row) \in Write
<1>1. req[p].class \in Classes
  BY DEF At, TypeInv, Named
<1> QED
  BY <1>1, GeneratedId DEF WriteTo, Write

LEMMA ContinueTyped ==
  ASSUME TypeInv, NEW p \in Requests, Continue(p) PROVE TypeInv'
<1> USE DEF TypeInv
<1>1. CASE Save(p) \/ Generated(p)
  <2>1. DbTypeOK'
    BY <1>1, DbTyped DEF Save, Generated
  <2>2. req' \in [Requests -> Request] /\ Named'
    BY <1>1 DEF Save, Generated, Request, Places, Named, At
  <2> QED
    BY <1>1, <2>1, <2>2 DEF Save, Generated, tables
<1>2. CASE Generate(p)
  <2>1. PICK s \in req[p].creates :
          LET i == SlotId(req[p].class, s)
              row == Booked(req[p].class, s, "scheduled", "generated", None)
          IN /\ At(p, "generate", "write") /\ WriteRow(p, i)
             /\ req' = [req EXCEPT ![p].creates = @ \ {s}, ![p].writes = @ \cup {WriteTo(i, row)}]
             /\ UNCHANGED tables
    BY <1>2 DEF Generate
  <2>2. s \in Slots /\ req[p].class \in Classes
    BY <2>1 DEF Request, At, Named
  <2> DEFINE w == WriteTo(SlotId(req[p].class, s),
                          Booked(req[p].class, s, "scheduled", "generated", None))
  <2>3. w \in Write
    BY <2>1, <2>2, BookedTyped, GenerateTyped
  <2>4. req' = [req EXCEPT ![p] = [req[p] EXCEPT !.creates = @ \ {s}, !.writes = @ \cup {w}]]
    BY <2>1
  <2> HIDE DEF w
  <2>5. req' \in [Requests -> Request] /\ Named'
    BY <2>3, <2>4, ZenonT(60) DEF Request, Named
  <2> QED
    BY <2>1, <2>5, DbTyped DEF tables
<1>3. CASE Rewrite(p)
  <2>1. PICK s \in req[p].updates :
          LET i == SlotId(req[p].class, s)
          IN /\ At(p, "generate", "write") /\ WriteRow(p, i)
             /\ req' = [req EXCEPT ![p].updates = @ \ {s},
                  ![p].writes = IF Exists(i) THEN @ \cup {WriteTo(i, [session[i] EXCEPT !.at = s])}
                                ELSE @]
             /\ UNCHANGED tables
    BY <1>3 DEF Rewrite
  <2> DEFINE i == SlotId(req[p].class, s)
             w == WriteTo(i, [session[i] EXCEPT !.at = s])
             writes == IF Exists(i) THEN req[p].writes \cup {w} ELSE req[p].writes
  <2>2. s \in Slots /\ req[p].class \in Classes
    BY <2>1 DEF Request, At, Named
  <2>3. Exists(i) => w \in Write
    <3> SUFFICES ASSUME Exists(i) PROVE w \in Write
      OBVIOUS
    <3>1. i \in Ids
      BY <2>2, GeneratedId
    <3>2. [session[i] EXCEPT !.at = s] \in SessionRow
      BY <3>1, <2>2, ExistingRow DEF SessionRow
    <3> QED
      BY <2>1, <2>2, <3>2, GenerateTyped
  <2>4. req' = [req EXCEPT ![p] = [req[p] EXCEPT !.updates = @ \ {s}, !.writes = writes]]
    BY <2>1
  <2>5. writes \subseteq Write
    BY <2>3 DEF Request
  <2> HIDE DEF writes
  <2>6. req' \in [Requests -> Request] /\ Named'
    BY <2>4, <2>5, ZenonT(60) DEF Request, Named
  <2> QED
    BY <2>1, <2>6, DbTyped DEF tables
<1>4. CASE Commit(p)
  <2> DEFINE written == {w.id : w \in req[p].writes}
             row(i) == (CHOOSE w \in req[p].writes : w.id = i).row
  <2>1. \A i \in written : row(i) \in SessionRow \cup {Deleted}
    <3> SUFFICES ASSUME NEW w \in req[p].writes
                 PROVE  row(w.id) \in SessionRow \cup {Deleted}
      OBVIOUS
    <3>1. (CHOOSE v \in req[p].writes : v.id = w.id) \in req[p].writes
      OBVIOUS
    <3> QED
      BY <3>1 DEF Request, Write
  <2> HIDE DEF row
  <2>2. session' = [i \in Ids |-> IF i \in written THEN row(i) ELSE session[i]]
    BY <1>4 DEF Commit, row
  <2>3. session' \in [Ids -> SessionRow \cup {Unborn, Deleted}]
    BY <2>1, <2>2
  <2>4. students' = students /\ attended' \subseteq Ids \X Students
    <3>1. \A s \in req[p].marking : req[p].id \in Ids /\ s \in Students
      BY <1>4 DEF Commit, Named, Request
    <3> QED
      BY <1>4, <3>1 DEF Commit
  <2>5. req' \in [Requests -> Request] /\ Named'
    BY <1>4 DEF Commit, Request, Idle, Ops, Places, Named
  <2>6. DbTypeOK'
    BY <1>4, DbTyped DEF Commit
  <2> QED
    BY <1>4, <2>3, <2>4, <2>5, <2>6 DEF Commit
<1>5. CASE Fail(p)
  <2>1. req' \in [Requests -> Request] /\ Named'
    BY <1>5 DEF Fail, RollBack, Request, Idle, Ops, Places, Named
  <2> QED
    BY <1>5, <2>1, DbTyped DEF Fail, RollBack, tables
<1> QED
  BY <1>1, <1>2, <1>3, <1>4, <1>5 DEF Continue

LEMMA InitTypeInv == Init => TypeInv
<1> SUFFICES ASSUME Init PROVE TypeInv
  OBVIOUS
<1>1. DbTypeOK
  BY NoneAssumption DEF Init, DbInit, DbTypeOK
<1>2. req \in [Requests -> Request] /\ Named
  BY DEF Init, Request, Idle, Ops, Places, Named
<1>3. class \in [Classes -> ClassRow]
  BY DEF Init, ClassRow
<1> QED
  BY <1>1, <1>2, <1>3 DEF Init, TypeInv

LEMMA NextTypeInv == TypeInv /\ [Next]_vars => TypeInv'
<1>1. ASSUME TypeInv, UNCHANGED vars PROVE TypeInv'
  BY <1>1 DEF TypeInv, vars, tables, dbVars, DbTypeOK, Named
<1> QED
  BY <1>1, CallTyped, ContinueTyped, StepsOfNext DEF Next

\* On either engine every row, lock and staged write stays well-typed.
THEOREM SchedulingTypeOK == Spec => []TypeOK
BY InitTypeInv, NextTypeInv, TypeInvImpliesTypeOK, PTL DEF Spec

-----------------------------------------------------------------------------
(***************************************************************************)
(* No double booking, on sqlite.  A request holds SHARED from the read it  *)
(* decides on until it ends, and a commit that changes sessions needs every *)
(* other SHARED lock gone: so what a request found free is still free when *)
(* it commits, and what it stages must only fit that state and itself.     *)
(***************************************************************************)

Written(p) == {w.id : w \in req[p].writes}
TakesPlace(w) == w.row.status = "scheduled"

ServingIsShared == \A p \in Requests : req[p].pc # "idle" => p \in shared

WriterReserved ==
  \A p \in Requests :
    req[p].writes # {} /\ (req[p].op = "generate" \/ req[p].pc = "commit")
      => reserved = p

\* The staged rows clash neither with a session that stays nor with each other.
StagedFits(p) ==
  \A w \in req[p].writes : TakesPlace(w) =>
    /\ \A i \in Ids : Live(i) /\ i \notin Written(p) => ~Clash(session[i].at, w.row.at)
    /\ \A v \in req[p].writes : TakesPlace(v) /\ v.id # w.id => ~Clash(v.row.at, w.row.at)

\* The slots a generation has still to write, and those it has written.
PlanSlots(p) == req[p].creates \cup req[p].updates \cup {w.row.at : w \in req[p].writes}

\* They clash with no session but the one they belong to, and a day has one.
PlanFits(p) ==
  /\ \A s \in PlanSlots(p), i \in Ids :
       Live(i) /\ i # SlotId(req[p].class, s) => ~Clash(session[i].at, s)
  /\ \A s, t \in PlanSlots(p) : s # t => s.date # t.date
  /\ \A w \in req[p].writes : w.id = SlotId(req[p].class, w.row.at)

Fits ==
  \A p \in Requests :
    req[p].pc # "idle" =>
      IF req[p].op = "generate" THEN PlanFits(p) ELSE StagedFits(p)

BookingInv ==
  /\ TypeInv
  /\ NoDoubleBooking
  /\ ServingIsShared /\ WriterReserved
  /\ Fits

LEMMA ClashSymmetric == \A a, b : Clash(a, b) => Clash(b, a)
BY DEF Clash, Overlap

LEMMA PlanIsStaged ==
  ASSUME NEW p \in Requests, PlanFits(p) PROVE StagedFits(p)
<1> SUFFICES ASSUME NEW w \in req[p].writes, TakesPlace(w)
             PROVE  /\ \A i \in Ids : Live(i) /\ i \notin Written(p)
                          => ~Clash(session[i].at, w.row.at)
                    /\ \A v \in req[p].writes : TakesPlace(v) /\ v.id # w.id
                          => ~Clash(v.row.at, w.row.at)
  BY DEF StagedFits
<1>1. w.row.at \in PlanSlots(p) /\ w.id \in Written(p)
  BY DEF PlanSlots, Written
<1>2. ASSUME NEW i \in Ids, Live(i), i \notin Written(p) PROVE ~Clash(session[i].at, w.row.at)
  BY <1>1, <1>2 DEF PlanFits
<1>3. ASSUME NEW v \in req[p].writes, v.id # w.id PROVE ~Clash(v.row.at, w.row.at)
  <2>1. v.row.at \in PlanSlots(p) /\ v.row.at # w.row.at
    BY <1>3 DEF PlanSlots, PlanFits
  <2>2. v.row.at.date # w.row.at.date
    BY <1>1, <2>1 DEF PlanFits
  <2> QED
    BY <2>2 DEF Clash, Overlap
<1> QED
  BY <1>2, <1>3

\* Sessions that end, or stay, disturb nothing that fits.
LEMMA FewerSessions ==
  ASSUME \A i \in Ids : Live(i)' => Live(i) /\ session'[i] = session[i]
  PROVE  /\ NoDoubleBooking => NoDoubleBooking'
         /\ \A q \in Requests :
              req'[q] = req[q] => /\ PlanFits(q) => PlanFits(q)'
                                  /\ StagedFits(q) => StagedFits(q)'
<1>1. NoDoubleBooking => NoDoubleBooking'
  BY DEF NoDoubleBooking
<1>2. ASSUME NEW q \in Requests, req'[q] = req[q], PlanFits(q) PROVE PlanFits(q)'
  BY <1>2 DEF PlanFits, PlanSlots
<1>3. ASSUME NEW q \in Requests, req'[q] = req[q], StagedFits(q) PROVE StagedFits(q)'
  BY <1>3 DEF StagedFits, Written
<1> QED
  BY <1>1, <1>2, <1>3

\* A step of one worker, as the others see it.
LEMMA OthersUndisturbed ==
  ASSUME BookingInv, ~HasRowLocks, NEW p \in Requests, NEW r,
         \/ UNCHANGED dbVars \/ EndTx(p) \/ CommitTx(p)
         \/ PlainRead(p) \/ LockingRead(p, r) \/ WriteRow(p, r),
         \A q \in Requests \ {p} : req'[q] = req[q],
         \A i \in Ids : Live(i)' => Live(i) /\ session'[i] = session[i],
         req'[p].pc # "idle" => p \in shared',
         req'[p].writes # {} /\ (req'[p].op = "generate" \/ req'[p].pc = "commit")
           => reserved' = p,
         req'[p].pc # "idle" =>
           IF req'[p].op = "generate" THEN PlanFits(p)' ELSE StagedFits(p)',
         TypeInv'
  PROVE  BookingInv'
<1>1. NoDoubleBooking'
  BY FewerSessions DEF BookingInv
<1>2. \A q \in Requests \ {p} :
        /\ q \in shared => q \in shared'
        /\ reserved = q => reserved' = q
  <2>1. DbTypeOK
    BY DEF BookingInv, TypeInv
  <2> QED
    BY <2>1, WriterKept
<1>3. ServingIsShared'
  BY <1>2 DEF BookingInv, ServingIsShared
<1>5. WriterReserved'
  <2> SUFFICES ASSUME NEW q \in Requests, req'[q].writes # {},
                      req'[q].op = "generate" \/ req'[q].pc = "commit"
               PROVE  reserved' = q
    BY DEF WriterReserved
  <2>1. CASE q # p
    BY <2>1, <1>2 DEF BookingInv, WriterReserved
  <2> QED
    BY <2>1
<1>4. Fits'
  BY FewerSessions DEF BookingInv, Fits
<1> QED
  BY <1>1, <1>3, <1>4, <1>5 DEF BookingInv

LEMMA BeginFits ==
  ASSUME BookingInv, ~HasRowLocks, TypeInv', NEW p \in Requests,
         NEW op \in Ops \ {"generate"}, NEW i, NEW c, NEW writes,
         PlainRead(p) \/ LockingRead(p, i),
         Begin(p, op, i, c, writes) \/ Starts(p, op, i, c, writes),
         \A w \in writes : TakesPlace(w) =>
           /\ \A k \in Ids : Live(k) /\ k \notin {v.id : v \in writes}
                              => ~Clash(session[k].at, w.row.at)
           /\ \A v \in writes : TakesPlace(v) => v.id = w.id
  PROVE  BookingInv'
<1>0. PICK marked \in SUBSET Students : Start(p, op, i, c, writes, marked)
  BY BeginStarts DEF Starts
<1>1. /\ \A q \in Requests \ {p} : req'[q] = req[q]
      /\ req'[p].op = op /\ req'[p].pc = "write" /\ req'[p].writes = writes
      /\ session' = session
  BY <1>0 DEF Start, Idle, BookingInv, TypeInv, tables
<1>2. StagedFits(p)'
  BY <1>1 DEF StagedFits, Written, Live
<1>3. p \in shared'
  BY ReaderIsShared
<1> QED
  BY <1>1, <1>2, <1>3, OthersUndisturbed DEF Live

\* Bookable is what a staged row needs to fit.
LEMMA BookableFits ==
  ASSUME NEW self, NEW c, NEW slot, Bookable(self, c, slot)
  PROVE  \A i \in Ids : Live(i) /\ i # self => ~Clash(session[i].at, slot)
BY DEF Bookable

LEMMA CallBookingInv ==
  ASSUME BookingInv, ~HasRowLocks, NEW p \in Requests, Call(p) PROVE BookingInv'
<1>t. TypeInv /\ TypeInv'
  BY CallTyped, StepsOfNext DEF BookingInv
<1>1. CASE Create(p)
  <2>1. PICK i \in ManualIds, c \in Classes, slot \in Bookings,
             status \in {"scheduled", "cancelled"} :
          /\ Bookable(None, c, slot) /\ PlainRead(p)
          /\ Begin(p, "create", i, c, {WriteTo(i, Booked(c, slot, status, "manual", None))})
    BY <1>1 DEF Create
  <2>2. \A k \in Ids : Live(k) => ~Clash(session[k].at, slot)
    BY <2>1, BookableFits, NoneIsNoId
  <2> DEFINE w == WriteTo(i, Booked(c, slot, status, "manual", None))
  <2>3. w.row.at = slot
    BY DEF WriteTo, Booked
  <2>4. Begin(p, "create", i, c, {w})
    BY <2>1
  <2> HIDE DEF w
  <2> QED
    BY <1>t, <2>1, <2>2, <2>3, <2>4, BeginFits DEF Ops
<1>2. CASE Update(p)
  <2>1. PICK i \in Ids, slot \in Bookings :
          /\ Exists(i) /\ Bookable(i, session[i].class, slot) /\ LockingRead(p, i)
          /\ Begin(p, "update", i, None, {WriteTo(i, [session[i] EXCEPT !.at = slot])})
    BY <1>2 DEF Update
  <2>2. \A k \in Ids : Live(k) /\ k # i => ~Clash(session[k].at, slot)
    BY <2>1, BookableFits
  <2> DEFINE w == WriteTo(i, [session[i] EXCEPT !.at = slot])
  <2>3. w.row.at = slot /\ w.id = i
    BY <1>t, <2>1, ExistingRow DEF SessionRow, WriteTo
  <2>4. Begin(p, "update", i, None, {w})
    BY <2>1
  <2> HIDE DEF w
  <2>5. \A k \in Ids : Live(k) /\ k \notin {v.id : v \in {w}} => ~Clash(session[k].at, w.row.at)
    BY <2>2, <2>3
  <2> QED
    BY <1>t, <2>1, <2>4, <2>5, BeginFits DEF Ops
<1>3. CASE Cancel(p)
  <2>1. PICK i \in Ids :
          /\ Live(i) /\ LockingRead(p, i)
          /\ Begin(p, "cancel", i, None, {WriteTo(i, [session[i] EXCEPT !.status = "cancelled"])})
    BY <1>3 DEF Cancel
  <2> DEFINE w == WriteTo(i, [session[i] EXCEPT !.status = "cancelled"])
  <2>2. ~TakesPlace(w)
    BY <1>t, <2>1, ExistingRow DEF SessionRow, Live, Exists, WriteTo, TakesPlace
  <2>3. Begin(p, "cancel", i, None, {w})
    BY <2>1
  <2> HIDE DEF w
  <2> QED
    BY <1>t, <2>1, <2>2, <2>3, BeginFits DEF Ops
<1>4. CASE Reschedule(p)
  <2>1. PICK i \in Ids, j \in ManualIds, slot \in Bookings :
          /\ Live(i) /\ Bookable(i, session[i].class, slot) /\ LockingRead(p, i)
          /\ Begin(p, "reschedule", i, session[i].class,
               {WriteTo(j, Booked(session[i].class, slot, "scheduled", "manual", i)),
                WriteTo(i, [session[i] EXCEPT !.status = "cancelled", !.movedTo = j])})
    BY <1>4 DEF Reschedule
  <2> DEFINE new == WriteTo(j, Booked(session[i].class, slot, "scheduled", "manual", i))
             old == WriteTo(i, [session[i] EXCEPT !.status = "cancelled", !.movedTo = j])
  <2>2. \A k \in Ids : Live(k) /\ k # i => ~Clash(session[k].at, slot)
    BY <2>1, BookableFits
  <2>3. ~TakesPlace(old) /\ old.id = i
    BY <1>t, <2>1, ExistingRow DEF SessionRow, Live, Exists, WriteTo, TakesPlace
  <2>4. new.row.at = slot
    BY DEF WriteTo, Booked
  <2> HIDE DEF new, old
  <2>5. \A w \in {new, old} : TakesPlace(w) =>
           /\ \A k \in Ids : Live(k) /\ k \notin {v.id : v \in {new, old}}
                              => ~Clash(session[k].at, w.row.at)
           /\ \A v \in {new, old} : TakesPlace(v) => v.id = w.id
    BY <2>2, <2>3, <2>4
  <2>6. Begin(p, "reschedule", i, session[i].class, {new, old})
    BY <2>1 DEF new, old
  <2> QED
    BY <1>t, <2>1, <2>5, <2>6, BeginFits DEF Ops
<1>5. CASE Delete(p)
  <2>1. PICK i \in Ids :
          LockingRead(p, i) /\ Begin(p, "delete", i, None, {WriteTo(i, Deleted)})
    BY <1>5 DEF Delete
  <2> QED
    BY <1>t, <2>1, BeginFits DEF Ops, WriteTo, TakesPlace, Deleted
<1>6. CASE Mark(p)
  <2>1. PICK i \in Ids : LockingRead(p, i) /\ Starts(p, "mark", i, None, {})
    BY <1>t, <1>6, MarkStarts
  <2> QED
    BY <1>t, <2>1, BeginFits DEF Ops
<1>7. CASE Plan(p)
  <2> DEFINE creates(c, days) == {s \in Following(c, days) : ~Exists(SlotId(c, s))}
             updates(c, days, confirm) ==
               {s \in Following(c, days) : confirm /\ MayRewrite(SlotId(c, s), s)}
  <2>1. PICK c \in Classes, days \in SUBSET Dates, confirm \in BOOLEAN :
          /\ \A s \in creates(c, days) : Bookable(None, c, s)
          /\ \A s \in updates(c, days, confirm) : Bookable(SlotId(c, s), c, s)
          /\ PlainRead(p)
          /\ req' = [req EXCEPT ![p] = [Idle EXCEPT !.op = "generate", !.pc = "write",
               !.class = c, !.creates = creates(c, days), !.updates = updates(c, days, confirm)]]
          /\ UNCHANGED tables
    BY <1>7 DEF Plan
  <2>2. creates(c, days) \cup updates(c, days, confirm) \subseteq Following(c, days)
    OBVIOUS
  <2> HIDE DEF creates, updates
  <2>3. /\ \A q \in Requests \ {p} : req'[q] = req[q]
        /\ req'[p].op = "generate" /\ req'[p].class = c /\ req'[p].writes = {}
        /\ req'[p].creates = creates(c, days)
        /\ req'[p].updates = updates(c, days, confirm)
        /\ session' = session
    BY <2>1 DEF Idle, BookingInv, TypeInv, tables
  <2>4. PlanSlots(p)' = creates(c, days) \cup updates(c, days, confirm)
    BY <2>3 DEF PlanSlots
  <2>5. \A s \in PlanSlots(p)', i \in Ids :
           Live(i) /\ i # SlotId(c, s) => ~Clash(session[i].at, s)
    BY <2>1, <2>4, BookableFits, NoneIsNoId
  <2>6. \A s, t \in PlanSlots(p)' : s # t => s.date # t.date
    BY <1>t, <2>2, <2>4, FollowingSlots
  <2>7. PlanFits(p)'
    BY <2>3, <2>5, <2>6 DEF PlanFits, Live
  <2>8. p \in shared'
    BY <2>1, ReaderIsShared
  <2> QED
    BY <1>t, <2>1, <2>3, <2>7, <2>8, OthersUndisturbed DEF Live
<1>8. CASE EditClass(p) \/ DeleteClass(p) \/ DeleteStudent(p)
  <2>1. UNCHANGED <<dbVars, req>>
    BY <1>8 DEF EditClass, DeleteClass, DeleteStudent, AutoCommitWrite
  <2>2. \A i \in Ids : Live(i)' => Live(i) /\ session'[i] = session[i]
    BY <1>8 DEF EditClass, DeleteClass, DeleteStudent, Live, Deleted
  <2>3. NoDoubleBooking'
    BY <2>2, FewerSessions DEF BookingInv
  <2>4. Fits'
    BY <2>1, <2>2, FewerSessions DEF BookingInv, Fits
  <2>5. ServingIsShared' /\ WriterReserved'
    BY <2>1 DEF BookingInv, ServingIsShared, WriterReserved, dbVars
  <2> QED
    BY <1>t, <2>3, <2>4, <2>5 DEF BookingInv
<1> QED
  BY <1>1, <1>2, <1>3, <1>4, <1>5, <1>6, <1>7, <1>8 DEF Call

\* A generation that turns slots it planned into rows still fits.
LEMMA GenerationAdvances ==
  ASSUME BookingInv, ~HasRowLocks, TypeInv', NEW p \in Requests, NEW i,
         At(p, "generate", "write"), WriteRow(p, i), UNCHANGED tables,
         \A q \in Requests \ {p} : req'[q] = req[q],
         req'[p].op = "generate", req'[p].pc # "idle", req'[p].class = req[p].class,
         PlanSlots(p)' \subseteq PlanSlots(p),
         \A w \in req'[p].writes \ req[p].writes : w.id = SlotId(req[p].class, w.row.at)
  PROVE  BookingInv'
<1>1. PlanFits(p) /\ session' = session
  BY DEF BookingInv, Fits, At, tables
<1>2. PlanFits(p)'
  BY <1>1 DEF PlanFits, Live
<1>3. p \in shared' /\ reserved' = p
  BY ReaderIsShared
<1> QED
  BY <1>1, <1>2, <1>3, OthersUndisturbed DEF Live

\* The commit of rows that fit.  Nobody else has read anything, so no other
\* request has decided on the state that is changing.
LEMMA CommitBookingInv ==
  ASSUME BookingInv, ~HasRowLocks, TypeInv', NEW p \in Requests, Commit(p)
  PROVE  BookingInv'
<1> DEFINE row(i) == (CHOOSE w \in req[p].writes : w.id = i).row
<1>1. /\ CommitTx(p)
      /\ req[p].pc = "commit"
      /\ session' = [i \in Ids |-> IF i \in Written(p) THEN row(i) ELSE session[i]]
      /\ req' = [req EXCEPT ![p] = Idle]
  BY DEF Commit, Written
<1>2. /\ \A q \in Requests \ {p} : req'[q] = req[q]
      /\ req'[p].pc = "idle" /\ req'[p].writes = {}
  BY <1>1 DEF BookingInv, TypeInv, Idle
<1>3. CASE req[p].writes = {}
  <2>1. \A i \in Ids : session'[i] = session[i]
    BY <1>1, <1>3 DEF Written
  <2> QED
    BY <1>1, <1>2, <2>1, OthersUndisturbed DEF Live
<1>4. CASE req[p].writes # {}
  <2>1. reserved = p /\ shared \subseteq {p}
    BY <1>1, <1>4 DEF BookingInv, WriterReserved, CommitTx
  <2>3. \A q \in Requests : req'[q].pc = "idle"
    BY <1>2, <2>1 DEF BookingInv, ServingIsShared
  <2>4. ServingIsShared' /\ Fits'
    BY <2>3 DEF ServingIsShared, Fits
  <2>5. WriterReserved'
    <3>1. \A q \in Requests \ {p} : ~(req[q].writes # {} /\ req[q].op = "generate")
      BY <2>1 DEF BookingInv, WriterReserved
    <3> QED
      BY <1>2, <2>3, <3>1 DEF WriterReserved
  <2>6. StagedFits(p)
    BY <1>1, PlanIsStaged DEF BookingInv, Fits
  <2>7. \A i \in Written(p) :
          \E w \in req[p].writes : w.id = i /\ row(i) = w.row
    <3> SUFFICES ASSUME NEW u \in req[p].writes
                 PROVE  \E w \in req[p].writes : w.id = u.id /\ row(u.id) = w.row
      BY DEF Written
    <3>1. (CHOOSE w \in req[p].writes : w.id = u.id) \in req[p].writes
          /\ (CHOOSE w \in req[p].writes : w.id = u.id).id = u.id
      OBVIOUS
    <3> QED
      BY <3>1
  <2> HIDE DEF row
  <2>8. NoDoubleBooking'
    <3> SUFFICES ASSUME NEW i \in Ids, NEW j \in Ids, i # j, Live(i)', Live(j)'
                 PROVE  ~Clash(session'[i].at, session'[j].at)
      BY DEF NoDoubleBooking
    <3>1. CASE i \notin Written(p) /\ j \notin Written(p)
      BY <1>1, <3>1 DEF BookingInv, NoDoubleBooking, Live
    <3>2. ASSUME NEW k \in Ids, NEW l \in Ids, k \in Written(p), l \notin Written(p),
                 Live(k)', Live(l)'
          PROVE  ~Clash(session'[l].at, session'[k].at)
      <4>1. PICK w \in req[p].writes : w.id = k /\ session'[k] = w.row
        BY <1>1, <2>7, <3>2
      <4>2. TakesPlace(w) /\ Live(l) /\ session'[l] = session[l]
        BY <1>1, <3>2, <4>1 DEF TakesPlace, Live
      <4> QED
        BY <2>6, <3>2, <4>1, <4>2 DEF StagedFits
    <3>3. CASE i \in Written(p) /\ j \in Written(p)
      <4>1. PICK w \in req[p].writes : w.id = i /\ session'[i] = w.row
        BY <1>1, <2>7, <3>3
      <4>2. PICK v \in req[p].writes : v.id = j /\ session'[j] = v.row
        BY <1>1, <2>7, <3>3
      <4>3. TakesPlace(w) /\ TakesPlace(v) /\ w.id # v.id
        BY <4>1, <4>2 DEF TakesPlace, Live
      <4> QED
        BY <2>6, <4>1, <4>2, <4>3 DEF StagedFits
    <3> QED
      BY <3>1, <3>2, <3>3, ClashSymmetric
  <2> QED
    BY <2>4, <2>5, <2>8 DEF BookingInv
<1> QED
  BY <1>3, <1>4

LEMMA ContinueBookingInv ==
  ASSUME BookingInv, ~HasRowLocks, NEW p \in Requests, Continue(p) PROVE BookingInv'
<1>t. TypeInv /\ TypeInv'
  BY ContinueTyped DEF BookingInv
<1>1. CASE Save(p)
  <2>1. /\ \A q \in Requests \ {p} : req'[q] = req[q]
        /\ req'[p] = [req[p] EXCEPT !.pc = "commit"]
        /\ req[p].pc = "write" /\ req[p].op # "generate"
        /\ WriteRow(p, req[p].id) /\ session' = session
    BY <1>t, <1>1 DEF Save, TypeInv, Request, tables
  <2>2. req'[p].op = req[p].op /\ req'[p].writes = req[p].writes
    BY <1>t, <2>1 DEF TypeInv, Request
  <2>3. StagedFits(p)'
    BY <2>1, <2>2 DEF BookingInv, Fits, StagedFits, Written, Live
  <2>4. p \in shared' /\ reserved' = p
    BY <2>1, ReaderIsShared
  <2> QED
    BY <1>t, <2>1, <2>2, <2>3, <2>4, OthersUndisturbed DEF Live
<1>2. CASE Generate(p)
  <2>1. PICK s \in req[p].creates :
          LET i == SlotId(req[p].class, s)
              row == Booked(req[p].class, s, "scheduled", "generated", None)
          IN /\ At(p, "generate", "write") /\ WriteRow(p, i)
             /\ req' = [req EXCEPT ![p].creates = @ \ {s}, ![p].writes = @ \cup {WriteTo(i, row)}]
             /\ UNCHANGED tables
    BY <1>2 DEF Generate
  <2> DEFINE i == SlotId(req[p].class, s)
             w == WriteTo(i, Booked(req[p].class, s, "scheduled", "generated", None))
  <2>2. w.id = SlotId(req[p].class, w.row.at) /\ w.row.at = s
    BY DEF WriteTo, Booked
  <2>3. req' = [req EXCEPT ![p] = [req[p] EXCEPT !.creates = @ \ {s}, !.writes = @ \cup {w}]]
    BY <2>1
  <2> HIDE DEF w
  <2>4. /\ \A q \in Requests \ {p} : req'[q] = req[q]
        /\ req'[p].op = "generate" /\ req'[p].pc = "write" /\ req'[p].class = req[p].class
        /\ req'[p].creates = req[p].creates \ {s} /\ req'[p].updates = req[p].updates
        /\ req'[p].writes = req[p].writes \cup {w}
    <3>1. /\ \A q \in Requests \ {p} : req'[q] = req[q]
          /\ req'[p] = [req[p] EXCEPT !.creates = @ \ {s}, !.writes = @ \cup {w}]
      BY <1>t, <2>3 DEF TypeInv
    <3>2. req[p] \in Request /\ req[p].op = "generate" /\ req[p].pc = "write"
      BY <1>t, <2>1 DEF TypeInv, At
    <3> QED
      BY <3>1, <3>2 DEF Request
  <2>5. PlanSlots(p)' \subseteq PlanSlots(p)
    BY <2>2, <2>4 DEF PlanSlots
  <2> QED
    BY <1>t, <2>1, <2>2, <2>4, <2>5, GenerationAdvances
<1>3. CASE Rewrite(p)
  <2>1. PICK s \in req[p].updates :
          LET i == SlotId(req[p].class, s)
          IN /\ At(p, "generate", "write") /\ WriteRow(p, i)
             /\ req' = [req EXCEPT ![p].updates = @ \ {s},
                  ![p].writes = IF Exists(i) THEN @ \cup {WriteTo(i, [session[i] EXCEPT !.at = s])}
                                ELSE @]
             /\ UNCHANGED tables
    BY <1>3 DEF Rewrite
  <2> DEFINE i == SlotId(req[p].class, s)
             w == WriteTo(i, [session[i] EXCEPT !.at = s])
             writes == IF Exists(i) THEN req[p].writes \cup {w} ELSE req[p].writes
  <2>2. Exists(i) => w.id = SlotId(req[p].class, w.row.at) /\ w.row.at = s
    <3>1. i \in Ids
      BY <1>t, <2>1, GeneratedId DEF TypeInv, Request, At, Named
    <3>2. Exists(i) => [session[i] EXCEPT !.at = s].at = s
      BY <1>t, <3>1, ExistingRow DEF SessionRow
    <3> QED
      BY <3>2 DEF WriteTo
  <2>3. req' = [req EXCEPT ![p] = [req[p] EXCEPT !.updates = @ \ {s}, !.writes = writes]]
    BY <2>1
  <2>4. writes \subseteq req[p].writes \cup {w} /\ (~Exists(i) => writes = req[p].writes)
    OBVIOUS
  <2> HIDE DEF w, writes
  <2>5. /\ \A q \in Requests \ {p} : req'[q] = req[q]
        /\ req'[p].op = "generate" /\ req'[p].pc = "write" /\ req'[p].class = req[p].class
        /\ req'[p].creates = req[p].creates /\ req'[p].updates = req[p].updates \ {s}
        /\ req'[p].writes = writes
    <3>1. /\ \A q \in Requests \ {p} : req'[q] = req[q]
          /\ req'[p] = [req[p] EXCEPT !.updates = @ \ {s}, !.writes = writes]
      BY <1>t, <2>3 DEF TypeInv
    <3>2. req[p] \in Request /\ req[p].op = "generate" /\ req[p].pc = "write"
      BY <1>t, <2>1 DEF TypeInv, At
    <3> QED
      BY <3>1, <3>2 DEF Request
  <2>6. PlanSlots(p)' \subseteq PlanSlots(p)
    BY <2>2, <2>4, <2>5 DEF PlanSlots
  <2> QED
    BY <1>t, <2>1, <2>2, <2>4, <2>5, <2>6, GenerationAdvances
<1>4. CASE Generated(p)
  <2>1. /\ \A q \in Requests \ {p} : req'[q] = req[q]
        /\ req'[p] = [req[p] EXCEPT !.pc = "commit"]
        /\ req[p].pc = "write" /\ req[p].op = "generate"
        /\ UNCHANGED dbVars /\ session' = session
    BY <1>t, <1>4 DEF Generated, At, TypeInv, Request, tables
  <2>2. /\ req'[p].op = "generate" /\ req'[p].writes = req[p].writes
        /\ req'[p].class = req[p].class
        /\ req'[p].creates = req[p].creates /\ req'[p].updates = req[p].updates
    BY <1>t, <2>1 DEF TypeInv, Request
  <2>3. PlanFits(p)'
    <3>1. PlanFits(p) /\ PlanSlots(p)' = PlanSlots(p)
      BY <2>1, <2>2 DEF BookingInv, Fits, PlanSlots
    <3> QED
      BY <2>1, <2>2, <3>1 DEF PlanFits, Live
  <2>4. p \in shared' /\ (req[p].writes # {} => reserved' = p)
    BY <2>1 DEF BookingInv, ServingIsShared, WriterReserved, dbVars
  <2> QED
    BY <1>t, <2>1, <2>2, <2>3, <2>4, OthersUndisturbed DEF Live
<1>5. CASE Fail(p)
  <2>1. /\ \A q \in Requests \ {p} : req'[q] = req[q]
        /\ req'[p].pc = "idle" /\ req'[p].writes = {}
        /\ EndTx(p) /\ session' = session
    BY <1>t, <1>5 DEF Fail, RollBack, Idle, TypeInv, tables
  <2> QED
    BY <1>t, <2>1, OthersUndisturbed DEF Live
<1> QED
  BY <1>t, <1>1, <1>2, <1>3, <1>4, <1>5, CommitBookingInv DEF Continue

LEMMA InitBookingInv == Init => BookingInv
<1> SUFFICES ASSUME Init PROVE BookingInv
  OBVIOUS
<1>1. NoDoubleBooking
  BY DEF Init, NoDoubleBooking, Live, Unborn
<1>2. ServingIsShared /\ WriterReserved /\ Fits
  BY DEF Init, Idle, ServingIsShared, WriterReserved, Fits
<1> QED
  BY <1>1, <1>2, InitTypeInv DEF BookingInv

LEMMA NextBookingInv ==
  ASSUME ~HasRowLocks PROVE BookingInv /\ [Next]_vars => BookingInv'
<1>1. ASSUME BookingInv, UNCHANGED vars PROVE BookingInv'
  <2>1. TypeInv'
    BY <1>1, NextTypeInv DEF BookingInv
  <2>2. NoDoubleBooking'
    BY <1>1 DEF BookingInv, NoDoubleBooking, vars, tables, Live
  <2>3. ServingIsShared' /\ WriterReserved'
    BY <1>1 DEF BookingInv, ServingIsShared, WriterReserved, vars, dbVars
  <2>4. Fits'
    <3>1. req' = req /\ \A i \in Ids : Live(i)' => Live(i) /\ session'[i] = session[i]
      BY <1>1 DEF vars, tables, Live
    <3> QED
      BY <1>1, <3>1, FewerSessions DEF BookingInv, Fits
  <2> QED
    BY <2>1, <2>2, <2>3, <2>4 DEF BookingInv
<1> QED
  BY <1>1, CallBookingInv, ContinueBookingInv DEF Next

\* "Two operators cannot book the same room simultaneously" (ConflictDetector):
\* on an engine without row locks no two sessions that take place ever share a
\* room or a teacher, for any number of workers, classes, slots and recurrences.
THEOREM SchedulingNoDoubleBooking ==
  ASSUME ~HasRowLocks PROVE Spec => []NoDoubleBooking
<1>1. BookingInv => NoDoubleBooking
  BY DEF BookingInv
<1> QED
  BY <1>1, InitBookingInv, NextBookingInv, PTL DEF Spec

-----------------------------------------------------------------------------
(***************************************************************************)
(* What was held, called off or moved stays so, on either engine.  A       *)
(* request decides on a session that nobody else can change before it      *)
(* ends: on mysql it holds the row's lock, on sqlite every commit waits    *)
(* for it, and the session it is about to insert has an id that only it    *)
(* uses.                                                                   *)
(***************************************************************************)

Fresh(p, j) ==
  /\ j \in ManualIds /\ session[j] = Unborn /\ j \in Written(p)
  /\ HasRowLocks => rowLock[j] \in {None, p}
  /\ \A q \in Requests \ {p} : j \notin Written(q)

Owns(p, i) == (HasRowLocks => rowLock[i] = p) \/ Fresh(p, i)

Serving(p) ==
  /\ req[p].pc = "idle" => req[p].writes = {}
  /\ req[p].pc # "idle" /\ req[p].op # "generate" => Owns(p, req[p].id)
  /\ ~HasRowLocks /\ req[p].pc # "idle" => p \in shared
  /\ ~HasRowLocks /\ (IF req[p].op = "generate" THEN req[p].writes # {} ELSE req[p].pc = "commit")
       => reserved = p

\* A row that nobody has inserted yet is locked only to insert it.
LockedToInsert ==
  \A j \in ManualIds, q \in Requests :
    HasRowLocks /\ rowLock[j] = q /\ session[j] = Unborn => j \in Written(q)

\* A staged row deletes a session without attendance, or keeps its links and
\* its cancellation, or is a new session without links.
KeepsRow(w) ==
  IF w.row = Deleted
  THEN Exists(w.id) /\ ~HasAttendance(w.id)
  ELSE IF Exists(w.id)
  THEN /\ w.row.movedFrom = session[w.id].movedFrom /\ w.row.movedTo = session[w.id].movedTo
       /\ w.row.status \in {session[w.id].status, "cancelled"}
  ELSE /\ w.row.movedFrom = None /\ w.row.movedTo = None
       /\ w.id \in ManualIds => session[w.id] = Unborn

Successor(i, slot) == Booked(session[i].class, slot, "scheduled", "manual", i)
Moved(i, j) == [session[i] EXCEPT !.status = "cancelled", !.movedTo = j]

Moves(p) ==
  \E j \in ManualIds, slot \in Bookings :
    /\ Live(req[p].id) /\ Fresh(p, j)
    /\ req[p].writes = {WriteTo(j, Successor(req[p].id, slot)),
                        WriteTo(req[p].id, Moved(req[p].id, j))}

Staged(p) ==
  /\ \A w \in req[p].writes : Owns(p, w.id)
  /\ IF req[p].op = "reschedule" THEN Moves(p) ELSE \A w \in req[p].writes : KeepsRow(w)

\* Whatever a link names was inserted, and only a hand-booked session is moved to.
LinksNameSessions ==
  \A i \in Ids : Exists(i) =>
    /\ \/ session[i].movedTo = None
       \/ /\ session[i].movedTo \in ManualIds /\ session[session[i].movedTo] # Unborn
          /\ session[i].status = "cancelled"
    /\ session[i].movedFrom # None => session[session[i].movedFrom] # Unborn

Links == MovesLinkBothWays /\ LinksNameSessions

HistoryInv ==
  /\ TypeInv
  /\ Links
  /\ LockedToInsert
  /\ \A p \in Requests : Serving(p) /\ Staged(p)

LEMMA IdsAreRows == Ids \subseteq Rows /\ ManualIds \subseteq Ids
BY SchedulingAssumption DEF Ids

LEMMA BeginShape ==
  ASSUME TypeInv, NEW p \in Requests, NEW op, NEW i, NEW c, NEW writes,
         Begin(p, op, i, c, writes) \/ Starts(p, op, i, c, writes)
  PROVE  /\ UNCHANGED tables /\ req[p].pc = "idle"
         /\ \A q \in Requests \ {p} : req'[q] = req[q]
         /\ req'[p].op = op /\ req'[p].pc = "write" /\ req'[p].id = i
         /\ req'[p].class = c /\ req'[p].writes = writes
<1>1. PICK marked \in SUBSET Students : Start(p, op, i, c, writes, marked)
  BY BeginStarts DEF Starts
<1> QED
  BY <1>1 DEF Start, TypeInv, Idle

LEMMA CallBegins ==
  ASSUME TypeInv, NEW p \in Requests, Books(p)
  PROVE  /\ UNCHANGED tables /\ req[p].pc = "idle"
         /\ \A q \in Requests \ {p} : req'[q] = req[q]
         /\ req'[p].op \in Ops \ {"generate"} /\ req'[p].pc = "write" /\ req'[p].id \in Ids
         /\ \A w \in req'[p].writes : Exists(w.id) \/ Unused(w.id)
         /\ \/ PlainRead(p) /\ req'[p].op = "create"
            \/ Exists(req'[p].id) /\ LockingRead(p, req'[p].id)
<1> USE DEF Ops
<1>1. CASE Create(p)
  <2>1. PICK i \in ManualIds, c \in Classes, slot \in Bookings,
             status \in {"scheduled", "cancelled"} :
          /\ Unused(i) /\ PlainRead(p)
          /\ Begin(p, "create", i, c, {WriteTo(i, Booked(c, slot, status, "manual", None))})
    BY <1>1 DEF Create
  <2> DEFINE w == WriteTo(i, Booked(c, slot, status, "manual", None))
  <2>2. w.id = i
    BY DEF WriteTo
  <2> HIDE DEF w
  <2>3. Begin(p, "create", i, c, {w})
    BY <2>1 DEF w
  <2> QED
    BY <2>1, <2>2, <2>3, BeginShape, IdsAreRows
<1>2. CASE Update(p)
  <2>1. PICK i \in Ids, slot \in Bookings :
          /\ Exists(i) /\ LockingRead(p, i)
          /\ Begin(p, "update", i, None, {WriteTo(i, [session[i] EXCEPT !.at = slot])})
    BY <1>2 DEF Update
  <2> DEFINE w == WriteTo(i, [session[i] EXCEPT !.at = slot])
  <2>2. w.id = i
    BY DEF WriteTo
  <2> HIDE DEF w
  <2>3. Begin(p, "update", i, None, {w})
    BY <2>1 DEF w
  <2> QED
    BY <2>1, <2>2, <2>3, BeginShape
<1>3. CASE Cancel(p)
  <2>1. PICK i \in Ids :
          /\ Live(i) /\ LockingRead(p, i)
          /\ Begin(p, "cancel", i, None, {WriteTo(i, [session[i] EXCEPT !.status = "cancelled"])})
    BY <1>3 DEF Cancel
  <2> DEFINE w == WriteTo(i, [session[i] EXCEPT !.status = "cancelled"])
  <2>2. w.id = i /\ Exists(i)
    BY <2>1 DEF WriteTo, Live, Exists
  <2> HIDE DEF w
  <2>3. Begin(p, "cancel", i, None, {w})
    BY <2>1 DEF w
  <2> QED
    BY <2>1, <2>2, <2>3, BeginShape
<1>4. CASE Reschedule(p)
  <2>1. PICK i \in Ids, j \in ManualIds, slot \in Bookings :
          /\ Live(i) /\ Unused(j) /\ LockingRead(p, i)
          /\ Begin(p, "reschedule", i, session[i].class,
               {WriteTo(j, Booked(session[i].class, slot, "scheduled", "manual", i)),
                WriteTo(i, [session[i] EXCEPT !.status = "cancelled", !.movedTo = j])})
    BY <1>4 DEF Reschedule
  <2> DEFINE new == WriteTo(j, Booked(session[i].class, slot, "scheduled", "manual", i))
             old == WriteTo(i, [session[i] EXCEPT !.status = "cancelled", !.movedTo = j])
  <2>2. new.id = j /\ old.id = i /\ Exists(i)
    BY <2>1 DEF WriteTo, Live, Exists
  <2> HIDE DEF new, old
  <2>3. Begin(p, "reschedule", i, session[i].class, {new, old})
    BY <2>1 DEF new, old
  <2> QED
    BY <2>1, <2>2, <2>3, BeginShape
<1>5. CASE Delete(p)
  <2>1. PICK i \in Ids :
          /\ Exists(i) /\ LockingRead(p, i)
          /\ Begin(p, "delete", i, None, {WriteTo(i, Deleted)})
    BY <1>5 DEF Delete
  <2>2. WriteTo(i, Deleted).id = i
    BY DEF WriteTo
  <2> QED
    BY <2>1, <2>2, BeginShape
<1>6. CASE Mark(p)
  <2>1. PICK i \in Ids : Exists(i) /\ LockingRead(p, i) /\ Starts(p, "mark", i, None, {})
    BY <1>6, MarkStarts
  <2> QED
    BY <2>1, BeginShape
<1> QED
  BY <1>1, <1>2, <1>3, <1>4, <1>5, <1>6 DEF Books

\* A plan stages nothing yet.
LEMMA PlanBegins ==
  ASSUME TypeInv, NEW p \in Requests, Plan(p)
  PROVE  /\ PlainRead(p) /\ UNCHANGED tables
         /\ \A q \in Requests \ {p} : req'[q] = req[q]
         /\ req[p].pc = "idle" /\ req'[p].writes = {}
         /\ req'[p].op = "generate" /\ req'[p].pc = "write"
         /\ req'[p].class \in Classes /\ class[req'[p].class].status = "active"
         /\ \A s \in req'[p].updates : MayRewrite(SlotId(req'[p].class, s), s)
<1> DEFINE creates(c, days) == {s \in Following(c, days) : ~Exists(SlotId(c, s))}
           updates(c, days, confirm) ==
             {s \in Following(c, days) : confirm /\ MayRewrite(SlotId(c, s), s)}
<1>1. PICK c \in Classes, days \in SUBSET Dates, confirm \in BOOLEAN :
        /\ req[p].pc = "idle" /\ class[c].status = "active"
        /\ PlainRead(p)
        /\ req' = [req EXCEPT ![p] = [Idle EXCEPT !.op = "generate", !.pc = "write",
             !.class = c, !.creates = creates(c, days), !.updates = updates(c, days, confirm)]]
        /\ UNCHANGED tables
  BY DEF Plan
<1>2. \A s \in updates(c, days, confirm) : MayRewrite(SlotId(c, s), s)
  OBVIOUS
<1> HIDE DEF creates, updates
<1> QED
  BY <1>1, <1>2 DEF TypeInv, Idle

\* One row more for a generation to insert.
LEMMA GenerateShape ==
  ASSUME TypeInv, NEW p \in Requests, Generate(p)
  PROVE  \E s \in req[p].creates :
           LET i == SlotId(req[p].class, s)
           IN /\ s \in Slots /\ i \in Ids /\ i \notin ManualIds
              /\ req[p].class \in Classes /\ ~Exists(i)
              /\ req[p].op = "generate" /\ req[p].pc = "write"
              /\ WriteRow(p, i) /\ UNCHANGED tables
              /\ \A q \in Requests \ {p} : req'[q] = req[q]
              /\ req'[p].op = "generate" /\ req'[p].pc = "write"
              /\ req'[p].class = req[p].class /\ req'[p].updates = req[p].updates
              /\ req'[p].creates = req[p].creates \ {s}
              /\ req'[p].writes = req[p].writes \cup
                   {WriteTo(i, Booked(req[p].class, s, "scheduled", "generated", None))}
<1>1. PICK s \in req[p].creates :
        LET i == SlotId(req[p].class, s)
            row == Booked(req[p].class, s, "scheduled", "generated", None)
        IN /\ At(p, "generate", "write") /\ ~Exists(i)
           /\ WriteRow(p, i)
           /\ req' = [req EXCEPT ![p].creates = @ \ {s}, ![p].writes = @ \cup {WriteTo(i, row)}]
           /\ UNCHANGED tables
  BY DEF Generate
<1> DEFINE i == SlotId(req[p].class, s)
           w == WriteTo(i, Booked(req[p].class, s, "scheduled", "generated", None))
<1>2. /\ s \in Slots /\ req[p].class \in Classes
      /\ req[p] \in Request /\ req[p].op = "generate" /\ req[p].pc = "write"
  BY <1>1 DEF TypeInv, At, Named, Request
<1>3. i \in Ids /\ i \notin ManualIds
  BY <1>2, GeneratedId, SchedulingAssumption
<1>4. req' = [req EXCEPT ![p] = [req[p] EXCEPT !.creates = @ \ {s}, !.writes = @ \cup {w}]]
  BY <1>1
<1> HIDE DEF w
<1>5. /\ \A q \in Requests \ {p} : req'[q] = req[q]
      /\ req'[p] = [req[p] EXCEPT !.creates = @ \ {s}, !.writes = @ \cup {w}]
  BY <1>4 DEF TypeInv
<1>6. /\ req'[p].op = "generate" /\ req'[p].pc = "write"
      /\ req'[p].class = req[p].class /\ req'[p].updates = req[p].updates
      /\ req'[p].creates = req[p].creates \ {s} /\ req'[p].writes = req[p].writes \cup {w}
  BY <1>2, <1>5 DEF Request
<1> QED
  BY <1>1, <1>2, <1>3, <1>5, <1>6 DEF w

\* One row more for a generation to rewrite, if it is still there.
LEMMA RewriteShape ==
  ASSUME TypeInv, NEW p \in Requests, Rewrite(p)
  PROVE  \E s \in req[p].updates :
           LET i == SlotId(req[p].class, s)
           IN /\ s \in Slots /\ i \in Ids /\ i \notin ManualIds
              /\ req[p].class \in Classes
              /\ req[p].op = "generate" /\ req[p].pc = "write"
              /\ WriteRow(p, i) /\ UNCHANGED tables
              /\ \A q \in Requests \ {p} : req'[q] = req[q]
              /\ req'[p].op = "generate" /\ req'[p].pc = "write"
              /\ req'[p].class = req[p].class /\ req'[p].creates = req[p].creates
              /\ req'[p].updates = req[p].updates \ {s}
              /\ req[p].writes \subseteq req'[p].writes
              /\ \A w \in req'[p].writes : w \in req[p].writes \/
                   /\ Exists(i) /\ w.id = i
                   /\ w = WriteTo(i, [session[i] EXCEPT !.at = s])
<1>1. PICK s \in req[p].updates :
        LET i == SlotId(req[p].class, s)
        IN /\ At(p, "generate", "write") /\ WriteRow(p, i)
           /\ req' = [req EXCEPT ![p].updates = @ \ {s},
                ![p].writes = IF Exists(i) THEN @ \cup {WriteTo(i, [session[i] EXCEPT !.at = s])}
                              ELSE @]
           /\ UNCHANGED tables
  BY DEF Rewrite
<1> DEFINE i == SlotId(req[p].class, s)
           writes == IF Exists(i)
                     THEN req[p].writes \cup {WriteTo(i, [session[i] EXCEPT !.at = s])}
                     ELSE req[p].writes
<1>2. /\ s \in Slots /\ req[p].class \in Classes
      /\ req[p] \in Request /\ req[p].op = "generate" /\ req[p].pc = "write"
  BY <1>1 DEF TypeInv, At, Named, Request
<1>3. i \in Ids /\ i \notin ManualIds
  BY <1>2, GeneratedId, SchedulingAssumption
<1>4. req' = [req EXCEPT ![p] = [req[p] EXCEPT !.updates = @ \ {s}, !.writes = writes]]
  BY <1>1
<1>7. req[p].writes \subseteq writes /\ \A w \in writes : w \in req[p].writes \/
        (Exists(i) /\ w.id = i /\ w = WriteTo(i, [session[i] EXCEPT !.at = s]))
  BY DEF WriteTo
<1> HIDE DEF writes
<1>5. /\ \A q \in Requests \ {p} : req'[q] = req[q]
      /\ req'[p] = [req[p] EXCEPT !.updates = @ \ {s}, !.writes = writes]
  BY <1>4 DEF TypeInv
<1>6. /\ req'[p].op = "generate" /\ req'[p].pc = "write"
      /\ req'[p].class = req[p].class /\ req'[p].creates = req[p].creates
      /\ req'[p].updates = req[p].updates \ {s} /\ req'[p].writes = writes
  BY <1>2, <1>5 DEF Request
<1> QED
  BY <1>1, <1>2, <1>3, <1>5, <1>6, <1>7

\* What the database does in one step of a worker.
LEMMA StepUsesDatabase ==
  ASSUME TypeInv, NEW p \in Requests, StepOf(p)
  PROVE  \E r : \/ UNCHANGED dbVars \/ EndTx(p) \/ CommitTx(p)
                \/ PlainRead(p) \/ LockingRead(p, r) \/ WriteRow(p, r)
<1>1. CASE Plan(p)
  BY <1>1 DEF Plan
<1>2. CASE Books(p)
  BY <1>2, CallBegins
<1>3. CASE EditClass(p) \/ DeleteClass(p) \/ DeleteStudent(p)
  BY <1>3 DEF EditClass, DeleteClass, DeleteStudent, AutoCommitWrite
<1>4. CASE Save(p) \/ Generate(p) \/ Rewrite(p)
  BY <1>4 DEF Save, Generate, Rewrite
<1>5. CASE Generated(p) \/ Commit(p) \/ Fail(p)
  BY <1>5 DEF Generated, Commit, Fail, RollBack
<1> QED
  BY <1>1, <1>2, <1>3, <1>4, <1>5 DEF StepOf, Asks, Continue, Books

\* A step of one worker is no step of another.
LEMMA OnlyOneMoves ==
  ASSUME TypeInv, NEW p \in Requests, StepOf(p)
  PROVE  \A q \in Requests \ {p} : req'[q] = req[q]
<1> USE DEF TypeInv
<1>1. CASE Plan(p)
  BY <1>1, PlanBegins
<1>2. CASE Books(p)
  BY <1>2, CallBegins
<1>3. CASE EditClass(p) \/ DeleteClass(p) \/ DeleteStudent(p)
  BY <1>3 DEF EditClass, DeleteClass, DeleteStudent
<1>4. CASE Save(p) \/ Generate(p) \/ Rewrite(p)
  BY <1>4 DEF Save, Generate, Rewrite
<1>5. CASE Generated(p) \/ Commit(p) \/ Fail(p)
  BY <1>5 DEF Generated, Commit, Fail, RollBack
<1> QED
  BY <1>1, <1>2, <1>3, <1>4, <1>5 DEF StepOf, Asks, Continue, Books

\* Only a commit, the two class operations and a student's deletion touch the
\* tables.
LEMMA OnlyCommitsWrite ==
  ASSUME TypeInv, NEW p \in Requests, StepOf(p)
  PROVE  \/ UNCHANGED tables \/ Commit(p)
         \/ EditClass(p) \/ DeleteClass(p) \/ DeleteStudent(p)
<1>1. CASE Plan(p)
  BY <1>1, PlanBegins
<1>2. CASE Books(p)
  BY <1>2, CallBegins
<1>3. CASE Save(p) \/ Generate(p) \/ Rewrite(p) \/ Generated(p) \/ Fail(p)
  BY <1>3 DEF Save, Generate, Rewrite, Generated, Fail, RollBack
<1> QED
  BY <1>1, <1>2, <1>3 DEF StepOf, Asks, Continue, Books

\* A commit gives every id it wrote one of the rows staged for it.
LEMMA CommittedRow ==
  ASSUME NEW p \in Requests, Commit(p), NEW i \in Ids
  PROVE  /\ i \notin Written(p) => session'[i] = session[i]
         /\ i \in Written(p) => \E w \in req[p].writes : w.id = i /\ session'[i] = w.row
<1>1. session'[i] = IF i \in Written(p) THEN (CHOOSE w \in req[p].writes : w.id = i).row
                                       ELSE session[i]
  BY DEF Commit, Written
<1>2. ASSUME i \in Written(p)
      PROVE  \E w \in req[p].writes : w.id = i /\ w.row = (CHOOSE v \in req[p].writes : v.id = i).row
  BY <1>2 DEF Written
<1> QED
  BY <1>1, <1>2

\* The ids that a step starts to write are new to everybody, or exist, or are
\* those of generated sessions.
LEMMA NewWrites ==
  ASSUME TypeInv, NEW p \in Requests, StepOf(p),
         NEW w \in req'[p].writes, w \notin req[p].writes, w.id \in ManualIds
  PROVE  Unused(w.id) \/ Exists(w.id)
<1> USE DEF TypeInv
<1>2. CASE Books(p)
  BY <1>2, CallBegins
<1>3. CASE Plan(p)
  BY <1>3, PlanBegins
<1>4. CASE EditClass(p) \/ DeleteClass(p) \/ DeleteStudent(p)
  BY <1>4 DEF EditClass, DeleteClass, DeleteStudent
<1>6. CASE Save(p) \/ Generated(p) \/ Commit(p) \/ Fail(p)
  BY <1>6 DEF Save, Generated, Commit, Fail, RollBack, Idle, Request
<1>7. CASE Generate(p)
  BY <1>7, GenerateShape DEF WriteTo
<1>8. CASE Rewrite(p)
  BY <1>8, RewriteShape
<1> QED
  BY <1>2, <1>3, <1>4, <1>6, <1>7, <1>8 DEF StepOf, Asks, Continue, Books

\* The hand-booked rows that a step locks exist, or are the request's own.
LEMMA NewLocks ==
  ASSUME TypeInv, HasRowLocks, NEW p \in Requests, StepOf(p), NEW j \in ManualIds
  PROVE  \/ rowLock'[j] \in {rowLock[j], None}
         \/ rowLock'[j] = p /\ Exists(j)
         \/ /\ rowLock'[j] = p
            /\ req[p].pc # "idle" /\ req[p].op # "generate" /\ j = req[p].id
<1>1. j \in Rows /\ DbTypeOK
  BY IdsAreRows DEF TypeInv
<1>2. ASSUME NEW r, LockingRead(p, r) \/ WriteRow(p, r)
      PROVE  rowLock'[j] = rowLock[j] \/ (j = r /\ rowLock'[j] = p)
  BY <1>1, <1>2 DEF LockingRead, WriteRow, TakeRowLock, DbTypeOK
<1>3. CASE Plan(p)
  BY <1>3, PlanBegins DEF PlainRead
<1>4. CASE Books(p)
  BY <1>2, <1>4, CallBegins DEF PlainRead
<1>5. CASE EditClass(p) \/ DeleteClass(p) \/ DeleteStudent(p) \/ Generated(p)
  BY <1>5 DEF EditClass, DeleteClass, DeleteStudent, Generated, AutoCommitWrite, dbVars
<1>6. CASE Save(p)
  BY <1>2, <1>6 DEF Save
<1>7. CASE Generate(p) \/ Rewrite(p)
  <2>1. \E i \in Ids \ ManualIds : WriteRow(p, i)
    BY <1>7, GenerateShape, RewriteShape
  <2> QED
    BY <1>2, <2>1
<1>8. CASE Commit(p) \/ Fail(p)
  BY <1>1, <1>8 DEF Commit, Fail, RollBack, CommitTx, EndTx
<1> QED
  BY <1>3, <1>4, <1>5, <1>6, <1>7, <1>8 DEF StepOf, Asks, Continue, Books

\* Nobody owns what another owns.
LEMMA OneOwner ==
  ASSUME HasRowLocks, NEW p \in Requests, NEW q \in Requests, p # q, NEW i,
         Owns(p, i), Owns(q, i)
  PROVE  FALSE
BY NoneAssumption DEF Owns, Fresh

\* An id reserved for a new session stays reserved.
LEMMA FreshStays ==
  ASSUME HistoryInv, TypeInv', NEW p \in Requests, NEW q \in Requests, p # q, StepOf(q),
         NEW j, Fresh(p, j)
  PROVE  Fresh(p, j)'
<1>1. j \in ManualIds /\ j \in Ids /\ session[j] = Unborn /\ ~Exists(j) /\ j \in Written(p)
  BY IdsAreRows DEF Fresh, Exists, Unborn
<1>2. \A o \in Requests \ {q} : req'[o] = req[o]
  BY OnlyOneMoves DEF HistoryInv
<1>3. session'[j] = Unborn
  <2>1. CASE UNCHANGED tables
    BY <1>1, <2>1 DEF tables
  <2>2. CASE Commit(q)
    BY <1>1, <2>2, CommittedRow DEF Fresh
  <2>3. CASE EditClass(q) \/ DeleteClass(q) \/ DeleteStudent(q)
    BY <1>1, <2>3 DEF EditClass, DeleteClass, DeleteStudent
  <2> QED
    BY <2>1, <2>2, <2>3, OnlyCommitsWrite DEF HistoryInv
<1>4. HasRowLocks => rowLock'[j] \in {None, p}
  <2>1. ASSUME HasRowLocks, req[q].pc # "idle", req[q].op # "generate" PROVE j # req[q].id
    BY <2>1, OneOwner DEF HistoryInv, Serving, Owns
  <2> QED
    BY <1>1, <2>1, NewLocks DEF HistoryInv, Fresh
<1>5. \A o \in Requests \ {p} : j \notin Written(o)'
  <2>1. ASSUME NEW w \in req'[q].writes PROVE w.id # j
    <3>1. CASE w \in req[q].writes
      BY <3>1 DEF Fresh, Written
    <3>2. CASE w \notin req[q].writes
      <4>1. ~Unused(j)
        BY <1>1 DEF Unused, Written
      <4> QED
        BY <1>1, <3>2, <4>1, NewWrites DEF HistoryInv
    <3> QED
      BY <3>1, <3>2
  <2> QED
    BY <1>2, <2>1 DEF Fresh, Written
<1> QED
  BY <1>1, <1>2, <1>3, <1>4, <1>5 DEF Fresh, Written

\* On sqlite a request in service keeps every commit away.
LEMMA SharedBlocksWriters ==
  ASSUME HistoryInv, ~HasRowLocks, NEW p \in Requests, NEW q \in Requests, p # q, StepOf(q),
         p \in shared
  PROVE  UNCHANGED tables
<1>2. CASE Commit(q)
  <2>1. reserved # q /\ req[q].pc = "commit"
    BY <1>2 DEF Commit, CommitTx
  <2>2. req[q].op = "generate" /\ req[q].writes = {}
    BY <2>1 DEF HistoryInv, Serving
  <2>3. \A i \in Ids : session'[i] = session[i]
    BY <1>2, <2>2, CommittedRow DEF Written
  <2>4. session \in [Ids -> SessionRow \cup {Unborn, Deleted}]
    BY DEF HistoryInv, TypeInv
  <2>5. session' = [i \in Ids |-> session[i]]
    BY <1>2, <2>2 DEF Commit
  <2>7. attended' = attended
    <3>1. req[q].marking = {}
      BY <1>2, <2>2 DEF HistoryInv, TypeInv, Named, Commit
    <3> QED
      BY <1>2, <2>2, <3>1 DEF Commit, RecordsOf
  <2>6. session' = session
    BY <2>4, <2>5
  <2> QED
    BY <1>2, <2>6, <2>7 DEF Commit, tables
<1>3. ~EditClass(q) /\ ~DeleteClass(q) /\ ~DeleteStudent(q)
  BY DEF EditClass, DeleteClass, DeleteStudent, AutoCommitWrite
<1> QED
  BY <1>2, <1>3, OnlyCommitsWrite DEF HistoryInv

LEMMA ReaderBlocksWriters ==
  ASSUME HistoryInv, ~HasRowLocks, NEW p \in Requests, NEW q \in Requests, p # q, StepOf(q),
         req[p].pc # "idle"
  PROVE  UNCHANGED tables
BY SharedBlocksWriters DEF HistoryInv, Serving

\* So what a request owns stays its own, and as it was.
LEMMA OwnedStays ==
  ASSUME HistoryInv, TypeInv', NEW p \in Requests, NEW q \in Requests, p # q, StepOf(q),
         req[p].pc # "idle", NEW i \in Ids, Owns(p, i)
  PROVE  /\ Owns(p, i)'
         /\ session'[i] = session[i]
         /\ HasAttendance(i)' => HasAttendance(i)
<1>1. CASE ~HasRowLocks
  BY <1>1, ReaderBlocksWriters DEF Owns, HasAttendance, tables
<1>2. CASE HasRowLocks
  <2>1. i \notin Written(q)
    BY <1>2, OneOwner DEF HistoryInv, Staged, Written
  <2>2. ASSUME Commit(q) PROVE session'[i] = session[i] /\ (HasAttendance(i)' => HasAttendance(i))
    <3>1. req[q].op # "generate" => i # req[q].id
      BY <1>2, <2>2, OneOwner DEF HistoryInv, Serving, Commit
    <3>3. req[q].op = "generate" => req[q].marking = {}
      BY <2>2 DEF HistoryInv, TypeInv, Named, Commit
    <3>2. HasAttendance(i)' => HasAttendance(i)
      BY <2>2, <3>1, <3>3 DEF Commit, HasAttendance
    <3> QED
      BY <2>1, <2>2, <3>2, CommittedRow
  <2>3. ASSUME DeleteClass(q)
        PROVE  session'[i] = session[i] /\ (HasAttendance(i)' => HasAttendance(i))
    <3>1. ~(Exists(i) /\ rowLock[i] = None)
      BY <1>2, NoneAssumption DEF Owns, Fresh, Exists, Unborn
    <3>2. PICK c \in Classes :
            LET mine == {k \in Ids : Exists(k) /\ session[k].class = c}
            IN /\ \A k \in mine : rowLock[k] = None
               /\ session' = [k \in Ids |-> IF k \in mine THEN Deleted ELSE session[k]]
               /\ attended' = attended \ RecordsOf(mine)
      BY <1>2, <2>3 DEF DeleteClass
    <3>3. i \notin {k \in Ids : Exists(k) /\ session[k].class = c}
      BY <3>1, <3>2
    <3> QED
      BY <3>2, <3>3 DEF HasAttendance
  <2>6. ASSUME DeleteStudent(q)
        PROVE  session'[i] = session[i] /\ (HasAttendance(i)' => HasAttendance(i))
    BY <2>6 DEF DeleteStudent, HasAttendance
  <2>4. session'[i] = session[i] /\ (HasAttendance(i)' => HasAttendance(i))
    BY <2>2, <2>3, <2>6, OnlyCommitsWrite DEF HistoryInv, tables, EditClass, HasAttendance
  <2>5. Owns(p, i)'
    <3>1. CASE Fresh(p, i)
      BY <3>1, FreshStays DEF Owns
    <3>2. CASE rowLock[i] = p
      <4>1. i \in Rows /\ DbTypeOK /\ TypeInv
        BY IdsAreRows DEF HistoryInv, TypeInv
      <4>2. rowLock'[i] = p
        BY <1>2, <3>2, <4>1, LockKept, StepUsesDatabase
      <4> QED
        BY <4>2 DEF Owns
    <3> QED
      BY <1>2, <3>1, <3>2 DEF Owns
  <2> QED
    BY <2>4, <2>5
<1> QED
  BY <1>1, <1>2

\* Links survive rows that keep theirs, rows without any and rows that go.
LEMMA LinksKept ==
  ASSUME Links,
         \A i \in Ids : Exists(i)' =>
           \/ /\ Exists(i)
              /\ session'[i].movedFrom = session[i].movedFrom
              /\ session'[i].movedTo = session[i].movedTo
              /\ session'[i].status \in {session[i].status, "cancelled"}
           \/ /\ session'[i].movedFrom = None /\ session'[i].movedTo = None
              /\ i \in ManualIds => session[i] = Unborn,
         \A i \in Ids : session[i] # Unborn => session'[i] # Unborn,
         TypeInv
  PROVE  Links'
<1>1. LinksNameSessions'
  <2> SUFFICES ASSUME NEW i \in Ids, Exists(i)'
               PROVE  /\ \/ session'[i].movedTo = None
                         \/ /\ session'[i].movedTo \in ManualIds
                            /\ session'[session'[i].movedTo] # Unborn
                            /\ session'[i].status = "cancelled"
                      /\ session'[i].movedFrom # None => session'[session'[i].movedFrom] # Unborn
    BY DEF LinksNameSessions
  <2>1. CASE session'[i].movedFrom = None /\ session'[i].movedTo = None
    BY <2>1
  <2>2. CASE /\ Exists(i)
             /\ session'[i].movedFrom = session[i].movedFrom
             /\ session'[i].movedTo = session[i].movedTo
             /\ session'[i].status \in {session[i].status, "cancelled"}
    <3>1. session[i].movedFrom \in Ids \cup {None} /\ session[i].movedTo \in Ids \cup {None}
      BY <2>2, ExistingRow DEF SessionRow
    <3> QED
      BY <2>2, <3>1 DEF Links, LinksNameSessions
  <2> QED
    BY <2>1, <2>2
<1>2. MovesLinkBothWays'
  <2> SUFFICES ASSUME NEW i \in Ids, NEW j \in Ids, Exists(i)', Exists(j)'
               PROVE  /\ session'[i].movedTo = j =>
                           session'[i].status = "cancelled" /\ session'[j].movedFrom = i
                      /\ session'[j].movedFrom = i /\ i \in ManualIds => session'[i].movedTo = j
    BY DEF MovesLinkBothWays
  <2>1. ASSUME session'[i].movedTo = j
        PROVE  session'[i].status = "cancelled" /\ session'[j].movedFrom = i
    <3>1. /\ Exists(i) /\ session[i].movedTo = j
          /\ session'[i].status \in {session[i].status, "cancelled"}
      BY <2>1, NoneIsNoId
    <3>2. j \in ManualIds /\ session[j] # Unborn
      BY <3>1, NoneIsNoId DEF Links, LinksNameSessions
    <3>3. Exists(j) /\ session'[j].movedFrom = session[j].movedFrom
      BY <3>2
    <3> QED
      BY <3>1, <3>3 DEF Links, MovesLinkBothWays
  <2>2. ASSUME session'[j].movedFrom = i, i \in ManualIds PROVE session'[i].movedTo = j
    <3>1. Exists(j) /\ session[j].movedFrom = i
      BY <2>2, NoneIsNoId
    <3>2. session[i] # Unborn
      BY <3>1, NoneIsNoId DEF Links, LinksNameSessions
    <3>3. Exists(i) /\ session'[i].movedTo = session[i].movedTo
      BY <2>2, <3>2
    <3> QED
      BY <2>2, <3>1, <3>3 DEF Links, MovesLinkBothWays
  <2> QED
    BY <2>1, <2>2
<1> QED
  BY <1>1, <1>2 DEF Links

\* A move links the original and its one successor.
LEMMA MoveLinks ==
  ASSUME Links, TypeInv, NEW i \in Ids, NEW j \in ManualIds, NEW slot, i # j,
         Live(i), session[j] = Unborn,
         session' = [k \in Ids |-> IF k = j THEN Successor(i, slot)
                                  ELSE IF k = i THEN Moved(i, j) ELSE session[k]]
  PROVE  Links'
<1>1. j \in Ids /\ ~Exists(j) /\ Exists(i) /\ i # None /\ j # None
  BY IdsAreRows, NoneIsNoId DEF Exists, Unborn, Live
<1>2. session[i].movedTo = None
  BY <1>1 DEF Links, LinksNameSessions, Live
<1>3. session'[j].movedFrom = i /\ session'[j].movedTo = None /\ session'[j] # Unborn
  BY <1>1 DEF Successor, Booked, Unborn
<1>4. /\ session'[i].movedFrom = session[i].movedFrom /\ session'[i].movedTo = j
      /\ session'[i].status = "cancelled" /\ session'[i] # Unborn
  BY <1>1, ExistingRow DEF Moved, SessionRow, Unborn
<1>5. \A k \in Ids : k # i /\ k # j => session'[k] = session[k]
  OBVIOUS
<1>6. \A k \in Ids : session[k] # Unborn => session'[k] # Unborn
  BY <1>3, <1>4, <1>5
<1>7. \A k \in Ids : Exists(k) => session[k].movedFrom # j /\ session[k].movedTo # j
  BY <1>1 DEF Links, LinksNameSessions
<1>8. LinksNameSessions'
  <2> SUFFICES ASSUME NEW k \in Ids, Exists(k)'
               PROVE  /\ \/ session'[k].movedTo = None
                         \/ /\ session'[k].movedTo \in ManualIds
                            /\ session'[session'[k].movedTo] # Unborn
                            /\ session'[k].status = "cancelled"
                      /\ session'[k].movedFrom # None => session'[session'[k].movedFrom] # Unborn
    BY DEF LinksNameSessions
  <2>1. CASE k = j
    BY <1>3, <1>4, <2>1
  <2>2. CASE k = i
    <3>1. session[i].movedFrom \in Ids \cup {None}
      BY <1>1, ExistingRow DEF SessionRow
    <3> QED
      BY <1>1, <1>3, <1>4, <1>6, <2>2, <3>1 DEF Links, LinksNameSessions
  <2>3. CASE k # i /\ k # j
    <3>1. Exists(k)
      BY <1>5, <2>3 DEF Exists
    <3>2. session[k].movedFrom \in Ids \cup {None} /\ session[k].movedTo \in Ids \cup {None}
      BY <3>1, ExistingRow DEF SessionRow
    <3> QED
      BY <1>5, <1>6, <2>3, <3>1, <3>2 DEF Links, LinksNameSessions
  <2> QED
    BY <2>1, <2>2, <2>3
<1>9. MovesLinkBothWays'
  <2> SUFFICES ASSUME NEW x \in Ids, NEW y \in Ids, Exists(x)', Exists(y)'
               PROVE  /\ session'[x].movedTo = y =>
                           session'[x].status = "cancelled" /\ session'[y].movedFrom = x
                      /\ session'[y].movedFrom = x /\ x \in ManualIds => session'[x].movedTo = y
    BY DEF MovesLinkBothWays
  <2>1. \A k \in Ids : Exists(k)' /\ k # j => Exists(k) /\ session'[k].movedFrom = session[k].movedFrom
    BY <1>1, <1>4, <1>5 DEF Exists
  <2>2. ASSUME session'[x].movedTo = y
        PROVE  session'[x].status = "cancelled" /\ session'[y].movedFrom = x
    <3>1. CASE x = i
      BY <1>3, <1>4, <2>2, <3>1
    <3>2. CASE x # i
      <4>1. x # j /\ session'[x] = session[x] /\ Exists(x)
        BY <1>3, <1>5, <2>1, <2>2, <3>2, NoneIsNoId
      <4>2. y # j
        BY <1>7, <2>2, <4>1
      <4> QED
        BY <2>1, <2>2, <4>1, <4>2 DEF Links, MovesLinkBothWays
    <3> QED
      BY <3>1, <3>2
  <2>3. ASSUME session'[y].movedFrom = x, x \in ManualIds PROVE session'[x].movedTo = y
    <3>1. CASE y = j
      BY <1>3, <1>4, <2>3, <3>1
    <3>2. CASE y # j
      <4>1. Exists(y) /\ session[y].movedFrom = x
        BY <2>1, <2>3, <3>2
      <4>2. x # j
        BY <1>7, <4>1
      <4>3. Exists(x) /\ session[x].movedTo = y
        BY <2>1, <2>3, <4>1, <4>2 DEF Links, MovesLinkBothWays
      <4>4. x # i
        BY <1>2, <4>3, NoneIsNoId
      <4> QED
        BY <1>5, <4>2, <4>3, <4>4
    <3> QED
      BY <3>1, <3>2
  <2> QED
    BY <2>2, <2>3
<1> QED
  BY <1>8, <1>9 DEF Links

\* A step of one worker leaves the plans of the others good.
LEMMA OthersKeepHistory ==
  ASSUME HistoryInv, TypeInv', NEW p \in Requests, NEW q \in Requests, p # q, StepOf(q)
  PROVE  Serving(p)' /\ Staged(p)'
<1>1. req'[p] = req[p] /\ Serving(p) /\ Staged(p) /\ TypeInv /\ DbTypeOK
  BY OnlyOneMoves DEF HistoryInv, TypeInv
<1>2. CASE req[p].pc = "idle"
  <2>1. req[p].writes = {} /\ req[p].op # "reschedule"
    BY <1>1, <1>2 DEF Serving, Staged, Moves
  <2>2. Serving(p)'
    BY <1>1, <1>2, <2>1 DEF Serving
  <2>3. Staged(p)'
    BY <1>1, <2>1 DEF Staged
  <2> QED
    BY <2>2, <2>3
<1>3. CASE req[p].pc # "idle"
  <2>1. \A w \in req[p].writes : w.id \in Ids
    BY <1>1 DEF TypeInv, Request, Write
  <2>2. req[p].op # "generate" => req[p].id \in Ids
    BY <1>1, <1>3 DEF TypeInv, Named
  <2>3. req[p].op # "generate" => /\ Owns(p, req[p].id)'
                                  /\ session'[req[p].id] = session[req[p].id]
    BY <1>1, <1>3, <2>2, OwnedStays DEF Serving
  <2>4. Serving(p)'
    <3>1. ~HasRowLocks => (p \in shared => p \in shared') /\ (reserved = p => reserved' = p)
      BY <1>1, WriterKept, StepUsesDatabase
    <3> QED
      BY <1>1, <1>3, <2>3, <3>1 DEF Serving
  <2>5. \A w \in req[p].writes : /\ Owns(p, w.id)'
                                 /\ session'[w.id] = session[w.id]
                                 /\ HasAttendance(w.id)' => HasAttendance(w.id)
    BY <1>1, <1>3, <2>1, OwnedStays DEF Staged
  <2>6. Staged(p)'
    <3>1. CASE req[p].op # "reschedule"
      <4>1. \A w \in req[p].writes : KeepsRow(w)'
        BY <1>1, <2>5, <3>1 DEF Staged, KeepsRow, Exists
      <4> QED
        BY <1>1, <2>5, <3>1, <4>1 DEF Staged
    <3>2. CASE req[p].op = "reschedule"
      <4>1. PICK j \in ManualIds, slot \in Bookings :
              /\ Live(req[p].id) /\ Fresh(p, j)
              /\ req[p].writes = {WriteTo(j, Successor(req[p].id, slot)),
                                  WriteTo(req[p].id, Moved(req[p].id, j))}
        BY <1>1, <3>2 DEF Staged, Moves
      <4>2. Fresh(p, j)'
        BY <4>1, FreshStays
      <4>3. session'[req[p].id] = session[req[p].id]
        BY <2>3, <3>2
      <4>4. /\ Live(req[p].id)'
            /\ Successor(req[p].id, slot)' = Successor(req[p].id, slot)
            /\ Moved(req[p].id, j)' = Moved(req[p].id, j)
        BY <1>1, <4>1, <4>3 DEF Live, Successor, Moved, Booked
      <4>5. Moves(p)'
        BY <1>1, <4>1, <4>2, <4>4 DEF Moves, WriteTo
      <4> QED
        BY <1>1, <2>5, <3>2, <4>5 DEF Staged
    <3> QED
      BY <3>1, <3>2
  <2> QED
    BY <2>4, <2>6
<1> QED
  BY <1>2, <1>3

\* A row that was inserted is never unborn again.
LEMMA BornStays ==
  ASSUME TypeInv, NEW p \in Requests, StepOf(p), NEW i \in Ids, session[i] # Unborn
  PROVE  session'[i] # Unborn
<1>1. CASE Commit(p)
  <2>1. \A w \in req[p].writes : w.row \in SessionRow \cup {Deleted}
    BY DEF TypeInv, Request, Write
  <2>2. \A row \in SessionRow \cup {Deleted} : row # Unborn
    BY DEF SessionRow, Deleted, Unborn
  <2> QED
    BY <1>1, <2>1, <2>2, CommittedRow
<1>2. CASE DeleteClass(p)
  BY <1>2 DEF DeleteClass, Deleted, Unborn
<1> QED
  BY <1>1, <1>2, OnlyCommitsWrite DEF tables, EditClass, DeleteStudent

\* A transaction ends, begins, or writes more.
LEMMA WritesGrow ==
  ASSUME TypeInv, NEW p \in Requests, StepOf(p)
  PROVE  EndTx(p) \/ req[p].pc = "idle" \/ req[p].writes \subseteq req'[p].writes
<1>1. CASE Books(p) \/ Plan(p)
  BY <1>1, CallBegins, PlanBegins
<1>2. CASE EditClass(p) \/ DeleteClass(p) \/ DeleteStudent(p)
  BY <1>2 DEF EditClass, DeleteClass, DeleteStudent
<1>3. CASE Save(p) \/ Generated(p)
  BY <1>3 DEF Save, Generated, TypeInv, Request
<1>4. CASE Generate(p) \/ Rewrite(p)
  BY <1>4, GenerateShape, RewriteShape
<1>5. CASE Commit(p) \/ Fail(p)
  BY <1>5 DEF Commit, CommitTx, Fail, RollBack
<1> QED
  BY <1>1, <1>2, <1>3, <1>4, <1>5 DEF StepOf, Asks, Continue, Books

LEMMA LockedToInsertKept ==
  ASSUME HistoryInv, NEW p \in Requests, StepOf(p) PROVE LockedToInsert'
<1> SUFFICES ASSUME NEW j \in ManualIds, NEW q \in Requests,
                    HasRowLocks, rowLock'[j] = q, session'[j] = Unborn
             PROVE  j \in Written(q)'
  BY DEF LockedToInsert
<1>1. j \in Ids /\ j \in Rows /\ TypeInv /\ DbTypeOK
  BY IdsAreRows DEF HistoryInv, TypeInv
<1>2. session[j] = Unborn /\ ~Exists(j)
  BY <1>1, BornStays DEF Exists, Unborn
<1>3. rowLock[j] = q \/ (q = p /\ req[p].pc # "idle" /\ req[p].op # "generate" /\ j = req[p].id)
  BY <1>1, <1>2, NewLocks, NoneAssumption
<1>4. j \in Written(q)
  BY <1>2, <1>3 DEF HistoryInv, LockedToInsert, Serving, Owns, Fresh
<1>5. CASE q # p
  BY <1>1, <1>4, <1>5, OnlyOneMoves DEF Written
<1>6. CASE q = p
  <2>1. ~EndTx(p)
    BY <1>1, <1>6, NoneAssumption DEF EndTx
  <2>2. req[p].pc # "idle"
    BY <1>4, <1>6 DEF HistoryInv, Serving, Written
  <2> QED
    BY <1>1, <1>4, <1>6, <2>1, <2>2, WritesGrow DEF Written
<1> QED
  BY <1>5, <1>6

\* While its transaction goes on, a worker keeps what it owns.
LEMMA OwnStays ==
  ASSUME HistoryInv, NEW p \in Requests, NEW r, UNCHANGED tables,
         UNCHANGED dbVars \/ PlainRead(p) \/ LockingRead(p, r) \/ WriteRow(p, r),
         \A q \in Requests \ {p} : req'[q] = req[q],
         req[p].writes \subseteq req'[p].writes,
         NEW i \in Ids, Owns(p, i)
  PROVE  Owns(p, i)'
<1>1. i \in Rows /\ DbTypeOK
  BY IdsAreRows DEF HistoryInv, TypeInv
<1>2. ASSUME HasRowLocks, rowLock[i] = p PROVE rowLock'[i] = p
  BY <1>1, <1>2, OwnLockKept
<1>3. ASSUME Fresh(p, i) PROVE Fresh(p, i)'
  <2>1. HasRowLocks => rowLock'[i] \in {None, p}
    BY <1>1, <1>3 DEF Fresh, DbTypeOK, dbVars, PlainRead, LockingRead, WriteRow, TakeRowLock
  <2> QED
    BY <1>3, <2>1 DEF Fresh, Written, tables
<1> QED
  BY <1>2, <1>3 DEF Owns

LEMMA WrittenIsOwned ==
  ASSUME TypeInv, NEW p \in Requests, NEW i \in Ids, WriteRow(p, i) PROVE Owns(p, i)'
<1>1. i \in Rows /\ rowLock \in [Rows -> Requests \cup {None}]
  BY IdsAreRows DEF TypeInv, DbTypeOK
<1>2. HasRowLocks => rowLock'[i] = p
  BY <1>1 DEF WriteRow, TakeRowLock
<1> QED
  BY <1>2 DEF Owns

\* The id of a new session is its own from the start.
LEMMA NewIsFresh ==
  ASSUME HistoryInv, NEW p \in Requests, NEW r, UNCHANGED tables,
         PlainRead(p) \/ LockingRead(p, r),
         \A q \in Requests \ {p} : req'[q] = req[q],
         NEW j \in ManualIds, Unused(j), j \in Written(p)'
  PROVE  Fresh(p, j)'
<1>1. j \in Rows /\ DbTypeOK /\ session[j] = Unborn /\ \A q \in Requests : j \notin Written(q)
  BY IdsAreRows DEF HistoryInv, TypeInv, Unused, Written
<1>2. HasRowLocks => rowLock[j] = None
  BY <1>1 DEF HistoryInv, LockedToInsert, DbTypeOK
<1>3. HasRowLocks => rowLock'[j] \in {None, p}
  BY <1>1, <1>2 DEF DbTypeOK, PlainRead, LockingRead, TakeRowLock
<1> QED
  BY <1>1, <1>3 DEF Fresh, Written, tables

\* A call that changes the session it has locked.
LEMMA EditBegins ==
  ASSUME HistoryInv, TypeInv', NEW p \in Requests, NEW op \in Ops \ {"generate", "reschedule"},
         NEW i \in Ids, LockingRead(p, i), NEW c, NEW writes,
         Begin(p, op, i, c, writes) \/ Starts(p, op, i, c, writes),
         \A w \in writes : w.id = i /\ KeepsRow(w)
  PROVE  Serving(p)' /\ Staged(p)'
<1>1. /\ UNCHANGED tables /\ DbTypeOK
      /\ req'[p].op = op /\ req'[p].pc = "write" /\ req'[p].id = i /\ req'[p].writes = writes
  BY BeginShape DEF HistoryInv, TypeInv
<1>2. HasRowLocks => rowLock'[i] = p
  <2>1. i \in Rows
    BY IdsAreRows
  <2> QED
    BY <1>1, <2>1, LockTaken
<1>3. ~HasRowLocks => p \in shared'
  BY ReaderIsShared
<1>4. \A w \in writes : KeepsRow(w)'
  BY <1>1 DEF KeepsRow, Exists, HasAttendance, tables
<1> QED
  BY <1>1, <1>2, <1>3, <1>4 DEF Serving, Staged, Owns

LEMMA CallKeepsHistory ==
  ASSUME HistoryInv, TypeInv', NEW p \in Requests, Books(p)
  PROVE  Serving(p)' /\ Staged(p)'
<1>t. TypeInv /\ UNCHANGED tables /\ \A q \in Requests \ {p} : req'[q] = req[q]
  BY CallBegins DEF HistoryInv
<1>1. CASE Create(p)
  <2>1. PICK i \in ManualIds, c \in Classes, slot \in Bookings,
             status \in {"scheduled", "cancelled"} :
          /\ Unused(i) /\ PlainRead(p)
          /\ Begin(p, "create", i, c, {WriteTo(i, Booked(c, slot, status, "manual", None))})
    BY <1>1 DEF Create
  <2> DEFINE w == WriteTo(i, Booked(c, slot, status, "manual", None))
  <2>2. w.id = i /\ w.row.movedFrom = None /\ w.row.movedTo = None /\ w.row # Deleted
    BY DEF WriteTo, Booked, Deleted
  <2> HIDE DEF w
  <2>3. /\ req'[p].op = "create" /\ req'[p].pc = "write" /\ req'[p].id = i
        /\ req'[p].writes = {w}
    BY <1>t, <2>1, BeginShape DEF w
  <2>4. Fresh(p, i)'
    BY <1>t, <2>1, <2>2, <2>3, NewIsFresh DEF Written
  <2>5. session'[i] = Unborn /\ ~Exists(i)'
    BY <2>4 DEF Fresh, Exists, Unborn
  <2>6. KeepsRow(w)'
    BY <2>2, <2>5 DEF KeepsRow
  <2>7. ~HasRowLocks => p \in shared'
    BY <2>1, ReaderIsShared
  <2> QED
    BY <2>2, <2>3, <2>4, <2>6, <2>7 DEF Serving, Staged, Owns
<1>2. CASE Update(p)
  <2>1. PICK i \in Ids, slot \in Bookings :
          /\ Exists(i) /\ LockingRead(p, i)
          /\ Begin(p, "update", i, None, {WriteTo(i, [session[i] EXCEPT !.at = slot])})
    BY <1>2 DEF Update
  <2> DEFINE w == WriteTo(i, [session[i] EXCEPT !.at = slot])
  <2>2. session[i] \in SessionRow
    BY <1>t, <2>1, ExistingRow
  <2>3. w.id = i /\ KeepsRow(w)
    BY <2>1, <2>2 DEF WriteTo, KeepsRow, SessionRow, Deleted
  <2> HIDE DEF w
  <2>4. Begin(p, "update", i, None, {w})
    BY <2>1 DEF w
  <2> QED
    BY <2>1, <2>3, <2>4, EditBegins DEF Ops
<1>3. CASE Cancel(p)
  <2>1. PICK i \in Ids :
          /\ Live(i) /\ LockingRead(p, i)
          /\ Begin(p, "cancel", i, None, {WriteTo(i, [session[i] EXCEPT !.status = "cancelled"])})
    BY <1>3 DEF Cancel
  <2> DEFINE w == WriteTo(i, [session[i] EXCEPT !.status = "cancelled"])
  <2>2. session[i] \in SessionRow /\ Exists(i)
    BY <1>t, <2>1, ExistingRow DEF Live, Exists
  <2>3. w.id = i /\ KeepsRow(w)
    BY <2>2 DEF WriteTo, KeepsRow, SessionRow, Deleted
  <2> HIDE DEF w
  <2>4. Begin(p, "cancel", i, None, {w})
    BY <2>1 DEF w
  <2> QED
    BY <2>1, <2>3, <2>4, EditBegins DEF Ops
<1>4. CASE Reschedule(p)
  <2>1. PICK i \in Ids, j \in ManualIds, slot \in Bookings :
          /\ Live(i) /\ Unused(j) /\ LockingRead(p, i)
          /\ Begin(p, "reschedule", i, session[i].class,
               {WriteTo(j, Booked(session[i].class, slot, "scheduled", "manual", i)),
                WriteTo(i, [session[i] EXCEPT !.status = "cancelled", !.movedTo = j])})
    BY <1>4 DEF Reschedule
  <2> DEFINE new == WriteTo(j, Successor(i, slot))
             old == WriteTo(i, Moved(i, j))
  <2>2. Begin(p, "reschedule", i, session[i].class, {new, old})
    BY <2>1 DEF Successor, Moved
  <2>3. new.id = j /\ old.id = i
    BY DEF WriteTo
  <2>4. /\ req'[p].op = "reschedule" /\ req'[p].pc = "write" /\ req'[p].id = i
        /\ req'[p].writes = {new, old}
    BY <1>t, <2>2, BeginShape
  <2>5. j \in Written(p)'
    BY <2>3, <2>4 DEF Written
  <2>6. Fresh(p, j)'
    BY <1>t, <2>1, <2>5, NewIsFresh
  <2>7. HasRowLocks => rowLock'[i] = p
    <3>1. i \in Rows /\ DbTypeOK
      BY <1>t, IdsAreRows DEF TypeInv
    <3> QED
      BY <2>1, <3>1, LockTaken
  <2>8. ~HasRowLocks => p \in shared'
    BY <2>1, ReaderIsShared
  <2>9. Live(i)' /\ Successor(i, slot)' = Successor(i, slot) /\ Moved(i, j)' = Moved(i, j)
    BY <1>t, <2>1 DEF Live, Successor, Moved, Booked, tables
  <2>10. Moves(p)'
    BY <2>4, <2>6, <2>9 DEF Moves, WriteTo
  <2>11. \A w \in req'[p].writes : Owns(p, w.id)'
    BY <2>3, <2>4, <2>6, <2>7 DEF Owns
  <2> QED
    BY <2>4, <2>7, <2>8, <2>10, <2>11 DEF Serving, Staged, Owns
<1>5. CASE Delete(p)
  <2>1. PICK i \in Ids :
          /\ Exists(i) /\ ~HasAttendance(i) /\ LockingRead(p, i)
          /\ Begin(p, "delete", i, None, {WriteTo(i, Deleted)})
    BY <1>5 DEF Delete
  <2>2. \A w \in {WriteTo(i, Deleted)} : w.id = i /\ KeepsRow(w)
    BY <2>1 DEF WriteTo, KeepsRow
  <2> QED
    BY <2>1, <2>2, EditBegins DEF Ops
<1>6. CASE Mark(p)
  <2>1. PICK i \in Ids : LockingRead(p, i) /\ Starts(p, "mark", i, None, {})
    BY <1>t, <1>6, MarkStarts
  <2> QED
    BY <2>1, EditBegins DEF Ops
<1> QED
  BY <1>1, <1>2, <1>3, <1>4, <1>5, <1>6 DEF Books

\* A worker's own step leaves it a good plan.
LEMMA OwnKeepsHistory ==
  ASSUME HistoryInv, TypeInv', NEW p \in Requests, StepOf(p)
  PROVE  Serving(p)' /\ Staged(p)'
<1>t. TypeInv /\ DbTypeOK /\ Serving(p) /\ Staged(p) /\ \A q \in Requests \ {p} : req'[q] = req[q]
  BY OnlyOneMoves DEF HistoryInv, TypeInv
<1>w. \A w \in req[p].writes : w.id \in Ids
  BY <1>t DEF TypeInv, Request, Write
<1>1. CASE Books(p)
  BY <1>1, CallKeepsHistory
<1>2. CASE Plan(p)
  <2>1. ~HasRowLocks => p \in shared'
    BY <1>t, <1>2, PlanBegins, ReaderIsShared
  <2> QED
    BY <1>t, <1>2, <2>1, PlanBegins DEF Serving, Staged
<1>3. CASE EditClass(p) \/ DeleteClass(p) \/ DeleteStudent(p)
  <2>1. req' = req /\ req[p].pc = "idle"
    BY <1>3 DEF EditClass, DeleteClass, DeleteStudent
  <2>2. req[p].writes = {} /\ req[p].op # "reschedule"
    BY <1>t, <2>1 DEF Serving, Staged, Moves
  <2> QED
    BY <2>1, <2>2 DEF Serving, Staged
<1>4. CASE Save(p)
  <2>1. /\ req'[p] = [req[p] EXCEPT !.pc = "commit"]
        /\ req[p].pc = "write" /\ req[p].op # "generate"
        /\ WriteRow(p, req[p].id) /\ UNCHANGED tables
    BY <1>t, <1>4 DEF Save, TypeInv
  <2>2. /\ req'[p].op = req[p].op /\ req'[p].writes = req[p].writes
        /\ req'[p].id = req[p].id /\ req'[p].pc = "commit" /\ req[p].id \in Ids
    BY <1>t, <2>1 DEF TypeInv, Request, Named
  <2>3. \A i \in Ids : Owns(p, i) => Owns(p, i)'
    BY <1>t, <2>1, <2>2, OwnStays
  <2>4. ~HasRowLocks => p \in shared' /\ reserved' = p
    BY <2>1, ReaderIsShared
  <2>5. \A w \in req[p].writes : KeepsRow(w) => KeepsRow(w)'
    BY <2>1 DEF KeepsRow, Exists, HasAttendance, tables
  <2>6. Moves(p) => Moves(p)'
    <3> SUFFICES ASSUME Moves(p) PROVE Moves(p)'
      OBVIOUS
    <3>1. PICK j \in ManualIds, slot \in Bookings :
            /\ Live(req[p].id) /\ Fresh(p, j)
            /\ req[p].writes = {WriteTo(j, Successor(req[p].id, slot)),
                                WriteTo(req[p].id, Moved(req[p].id, j))}
      BY DEF Moves
    <3>2. j \in Ids /\ Owns(p, j) /\ session[j] = Unborn
      BY <3>1, IdsAreRows DEF Owns, Fresh
    <3>3. HasRowLocks => rowLock'[j] \in {None, p}
      BY <1>t, <2>1, <3>1, <3>2, IdsAreRows DEF Fresh, WriteRow, TakeRowLock, DbTypeOK
    <3>4. Fresh(p, j)'
      BY <1>t, <2>1, <2>2, <3>1, <3>3 DEF Fresh, Written, tables
    <3>5. /\ Live(req[p].id)'
          /\ Successor(req[p].id, slot)' = Successor(req[p].id, slot)
          /\ Moved(req[p].id, j)' = Moved(req[p].id, j)
      BY <2>1, <2>2, <3>1 DEF Live, Successor, Moved, Booked, tables
    <3> QED
      BY <2>2, <3>1, <3>4, <3>5 DEF Moves, WriteTo
  <2> QED
    BY <1>t, <1>w, <2>1, <2>2, <2>3, <2>4, <2>5, <2>6 DEF Serving, Staged
<1>5. CASE Generate(p)
  <2>1. PICK s \in req[p].creates :
          LET i == SlotId(req[p].class, s)
          IN /\ s \in Slots /\ i \in Ids /\ i \notin ManualIds /\ ~Exists(i)
             /\ req[p].op = "generate" /\ WriteRow(p, i) /\ UNCHANGED tables
             /\ req'[p].op = "generate" /\ req'[p].pc = "write"
             /\ req'[p].writes = req[p].writes \cup
                  {WriteTo(i, Booked(req[p].class, s, "scheduled", "generated", None))}
    BY <1>t, <1>5, GenerateShape
  <2>2. PICK i \in Ids : i = SlotId(req[p].class, s)
    BY <2>1
  <2>3. PICK w : w = WriteTo(i, Booked(req[p].class, s, "scheduled", "generated", None))
    OBVIOUS
  <2>4. w.id = i /\ KeepsRow(w)
    BY <2>1, <2>2, <2>3 DEF WriteTo, Booked, KeepsRow, Deleted
  <2>5. WriteRow(p, i) /\ req'[p].writes = req[p].writes \cup {w}
    BY <2>1, <2>2, <2>3
  <2>6. \A k \in Ids : Owns(p, k) => Owns(p, k)'
    BY <1>t, <2>1, <2>5, OwnStays
  <2>7. Owns(p, i)'
    BY <1>t, <2>5, WrittenIsOwned
  <2>8. ~HasRowLocks => p \in shared' /\ reserved' = p
    BY <2>5, ReaderIsShared
  <2>9. \A v \in req'[p].writes : KeepsRow(v)'
    <3>1. \A v \in req'[p].writes : KeepsRow(v)
      BY <1>t, <2>1, <2>4, <2>5 DEF Staged
    <3> QED
      BY <2>1, <3>1 DEF KeepsRow, Exists, HasAttendance, tables
  <2>10. \A v \in req'[p].writes : Owns(p, v.id)'
    <3>1. \A v \in req[p].writes : Owns(p, v.id)'
      BY <1>t, <1>w, <2>6 DEF Staged
    <3> QED
      BY <2>4, <2>5, <2>7, <3>1
  <2> QED
    BY <2>1, <2>8, <2>9, <2>10 DEF Serving, Staged
<1>6. CASE Rewrite(p)
  <2>1. PICK s \in req[p].updates :
          LET i == SlotId(req[p].class, s)
          IN /\ i \in Ids
             /\ req[p].op = "generate" /\ WriteRow(p, i) /\ UNCHANGED tables
             /\ req'[p].op = "generate" /\ req'[p].pc = "write"
             /\ req[p].writes \subseteq req'[p].writes
             /\ \A w \in req'[p].writes : w \in req[p].writes \/
                  (Exists(i) /\ w.id = i /\ w = WriteTo(i, [session[i] EXCEPT !.at = s]))
    BY <1>t, <1>6, RewriteShape
  <2>2. PICK i \in Ids : i = SlotId(req[p].class, s)
    BY <2>1
  <2>3. \A w \in req'[p].writes : w \in req[p].writes \/ (w.id = i /\ KeepsRow(w))
    <3>1. Exists(i) => session[i] \in SessionRow
      BY <1>t, ExistingRow
    <3>2. Exists(i) => KeepsRow(WriteTo(i, [session[i] EXCEPT !.at = s]))
      BY <3>1 DEF WriteTo, KeepsRow, SessionRow, Deleted
    <3> QED
      BY <2>1, <2>2, <3>2
  <2>4. WriteRow(p, i)
    BY <2>1, <2>2
  <2>5. \A k \in Ids : Owns(p, k) => Owns(p, k)'
    BY <1>t, <2>1, <2>4, OwnStays
  <2>6. Owns(p, i)'
    BY <1>t, <2>4, WrittenIsOwned
  <2>7. ~HasRowLocks => p \in shared' /\ reserved' = p
    BY <2>4, ReaderIsShared
  <2>8. \A v \in req'[p].writes : KeepsRow(v)'
    <3>1. \A v \in req'[p].writes : KeepsRow(v)
      BY <1>t, <2>1, <2>3 DEF Staged
    <3> QED
      BY <2>1, <3>1 DEF KeepsRow, Exists, HasAttendance, tables
  <2>9. \A v \in req'[p].writes : Owns(p, v.id)'
    <3>1. \A v \in req[p].writes : Owns(p, v.id)'
      BY <1>t, <1>w, <2>5 DEF Staged
    <3>2. \A v \in req'[p].writes : v \in req[p].writes \/ v.id = i
      BY <2>3
    <3> QED
      BY <2>6, <3>1, <3>2
  <2> QED
    BY <2>1, <2>7, <2>8, <2>9 DEF Serving, Staged
<1>7. CASE Generated(p)
  <2>1. /\ req'[p] = [req[p] EXCEPT !.pc = "commit"]
        /\ req[p].pc = "write" /\ req[p].op = "generate"
        /\ UNCHANGED dbVars /\ UNCHANGED tables
    BY <1>t, <1>7 DEF Generated, At, TypeInv
  <2>2. req'[p].op = "generate" /\ req'[p].writes = req[p].writes /\ req'[p].pc = "commit"
    BY <1>t, <2>1 DEF TypeInv, Request
  <2>3. \A i \in Ids : Owns(p, i) => Owns(p, i)'
    BY <1>t, <2>1, <2>2, OwnStays
  <2>4. \A w \in req[p].writes : KeepsRow(w) => KeepsRow(w)'
    BY <2>1 DEF KeepsRow, Exists, HasAttendance, tables
  <2> QED
    BY <1>t, <1>w, <2>1, <2>2, <2>3, <2>4 DEF Serving, Staged, dbVars
<1>8. CASE Commit(p) \/ Fail(p)
  <2>1. req'[p] = Idle
    BY <1>t, <1>8 DEF Commit, Fail, RollBack, TypeInv
  <2> QED
    BY <2>1 DEF Serving, Staged, Idle
<1> QED
  BY <1>1, <1>2, <1>3, <1>4, <1>5, <1>6, <1>7, <1>8 DEF StepOf, Asks, Continue, Books

\* A commit that moves nothing keeps the links of what is there, and what it
\* inserts has none.
LEMMA CommitKeepsLinks ==
  ASSUME TypeInv, NEW p \in Requests, Staged(p), Commit(p), req[p].op # "reschedule",
         NEW i \in Ids, Exists(i)'
  PROVE  \/ /\ Exists(i)
            /\ session'[i].movedFrom = session[i].movedFrom
            /\ session'[i].movedTo = session[i].movedTo
            /\ session'[i].status \in {session[i].status, "cancelled"}
         \/ /\ session'[i].movedFrom = None /\ session'[i].movedTo = None
            /\ i \in ManualIds => session[i] = Unborn
<1>1. CASE i \notin Written(p)
  BY <1>1, CommittedRow DEF Exists
<1>2. CASE i \in Written(p)
  <2>1. PICK w \in req[p].writes : w.id = i /\ session'[i] = w.row
    BY <1>2, CommittedRow
  <2>2. w.row # Deleted /\ KeepsRow(w)
    BY <2>1 DEF Staged, Exists, Deleted
  <2> QED
    BY <2>1, <2>2 DEF KeepsRow
<1> QED
  BY <1>1, <1>2

\* A commit that moves a session inserts its one successor.
LEMMA CommitMoves ==
  ASSUME TypeInv, NEW p \in Requests, Staged(p), Commit(p), req[p].op = "reschedule"
  PROVE  \E i \in Ids, j \in ManualIds, slot \in Bookings :
           /\ i # j /\ session[j] = Unborn /\ Live(i) /\ j \in Ids
           /\ session' = [k \in Ids |-> IF k = j THEN Successor(i, slot)
                                        ELSE IF k = i THEN Moved(i, j) ELSE session[k]]
<1>1. PICK j \in ManualIds, slot \in Bookings :
        /\ Live(req[p].id) /\ Fresh(p, j)
        /\ req[p].writes = {WriteTo(j, Successor(req[p].id, slot)),
                            WriteTo(req[p].id, Moved(req[p].id, j))}
  BY DEF Staged, Moves
<1>2. PICK i \in Ids : i = req[p].id
  BY DEF TypeInv, Named, Commit
<1>3. i # j /\ session[j] = Unborn /\ Live(i) /\ j \in Ids
  BY <1>1, <1>2, IdsAreRows DEF Fresh, Live, Unborn
<1>4. /\ session'[j] = Successor(i, slot)
      /\ session'[i] = Moved(i, j)
      /\ \A k \in Ids : k # i /\ k # j => session'[k] = session[k]
  <2>1. \A w \in req[p].writes : \/ w.id = j /\ w.row = Successor(i, slot)
                                 \/ w.id = i /\ w.row = Moved(i, j)
    BY <1>1, <1>2 DEF WriteTo
  <2>2. Written(p) = {i, j}
    BY <1>1, <1>2 DEF WriteTo, Written
  <2> QED
    BY <1>3, <2>1, <2>2, CommittedRow
<1>5. session' = [k \in Ids |-> session'[k]]
  BY DEF Commit
<1>6. session' = [k \in Ids |-> IF k = j THEN Successor(i, slot)
                              ELSE IF k = i THEN Moved(i, j) ELSE session[k]]
  BY <1>4, <1>5
<1> QED
  BY <1>3, <1>6

LEMMA LinksStand ==
  ASSUME HistoryInv, NEW p \in Requests, StepOf(p) PROVE Links'
<1>t. TypeInv /\ Links /\ Staged(p)
  BY DEF HistoryInv
<1>b. \A i \in Ids : session[i] # Unborn => session'[i] # Unborn
  BY <1>t, BornStays
<1>1. CASE \A i \in Ids : session'[i] = session[i] \/ session'[i] = Deleted
  <2>1. \A i \in Ids : Exists(i)' => Exists(i) /\ session'[i] = session[i]
    BY <1>1 DEF Exists, Deleted
  <2> QED
    BY <1>t, <1>b, <2>1, LinksKept
<1>2. CASE Commit(p) /\ req[p].op # "reschedule"
  BY <1>t, <1>b, <1>2, CommitKeepsLinks, LinksKept
<1>3. CASE Commit(p) /\ req[p].op = "reschedule"
  BY <1>t, <1>3, CommitMoves, MoveLinks
<1> QED
  BY <1>t, <1>1, <1>2, <1>3, OnlyCommitsWrite DEF tables, EditClass, DeleteStudent, DeleteClass

LEMMA InitHistoryInv == Init => HistoryInv
<1> SUFFICES ASSUME Init PROVE HistoryInv
  OBVIOUS
<1>1. Links
  BY DEF Init, Links, MovesLinkBothWays, LinksNameSessions, Exists, Unborn
<1>2. LockedToInsert
  BY IdsAreRows, NoneAssumption DEF Init, DbInit, LockedToInsert
<1>3. \A p \in Requests : Serving(p) /\ Staged(p)
  BY DEF Init, Idle, Serving, Staged
<1> QED
  BY <1>1, <1>2, <1>3, InitTypeInv DEF HistoryInv

LEMMA StepHistoryInv ==
  ASSUME HistoryInv, NEW p \in Requests, StepOf(p) PROVE HistoryInv'
<1>1. TypeInv'
  BY CallTyped, ContinueTyped DEF HistoryInv, StepOf
<1>2. \A q \in Requests : Serving(q)' /\ Staged(q)'
  BY <1>1, OthersKeepHistory, OwnKeepsHistory
<1> QED
  BY <1>1, <1>2, LinksStand, LockedToInsertKept DEF HistoryInv

LEMMA NextHistoryInv == HistoryInv /\ [Next]_vars => HistoryInv'
<1>1. ASSUME HistoryInv, UNCHANGED vars PROVE HistoryInv'
  <2>1. TypeInv'
    BY <1>1, NextTypeInv DEF HistoryInv
  <2>2. Links'
    BY <1>1 DEF HistoryInv, Links, MovesLinkBothWays, LinksNameSessions, Exists, vars, tables
  <2>3. LockedToInsert'
    BY <1>1 DEF HistoryInv, LockedToInsert, Written, vars, tables, dbVars
  <2>4. \A p \in Requests : Serving(p)' /\ Staged(p)'
    <3> SUFFICES ASSUME NEW p \in Requests PROVE Serving(p)' /\ Staged(p)'
      OBVIOUS
    <3>1. Serving(p) /\ Staged(p) /\ UNCHANGED <<rowLock, shared, reserved, session, attended, req>>
      BY <1>1 DEF HistoryInv, vars, tables, dbVars
    <3>2. \A i : Fresh(p, i)' <=> Fresh(p, i)
      BY <3>1 DEF Fresh, Written
    <3>3. \A i : Owns(p, i)' <=> Owns(p, i)
      BY <3>1, <3>2 DEF Owns
    <3>4. \A w : KeepsRow(w)' <=> KeepsRow(w)
      BY <3>1 DEF KeepsRow, Exists, HasAttendance
    <3>5. Moves(p)' <=> Moves(p)
      BY <3>1, <3>2 DEF Moves, Live, Successor, Moved, Booked
    <3> QED
      BY <3>1, <3>3, <3>4, <3>5 DEF Serving, Staged
  <2> QED
    BY <2>1, <2>2, <2>3, <2>4 DEF HistoryInv
<1> QED
  BY <1>1, StepHistoryInv, StepsOfNext DEF Next

\* A moved session and its replacement name each other for good, however moves,
\* cancellations, deletions and generations race, on either engine and for any
\* number of workers and sessions.
THEOREM SchedulingMovesLink == Spec => []MovesLinkBothWays
<1>1. HistoryInv => MovesLinkBothWays
  BY DEF HistoryInv, Links
<1> QED
  BY <1>1, InitHistoryInv, NextHistoryInv, PTL DEF Spec

\* On either engine a record of attendance is lost only together with its class
\* or its student, so no deletion, generation or move takes a session that was
\* held; and a cancelled session never takes place after all.
THEOREM SchedulingHistoryStands == Spec => HistoryStands
<1>1. ASSUME HistoryInv, [Next]_vars, NEW a \in attended, a \notin attended'
      PROVE  class'[session[a[1]].class].status = "deleted" \/ a[2] \notin students'
  <2>1. TypeInv /\ a[1] \in Ids /\ a[2] \in Students /\ a = <<a[1], a[2]>>
    BY <1>1 DEF HistoryInv, TypeInv
  <2>2. PICK p \in Requests : StepOf(p)
    BY <1>1, StepsOfNext DEF Next, vars, tables
  <2>3. ~Commit(p)
    <3> SUFFICES ASSUME Commit(p) PROVE FALSE
      OBVIOUS
    <3>1. PICK w \in req[p].writes : w.id = a[1] /\ w.row = Deleted
      BY <1>1 DEF Commit, RecordsOf
    <3>2. req[p].op # "reschedule"
      <4>1. \A k, l, slot : WriteTo(k, Successor(l, slot)).row # Deleted
        BY DEF WriteTo, Successor, Booked, Deleted
      <4>2. \A k, l \in Ids : Live(k) => WriteTo(k, Moved(k, l)).row # Deleted
        BY <2>1, ExistingRow DEF WriteTo, Moved, Deleted, SessionRow, Live, Exists
      <4>3. req[p].op = "reschedule" => Moves(p) /\ req[p].id \in Ids
        BY <1>1, <2>1 DEF HistoryInv, Staged, TypeInv, Named, Commit
      <4> QED
        BY <3>1, <4>1, <4>2, <4>3, IdsAreRows DEF Moves
    <3>3. KeepsRow(w)
      BY <1>1, <3>2 DEF HistoryInv, Staged
    <3> QED
      BY <1>1, <2>1, <3>1, <3>3 DEF KeepsRow, HasAttendance
  <2>4. CASE DeleteClass(p)
    <3>1. PICK c \in Classes :
            /\ class' = [class EXCEPT ![c].status = "deleted"]
            /\ attended' = attended \ RecordsOf({k \in Ids : Exists(k) /\ session[k].class = c})
      BY <2>4 DEF DeleteClass
    <3>2. session[a[1]].class = c
      BY <1>1, <3>1 DEF RecordsOf
    <3> QED
      BY <2>1, <3>1, <3>2 DEF TypeInv, ClassRow
  <2>5. CASE DeleteStudent(p)
    BY <1>1, <2>5 DEF DeleteStudent
  <2> QED
    BY <1>1, <2>1, <2>2, <2>3, <2>4, <2>5, OnlyCommitsWrite DEF tables, EditClass
<1>2. ASSUME HistoryInv, [Next]_vars, NEW i \in Ids, session[i].status = "cancelled"
      PROVE  ~Live(i)'
  <2>1. CASE UNCHANGED vars
    BY <1>2, <2>1 DEF vars, tables, Live
  <2>2. ASSUME NEW p \in Requests, StepOf(p) PROVE ~Live(i)'
    <3>1. CASE Commit(p) /\ i \in Written(p)
      <4>1. PICK w \in req[p].writes : w.id = i /\ session'[i] = w.row
        BY <3>1, CommittedRow
      <4>2. CASE req[p].op # "reschedule"
        <5>1. KeepsRow(w) /\ Exists(i)
          BY <1>2, <4>2 DEF HistoryInv, Staged, Exists
        <5> QED
          BY <1>2, <4>1, <5>1 DEF KeepsRow, Live, Deleted
      <4>3. CASE req[p].op = "reschedule"
        <5>1. PICK j \in ManualIds, slot \in Bookings :
                /\ Live(req[p].id) /\ Fresh(p, j)
                /\ req[p].writes = {WriteTo(j, Successor(req[p].id, slot)),
                                    WriteTo(req[p].id, Moved(req[p].id, j))}
          BY <1>2, <4>3 DEF HistoryInv, Staged, Moves
        <5>2. i # req[p].id /\ i # j
          BY <1>2, <5>1 DEF Live, Fresh, Unborn
        <5> QED
          BY <4>1, <5>1, <5>2 DEF WriteTo
      <4> QED
        BY <4>2, <4>3
    <3>2. CASE Commit(p) /\ i \notin Written(p)
      BY <1>2, <3>2, CommittedRow DEF Live
    <3>3. CASE DeleteClass(p)
      BY <1>2, <3>3 DEF DeleteClass, Live, Deleted
    <3> QED
      BY <1>2, <2>2, <3>1, <3>2, <3>3, OnlyCommitsWrite DEF HistoryInv, Live, tables, EditClass, DeleteStudent
  <2> QED
    BY <1>2, <2>1, <2>2, StepsOfNext DEF Next
<1>3. HistoryInv /\ [Next]_vars =>
        /\ \A a \in attended : a \notin attended' =>
             class'[session[a[1]].class].status = "deleted" \/ a[2] \notin students'
        /\ \A i \in Ids : session[i].status = "cancelled" => ~Live(i)'
  BY <1>1, <1>2
<1>4. Spec => AttendanceKeepsSession
  BY <1>3, InitHistoryInv, NextHistoryInv, PTL DEF Spec, AttendanceKeepsSession
<1>5. Spec => CancelledForGood
  BY <1>3, InitHistoryInv, NextHistoryInv, PTL DEF Spec, CancelledForGood
<1> QED
  BY <1>4, <1>5 DEF HistoryStands

-----------------------------------------------------------------------------
(***************************************************************************)
(* On sqlite the plan of a request is never stale when it is committed:    *)
(* its new sessions belong to active classes, and a generation rewrites    *)
(* only sessions that take place and have no attendance.                   *)
(***************************************************************************)

\* A staged row keeps the class of its session, or is new in an active class.
FitsClass(w) ==
  w.row # Deleted =>
    IF Exists(w.id) THEN w.row.class = session[w.id].class ELSE class[w.row.class].status = "active"

Planned(p) ==
  req[p].pc # "idle" =>
    /\ \A w \in req[p].writes : FitsClass(w)
    /\ req[p].op = "generate" =>
         /\ class[req[p].class].status = "active"
         /\ \A s \in req[p].updates : MayRewrite(SlotId(req[p].class, s), s)
         /\ \A w \in req[p].writes : Exists(w.id) => Live(w.id) /\ ~HasAttendance(w.id)

SessionsHaveClasses == \A i \in Ids : Exists(i) => ClassExists(session[i].class)

PlanInv ==
  /\ HistoryInv
  /\ SessionsHaveClasses
  /\ \A p \in Requests : Planned(p)

LEMMA BookableIsActive ==
  ASSUME TypeInv, NEW self, NEW c \in Classes, NEW slot, Bookable(self, c, slot), ClassExists(c)
  PROVE  class[c].status = "active"
BY DEF Bookable, ClassExists, TypeInv, ClassRow

LEMMA BeginPlanned ==
  ASSUME TypeInv, NEW p \in Requests, NEW op \in Ops \ {"generate"}, NEW i, NEW c, NEW writes,
         Begin(p, op, i, c, writes) \/ Starts(p, op, i, c, writes),
         \A w \in writes : FitsClass(w)
  PROVE  Planned(p)'
<1>1. UNCHANGED tables /\ req'[p].op = op /\ req'[p].writes = writes
  BY BeginShape
<1>2. \A w \in writes : FitsClass(w)'
  BY <1>1 DEF FitsClass, Exists, tables
<1> QED
  BY <1>1, <1>2 DEF Planned

LEMMA CallPlanned ==
  ASSUME PlanInv, NEW p \in Requests, Books(p) PROVE Planned(p)'
<1>t. TypeInv
  BY DEF PlanInv, HistoryInv
<1>1. CASE Create(p)
  <2>1. PICK i \in ManualIds, c \in Classes, slot \in Bookings,
             status \in {"scheduled", "cancelled"} :
          /\ Unused(i) /\ ClassExists(c) /\ Bookable(None, c, slot)
          /\ Begin(p, "create", i, c, {WriteTo(i, Booked(c, slot, status, "manual", None))})
    BY <1>1 DEF Create
  <2> DEFINE w == WriteTo(i, Booked(c, slot, status, "manual", None))
  <2>2. w.id = i /\ w.row.class = c
    BY DEF WriteTo, Booked
  <2> HIDE DEF w
  <2>3. FitsClass(w)
    BY <1>t, <2>1, <2>2, BookableIsActive DEF FitsClass, Unused, Exists, Unborn
  <2>4. Begin(p, "create", i, c, {w})
    BY <2>1 DEF w
  <2> QED
    BY <1>t, <2>3, <2>4, BeginPlanned DEF Ops
<1>2. CASE Update(p)
  <2>1. PICK i \in Ids, slot \in Bookings :
          /\ Exists(i)
          /\ Begin(p, "update", i, None, {WriteTo(i, [session[i] EXCEPT !.at = slot])})
    BY <1>2 DEF Update
  <2> DEFINE w == WriteTo(i, [session[i] EXCEPT !.at = slot])
  <2>2. w.id = i /\ w.row.class = session[i].class
    BY <1>t, <2>1, ExistingRow DEF WriteTo, SessionRow
  <2> HIDE DEF w
  <2>3. Begin(p, "update", i, None, {w})
    BY <2>1 DEF w
  <2> QED
    BY <1>t, <2>1, <2>2, <2>3, BeginPlanned DEF Ops, FitsClass
<1>3. CASE Cancel(p)
  <2>1. PICK i \in Ids :
          /\ Live(i)
          /\ Begin(p, "cancel", i, None, {WriteTo(i, [session[i] EXCEPT !.status = "cancelled"])})
    BY <1>3 DEF Cancel
  <2> DEFINE w == WriteTo(i, [session[i] EXCEPT !.status = "cancelled"])
  <2>2. Exists(i)
    BY <2>1 DEF Live, Exists
  <2>3. w.id = i /\ w.row.class = session[i].class
    BY <1>t, <2>2, ExistingRow DEF WriteTo, SessionRow
  <2> HIDE DEF w
  <2>4. Begin(p, "cancel", i, None, {w})
    BY <2>1 DEF w
  <2> QED
    BY <1>t, <2>2, <2>3, <2>4, BeginPlanned DEF Ops, FitsClass
<1>4. CASE Reschedule(p)
  <2>1. PICK i \in Ids, j \in ManualIds, slot \in Bookings :
          /\ Live(i) /\ Unused(j) /\ Bookable(i, session[i].class, slot)
          /\ Begin(p, "reschedule", i, session[i].class,
               {WriteTo(j, Booked(session[i].class, slot, "scheduled", "manual", i)),
                WriteTo(i, [session[i] EXCEPT !.status = "cancelled", !.movedTo = j])})
    BY <1>4 DEF Reschedule
  <2> DEFINE new == WriteTo(j, Booked(session[i].class, slot, "scheduled", "manual", i))
             old == WriteTo(i, [session[i] EXCEPT !.status = "cancelled", !.movedTo = j])
  <2>2. session[i] \in SessionRow /\ Exists(i)
    BY <1>t, <2>1, ExistingRow DEF Live, Exists
  <2>3. class[session[i].class].status = "active"
    BY <1>t, <2>1, <2>2, BookableIsActive DEF PlanInv, SessionsHaveClasses, SessionRow
  <2>4. FitsClass(new)
    BY <2>1, <2>3 DEF FitsClass, WriteTo, Booked, Unused, Exists, Unborn
  <2>5. FitsClass(old)
    BY <2>2 DEF FitsClass, WriteTo, SessionRow
  <2> HIDE DEF new, old
  <2>6. Begin(p, "reschedule", i, session[i].class, {new, old})
    BY <2>1 DEF new, old
  <2> QED
    BY <1>t, <2>4, <2>5, <2>6, BeginPlanned DEF Ops
<1>5. CASE Delete(p)
  <2>1. PICK i \in Ids : Begin(p, "delete", i, None, {WriteTo(i, Deleted)})
    BY <1>5 DEF Delete
  <2>2. FitsClass(WriteTo(i, Deleted))
    BY DEF FitsClass, WriteTo
  <2> QED
    BY <1>t, <2>1, <2>2, BeginPlanned DEF Ops
<1>6. CASE Mark(p)
  <2>1. PICK i \in Ids : Starts(p, "mark", i, None, {})
    BY <1>t, <1>6, MarkStarts
  <2> QED
    BY <1>t, <2>1, BeginPlanned DEF Ops
<1> QED
  BY <1>1, <1>2, <1>3, <1>4, <1>5, <1>6 DEF Books

LEMMA OwnPlanned ==
  ASSUME PlanInv, ~HasRowLocks, NEW p \in Requests, StepOf(p) PROVE Planned(p)'
<1>t. TypeInv /\ Planned(p)
  BY DEF PlanInv, HistoryInv
<1>1. CASE Books(p)
  BY <1>1, CallPlanned
<1>2. CASE Plan(p)
  <2>1. (\A s \in req[p].updates : MayRewrite(SlotId(req[p].class, s), s))'
    BY <1>t, <1>2, PlanBegins DEF MayRewrite, HasAttendance, Live, tables
  <2> QED
    BY <1>t, <1>2, <2>1, PlanBegins DEF Planned, tables
<1>3. CASE EditClass(p) \/ DeleteClass(p) \/ DeleteStudent(p)
  BY <1>3 DEF EditClass, DeleteClass, DeleteStudent, Planned
<1>4. CASE Save(p) \/ Generated(p)
  <2>1. /\ UNCHANGED tables /\ req[p].pc # "idle"
        /\ req'[p].op = req[p].op /\ req'[p].writes = req[p].writes
        /\ req'[p].class = req[p].class /\ req'[p].updates = req[p].updates
    BY <1>t, <1>4 DEF Save, Generated, At, TypeInv, Request
  <2> QED
    BY <1>t, <2>1 DEF Planned, FitsClass, MayRewrite, HasAttendance, Live, Exists, tables
<1>5. CASE Generate(p)
  <2>1. PICK s \in req[p].creates :
          LET i == SlotId(req[p].class, s)
          IN /\ ~Exists(i) /\ UNCHANGED tables
             /\ req[p].op = "generate" /\ req[p].pc = "write"
             /\ req'[p].op = "generate" /\ req'[p].class = req[p].class
             /\ req'[p].updates = req[p].updates
             /\ req'[p].writes = req[p].writes \cup
                  {WriteTo(i, Booked(req[p].class, s, "scheduled", "generated", None))}
    BY <1>t, <1>5, GenerateShape
  <2>2. PICK w : w = WriteTo(SlotId(req[p].class, s),
                             Booked(req[p].class, s, "scheduled", "generated", None))
    OBVIOUS
  <2>3. ~Exists(w.id) /\ w.row.class = req[p].class
    BY <2>1, <2>2 DEF WriteTo, Booked
  <2>4. req'[p].writes = req[p].writes \cup {w}
    BY <2>1, <2>2
  <2>5. FitsClass(w)
    BY <1>t, <2>1, <2>3 DEF Planned, FitsClass
  <2>6. \A v \in req'[p].writes : FitsClass(v) /\ (Exists(v.id) => Live(v.id) /\ ~HasAttendance(v.id))
    BY <1>t, <2>1, <2>3, <2>4, <2>5 DEF Planned
  <2> QED
    BY <1>t, <2>1, <2>6 DEF Planned, FitsClass, MayRewrite, HasAttendance, Live, Exists, tables
<1>6. CASE Rewrite(p)
  <2>1. PICK s \in req[p].updates :
          LET i == SlotId(req[p].class, s)
          IN /\ i \in Ids /\ UNCHANGED tables
             /\ req[p].op = "generate" /\ req[p].pc = "write"
             /\ req'[p].op = "generate" /\ req'[p].class = req[p].class
             /\ req'[p].updates = req[p].updates \ {s}
             /\ \A w \in req'[p].writes : w \in req[p].writes \/
                  (Exists(i) /\ w.id = i /\ w = WriteTo(i, [session[i] EXCEPT !.at = s]))
    BY <1>t, <1>6, RewriteShape
  <2>2. PICK i \in Ids : i = SlotId(req[p].class, s)
    BY <2>1
  <2>3. Live(i) /\ ~HasAttendance(i)
    BY <1>t, <2>1, <2>2 DEF Planned, MayRewrite
  <2>4. \A w \in req'[p].writes : w \in req[p].writes \/
          /\ w.id = i /\ w.row.class = session[i].class /\ Exists(i)
    <3>1. Exists(i) => WriteTo(i, [session[i] EXCEPT !.at = s]).row.class = session[i].class
      BY <1>t, ExistingRow DEF WriteTo, SessionRow
    <3> QED
      BY <2>1, <2>2, <3>1
  <2>5. \A v \in req'[p].writes : FitsClass(v) /\ (Exists(v.id) => Live(v.id) /\ ~HasAttendance(v.id))
    BY <1>t, <2>1, <2>3, <2>4 DEF Planned, FitsClass
  <2> QED
    BY <1>t, <2>1, <2>5 DEF Planned, FitsClass, MayRewrite, HasAttendance, Live, Exists, tables
<1>7. CASE Commit(p) \/ Fail(p)
  <2>1. req'[p] = Idle
    BY <1>t, <1>7 DEF Commit, Fail, RollBack, TypeInv
  <2> QED
    BY <2>1 DEF Planned, Idle
<1> QED
  BY <1>1, <1>2, <1>3, <1>4, <1>5, <1>6, <1>7 DEF StepOf, Asks, Continue, Books

LEMMA OthersPlanned ==
  ASSUME PlanInv, ~HasRowLocks, NEW p \in Requests, NEW q \in Requests, p # q, StepOf(q)
  PROVE  Planned(p)'
<1>1. req'[p] = req[p] /\ Planned(p) /\ HistoryInv
  BY OnlyOneMoves DEF PlanInv, HistoryInv
<1>2. req[p].pc # "idle" => UNCHANGED tables
  BY <1>1, ReaderBlocksWriters
<1> QED
  BY <1>1, <1>2 DEF Planned, FitsClass, MayRewrite, HasAttendance, Live, Exists, tables

LEMMA ClassesStand ==
  ASSUME PlanInv, NEW p \in Requests, StepOf(p) PROVE SessionsHaveClasses'
<1>t. TypeInv /\ Planned(p) /\ SessionsHaveClasses
  BY DEF PlanInv, HistoryInv
<1> SUFFICES ASSUME NEW i \in Ids, Exists(i)' PROVE class'[session'[i].class].status # "deleted"
  BY DEF SessionsHaveClasses, ClassExists
<1>1. CASE UNCHANGED tables
  BY <1>t, <1>1 DEF SessionsHaveClasses, ClassExists, Exists, tables
<1>2. CASE Commit(p)
  <2>1. class' = class /\ req[p].pc # "idle"
    BY <1>2 DEF Commit
  <2>2. CASE i \notin Written(p)
    BY <1>t, <1>2, <2>1, <2>2, CommittedRow DEF SessionsHaveClasses, ClassExists, Exists
  <2>3. CASE i \in Written(p)
    <3>1. PICK w \in req[p].writes : w.id = i /\ session'[i] = w.row
      BY <1>2, <2>3, CommittedRow
    <3>2. FitsClass(w) /\ w.row # Deleted
      BY <1>t, <2>1, <3>1 DEF Planned, Exists, Deleted
    <3> QED
      BY <1>t, <2>1, <3>1, <3>2 DEF FitsClass, SessionsHaveClasses, ClassExists
  <2> QED
    BY <2>2, <2>3
<1>3. CASE EditClass(p)
  <2>1. Exists(i) /\ session' = session
    BY <1>3 DEF EditClass, Exists
  <2>2. session[i].class \in Classes
    BY <1>t, <2>1, ExistingRow DEF SessionRow
  <2> QED
    BY <1>t, <1>3, <2>1, <2>2 DEF EditClass, SessionsHaveClasses, ClassExists, TypeInv
<1>4. CASE DeleteClass(p)
  <2>1. PICK c \in Classes :
          /\ class' = [class EXCEPT ![c].status = "deleted"]
          /\ session' = [k \in Ids |-> IF k \in {l \in Ids : Exists(l) /\ session[l].class = c}
                                       THEN Deleted ELSE session[k]]
    BY <1>4 DEF DeleteClass
  <2>2. Exists(i) /\ session'[i] = session[i] /\ session[i].class # c
    BY <2>1 DEF Exists, Deleted
  <2>3. session[i].class \in Classes
    BY <1>t, <2>2, ExistingRow DEF SessionRow
  <2> QED
    BY <1>t, <2>1, <2>2, <2>3 DEF SessionsHaveClasses, ClassExists, TypeInv
<1>5. CASE DeleteStudent(p)
  BY <1>t, <1>5 DEF DeleteStudent, SessionsHaveClasses, ClassExists, Exists
<1> QED
  BY <1>t, <1>1, <1>2, <1>3, <1>4, <1>5, OnlyCommitsWrite

LEMMA InitPlanInv == Init => PlanInv
<1> SUFFICES ASSUME Init PROVE PlanInv
  OBVIOUS
<1>1. SessionsHaveClasses /\ \A p \in Requests : Planned(p)
  BY DEF Init, Idle, SessionsHaveClasses, Exists, Unborn, Planned
<1> QED
  BY <1>1, InitHistoryInv DEF PlanInv

LEMMA NextPlanInv == ASSUME ~HasRowLocks PROVE PlanInv /\ [Next]_vars => PlanInv'
<1>1. ASSUME PlanInv, UNCHANGED vars PROVE PlanInv'
  <2>1. HistoryInv'
    BY <1>1, NextHistoryInv DEF PlanInv
  <2>2. SessionsHaveClasses'
    BY <1>1 DEF PlanInv, SessionsHaveClasses, ClassExists, Exists, vars, tables
  <2>3. \A p \in Requests : Planned(p)'
    BY <1>1 DEF PlanInv, Planned, FitsClass, MayRewrite, HasAttendance, Live, Exists, vars, tables
  <2> QED
    BY <2>1, <2>2, <2>3 DEF PlanInv
<1>2. ASSUME PlanInv, NEW p \in Requests, StepOf(p) PROVE PlanInv'
  BY <1>2, OwnPlanned, OthersPlanned, ClassesStand, StepHistoryInv DEF PlanInv
<1> QED
  BY <1>1, <1>2, StepsOfNext DEF Next

\* "An archived class takes no new session": on an engine without row locks no
\* commit brings one, whatever happened to the class since the request read it.
THEOREM SchedulingArchivedIsClosed == ASSUME ~HasRowLocks PROVE Spec => ArchivedGainsNoSession
<1>1. ASSUME PlanInv, [Next]_vars, NEW i \in Ids, ~Exists(i), Exists(i)'
      PROVE  class[session'[i].class].status = "active"
  <2>1. PICK p \in Requests : StepOf(p)
    BY <1>1, StepsOfNext DEF Next, vars, tables, Exists
  <2>2. Commit(p)
    BY <1>1, <2>1, OnlyCommitsWrite
       DEF PlanInv, HistoryInv, tables, EditClass, DeleteClass, DeleteStudent, Exists, Deleted
  <2>3. PICK w \in req[p].writes : w.id = i /\ session'[i] = w.row
    BY <1>1, <2>2, CommittedRow DEF Exists
  <2>4. FitsClass(w) /\ w.row # Deleted
    BY <1>1, <2>2, <2>3 DEF PlanInv, Planned, Commit, Exists, Deleted
  <2> QED
    BY <1>1, <2>3, <2>4 DEF FitsClass
<1>2. PlanInv /\ [Next]_vars =>
        \A i \in Ids : ~Exists(i) /\ Exists(i)' => class[session'[i].class].status = "active"
  BY <1>1
<1> QED
  BY <1>2, InitPlanInv, NextPlanInv, PTL DEF Spec, ArchivedGainsNoSession

\* "Generation never rewrites a session that has attendance or was cancelled":
\* on an engine without row locks that holds of what it commits, not only of
\* what it planned.
THEOREM SchedulingGenerationKeepsHistory ==
  ASSUME ~HasRowLocks PROVE Spec => GenerationKeepsHistory
<1>1. ASSUME PlanInv, NEW p \in Requests, NEW i \in Ids, At(p, "generate", "commit"), Commit(p),
             Exists(i), HasAttendance(i) \/ session[i].status = "cancelled"
      PROVE  session'[i] = session[i]
  <2>1. i \notin Written(p)
    BY <1>1 DEF PlanInv, Planned, At, Written, Live
  <2> QED
    BY <1>1, <2>1, CommittedRow
<1>2. PlanInv =>
        \A p \in Requests, i \in Ids :
          /\ At(p, "generate", "commit") /\ Commit(p)
          /\ Exists(i) /\ (HasAttendance(i) \/ session[i].status = "cancelled")
          => session'[i] = session[i]
  BY <1>1
<1> QED
  BY <1>2, InitPlanInv, NextPlanInv, PTL DEF Spec, GenerationKeepsHistory

-----------------------------------------------------------------------------
(***************************************************************************)
(* Make-up obligations.  On either engine: typing.  On sqlite: racing      *)
(* registrations do not exceed the cap, since the one that commits finds   *)
(* every other SHARED lock gone, and with it every other registration that *)
(* has counted.                                                            *)
(***************************************************************************)

Duty == [op : {"none", "register", "schedule", "complete"},
         pc : {"idle", "write", "commit"}, for : Originals \cup {None}]

\* A worker on duty serves an obligation, and one that books a make-up is in
\* the midst of SessionService::create.
DutyNamed ==
  \A p \in Requests :
    /\ duty[p] # NoDuty => duty[p].op # "none" /\ duty[p].for \in Originals
    /\ duty[p].op = "schedule" => req[p].op = "create"

ObligationTypes ==
  /\ comp \in [Originals -> Obligation] /\ duty \in [Requests -> Duty]
  /\ madeFor \in [Ids -> Originals \cup {None}]
  /\ DutyNamed

MakeupTypeInv == TypeInv /\ ObligationTypes

LEMMA OriginalsAreIds == Originals \subseteq Ids /\ Originals \subseteq ManualIds
  BY MakeupAssumption DEF Ids

LEMMA NoDutyTyped == NoDuty \in Duty /\ NoDuty.op = "none"
  BY DEF NoDuty, Duty

\* A step that touches no row and no request keeps the rest as it was.
LEMMA LocksTyped ==
  ASSUME TypeInv, DbTypeOK', UNCHANGED <<tables, req>>
  PROVE  TypeInv'
  BY DEF TypeInv, tables, Named

LEMMA RollBackTyped ==
  ASSUME TypeInv, NEW p \in Requests, RollBack(p)
  PROVE  TypeInv' /\ \A q \in Requests \ {p} : req'[q] = req[q]
<1>1. /\ req' \in [Requests -> Request] /\ Named'
      /\ \A q \in Requests \ {p} : req'[q] = req[q]
  BY DEF RollBack, TypeInv, Request, Idle, Ops, Places, Named
<1>2. DbTypeOK'
  BY DbTyped DEF RollBack, TypeInv
<1> QED
  BY <1>1, <1>2 DEF RollBack, TypeInv, tables

LEMMA ServeTyped ==
  ASSUME ObligationTypes, NEW p \in Requests, NEW op \in {"register", "schedule", "complete"},
         NEW o \in Originals, Serve(p, op, o), comp' = comp, madeFor' = madeFor,
         \A q \in Requests \ {p} : req'[q] = req[q],
         op = "schedule" => req'[p].op = "create"
  PROVE  ObligationTypes'
<1> DEFINE d == [op |-> op, pc |-> "write", for |-> o]
<1>1. d \in Duty /\ d.op = op /\ d.for = o
  BY DEF Duty
<1>2. duty' = [duty EXCEPT ![p] = d]
  BY DEF Serve
<1> HIDE DEF d
<1>3. duty' \in [Requests -> Duty] /\ duty'[p] = d /\ \A q \in Requests \ {p} : duty'[q] = duty[q]
  BY <1>1, <1>2 DEF ObligationTypes
<1>4. DutyNamed'
  BY <1>1, <1>3 DEF ObligationTypes, DutyNamed
<1> QED
  BY <1>3, <1>4 DEF ObligationTypes

\* The worker's duty is over.
LEMMA RelieveTyped ==
  ASSUME ObligationTypes, NEW p \in Requests, duty' = [duty EXCEPT ![p] = NoDuty],
         comp' \in [Originals -> Obligation], madeFor' \in [Ids -> Originals \cup {None}],
         \A q \in Requests \ {p} : req'[q] = req[q]
  PROVE  ObligationTypes'
<1>1. duty' \in [Requests -> Duty] /\ duty'[p] = NoDuty /\ \A q \in Requests \ {p} : duty'[q] = duty[q]
  BY NoDutyTyped DEF ObligationTypes
<1>2. DutyNamed'
  BY <1>1, NoDutyTyped DEF ObligationTypes, DutyNamed
<1> QED
  BY <1>1, <1>2 DEF ObligationTypes

LEMMA ScheduleTyped ==
  ASSUME MakeupTypeInv, NEW p \in Requests, Schedule(p)
  PROVE  MakeupTypeInv'
<1>1. PICK o \in Originals, i \in ManualIds, c \in Classes, slot \in Bookings :
         /\ LockingRead(p, CompRow(o))
         /\ Begin(p, "create", i, c, {WriteTo(i, Booked(c, slot, "scheduled", "manual", None))})
         /\ Serve(p, "schedule", o)
  BY DEF Schedule
<1>2. i \in Ids /\ slot \in Slots
  BY DEF Ids, Slots
<1>3. {WriteTo(i, Booked(c, slot, "scheduled", "manual", None))} \in SUBSET Write
  BY <1>2, BookedTyped DEF WriteTo, Write
<1>4. TypeInv'
  BY <1>1, <1>2, <1>3, BeginTyped, DbTyped DEF MakeupTypeInv, TypeInv, Ops
<1>5. req'[p].op = "create" /\ \A q \in Requests \ {p} : req'[q] = req[q]
  BY <1>1 DEF Begin, Start, Idle, MakeupTypeInv, TypeInv
<1>6. comp' = comp /\ madeFor' = madeFor
  BY DEF Schedule
<1> QED
  BY <1>1, <1>4, <1>5, <1>6, ServeTyped DEF MakeupTypeInv

LEMMA ReadTyped ==
  ASSUME MakeupTypeInv, NEW p \in Requests, Register(p) \/ Complete(p)
  PROVE  MakeupTypeInv'
<1>1. PICK o \in Originals :
         \/ PlainRead(p) /\ Serve(p, "register", o)
         \/ LockingRead(p, CompRow(o)) /\ Serve(p, "complete", o)
  BY DEF Register, Complete
<1>2. UNCHANGED <<tables, req, comp, madeFor>>
  BY DEF Register, Complete
<1>3. TypeInv'
  BY <1>1, <1>2, DbTyped, LocksTyped DEF MakeupTypeInv, TypeInv
<1>4. ObligationTypes'
  BY <1>1, <1>2, ServeTyped DEF MakeupTypeInv
<1> QED
  BY <1>3, <1>4 DEF MakeupTypeInv

LEMMA SaveObligationTyped ==
  ASSUME MakeupTypeInv, NEW p \in Requests, SaveObligation(p)
  PROVE  MakeupTypeInv'
<1>1. TypeInv'
  BY DbTyped, LocksTyped DEF SaveObligation, MakeupTypeInv, TypeInv
<1>2. /\ duty' \in [Requests -> Duty] /\ \A q \in Requests \ {p} : duty'[q] = duty[q]
      /\ duty'[p].op = duty[p].op /\ duty'[p].for = duty[p].for
  BY DEF SaveObligation, MakeupTypeInv, ObligationTypes, Duty
<1>3. duty[p] # NoDuty
  BY NoDutyTyped DEF SaveObligation
<1>4. DutyNamed'
  BY <1>2, <1>3 DEF SaveObligation, MakeupTypeInv, ObligationTypes, DutyNamed
<1> QED
  BY <1>1, <1>2, <1>4 DEF SaveObligation, MakeupTypeInv, ObligationTypes

LEMMA CommitObligationTyped ==
  ASSUME MakeupTypeInv, NEW p \in Requests, CommitObligation(p)
  PROVE  MakeupTypeInv'
<1>1. TypeInv'
  BY DbTyped, LocksTyped DEF CommitObligation, MakeupTypeInv, TypeInv
<1>2. comp' \in [Originals -> Obligation]
  BY DEF CommitObligation, MakeupTypeInv, ObligationTypes, Obligation
<1>3. UNCHANGED <<req, madeFor>> /\ duty' = [duty EXCEPT ![p] = NoDuty]
  BY DEF CommitObligation
<1>4. ObligationTypes'
  BY <1>2, <1>3, RelieveTyped DEF MakeupTypeInv, ObligationTypes
<1> QED
  BY <1>1, <1>4 DEF MakeupTypeInv

LEMMA SaveMakeupTyped ==
  ASSUME MakeupTypeInv, NEW p \in Requests, SaveMakeup(p)
  PROVE  MakeupTypeInv'
<1>1. Continue(p)
  BY DEF SaveMakeup, Continue
<1>2. TypeInv'
  BY <1>1, ContinueTyped DEF MakeupTypeInv
<1>3. \A q \in Requests : req'[q].op = req[q].op
  BY DEF SaveMakeup, Save, MakeupTypeInv, TypeInv, Request
<1> QED
  BY <1>2, <1>3 DEF SaveMakeup, MakeupTypeInv, ObligationTypes, DutyNamed

LEMMA CommitMakeupTyped ==
  ASSUME MakeupTypeInv, NEW p \in Requests, CommitMakeup(p)
  PROVE  MakeupTypeInv'
<1>1. Commit(p) /\ Continue(p) /\ StepOf(p)
  BY DEF CommitMakeup, Continue, StepOf
<1>2. TypeInv' /\ \A q \in Requests \ {p} : req'[q] = req[q]
  BY <1>1, ContinueTyped, OnlyOneMoves DEF MakeupTypeInv
<1> DEFINE o == duty[p].for
           i == req[p].id
<1>3. o \in Originals /\ i \in Ids
  BY <1>1, NoDutyTyped DEF CommitMakeup, Doing, Commit, MakeupTypeInv, ObligationTypes, DutyNamed, TypeInv, Named
<1>4. /\ comp' = [comp EXCEPT ![o].attempts = Append(@, i)]
      /\ duty' = [duty EXCEPT ![p] = NoDuty] /\ madeFor' = [madeFor EXCEPT ![i] = o]
  BY DEF CommitMakeup
<1> HIDE DEF o, i
<1>5. comp' \in [Originals -> Obligation]
  <2> DEFINE line == Append(comp[o].attempts, i)
  <2>1. comp[o] \in Obligation
    BY <1>3 DEF MakeupTypeInv, ObligationTypes
  <2>2. line \in Seq(Ids)
    BY <1>3, <2>1, AppendProperties DEF Obligation
  <2>3. comp' = [comp EXCEPT ![o].attempts = line]
    BY <1>4
  <2> HIDE DEF line
  <2> QED
    BY <1>3, <2>2, <2>3 DEF MakeupTypeInv, ObligationTypes, Obligation
<1>6. madeFor' \in [Ids -> Originals \cup {None}]
  BY <1>3, <1>4 DEF MakeupTypeInv, ObligationTypes
<1> QED
  BY <1>2, <1>4, <1>5, <1>6, RelieveTyped DEF MakeupTypeInv

LEMMA FailDutyTyped ==
  ASSUME MakeupTypeInv, NEW p \in Requests, FailDuty(p)
  PROVE  MakeupTypeInv'
<1>1. TypeInv' /\ \A q \in Requests \ {p} : req'[q] = req[q]
  BY RollBackTyped DEF FailDuty, MakeupTypeInv
<1>2. duty' = [duty EXCEPT ![p] = NoDuty] /\ UNCHANGED <<comp, madeFor>>
  BY DEF FailDuty
<1> QED
  BY <1>1, <1>2, RelieveTyped DEF MakeupTypeInv, ObligationTypes

LEMMA ElsewhereTyped ==
  ASSUME MakeupTypeInv, NEW p \in Requests, Elsewhere(p)
  PROVE  MakeupTypeInv'
<1>1. StepOf(p) /\ duty[p] = NoDuty /\ UNCHANGED <<comp, duty>>
  BY StepsOfNext DEF Elsewhere
<1>2. TypeInv' /\ \A q \in Requests \ {p} : req'[q] = req[q]
  BY <1>1, CallTyped, ContinueTyped, OnlyOneMoves DEF MakeupTypeInv, StepOf
<1>3. madeFor' \in [Ids -> Originals \cup {None}]
  BY DEF Elsewhere, MakeupTypeInv, ObligationTypes
<1>4. DutyNamed'
  BY <1>1, <1>2, NoDutyTyped DEF MakeupTypeInv, ObligationTypes, DutyNamed
<1> QED
  BY <1>1, <1>2, <1>3, <1>4 DEF MakeupTypeInv, ObligationTypes

LEMMA MakeupStartsTyped ==
  ASSUME MakeupInit
  PROVE  MakeupTypeInv
<1>1. DbTypeOK
  BY NoneAssumption DEF MakeupInit, DbInit, DbTypeOK
<1>2. req \in [Requests -> Request] /\ Named
  BY DEF MakeupInit, Request, Idle, Ops, Places, Named
<1>3. class \in [Classes -> ClassRow]
  BY DEF MakeupInit, ClassRow
<1>4. session \in [Ids -> SessionRow \cup {Unborn, Deleted}]
  <2>1. PICK c \in Classes, slot \in Bookings :
          session = [i \in Ids |->
            IF i \in Originals THEN Booked(c, slot, "cancelled", "manual", None) ELSE Unborn]
    BY DEF MakeupInit
  <2>2. Booked(c, slot, "cancelled", "manual", None) \in SessionRow
    BY BookedTyped DEF Slots
  <2> QED
    BY <2>1, <2>2
<1>5. [status |-> "none", attempts |-> <<>>] \in Obligation
  BY DEF Obligation
<1>6. ObligationTypes
  BY <1>5, NoDutyTyped DEF MakeupInit, ObligationTypes, DutyNamed
<1> QED
  BY <1>1, <1>2, <1>3, <1>4, <1>6 DEF MakeupTypeInv, TypeInv, MakeupInit

LEMMA MakeupTyped ==
  ASSUME MakeupTypeInv, [MakeupNext]_makeupVars
  PROVE  MakeupTypeInv'
<1>1. ASSUME UNCHANGED makeupVars PROVE MakeupTypeInv'
  BY <1>1 DEF makeupVars, vars, tables, dbVars, MakeupTypeInv, TypeInv, DbTypeOK, Named, ObligationTypes, DutyNamed
<1> QED
  BY <1>1, ScheduleTyped, ReadTyped, SaveObligationTyped, CommitObligationTyped, SaveMakeupTyped,
     CommitMakeupTyped, FailDutyTyped, ElsewhereTyped DEF MakeupNext

\* On either engine every obligation (CompensationService.php), every session
\* and every request on duty stays well-typed.
THEOREM MakeupsTyped == MakeupSpec => []MakeupTypeOK
<1>1. MakeupInit => MakeupTypeInv
  BY MakeupStartsTyped
<1>2. MakeupTypeInv /\ [MakeupNext]_makeupVars => MakeupTypeInv'
  BY MakeupTyped
<1>3. MakeupTypeInv => MakeupTypeOK
  BY TypeInvImpliesTypeOK DEF MakeupTypeInv, ObligationTypes, MakeupTypeOK, Duty
<1> QED
  BY <1>1, <1>2, <1>3, PTL DEF MakeupSpec

-----------------------------------------------------------------------------
(***************************************************************************)
(* On sqlite.  `madeFor' runs along the links, so the walk of lineageOf    *)
(* never leaves the sessions that were made for the obligation: what it    *)
(* ends at is a make-up of it.  A request that has counted the cap, or     *)
(* found a live make-up, holds SHARED until it commits, and so finds both  *)
(* as they were.                                                           *)
(***************************************************************************)
\* Induction on a set, from the least number outside it.
LEMMA SetInduction ==
  ASSUME NEW S, 0 \in S, \A n \in Nat : n \in S => n + 1 \in S
  PROVE  Nat \subseteq S
<1> SUFFICES ASSUME Nat \ S # {} PROVE FALSE
  OBVIOUS
<1> DEFINE T == Nat \ S
<1>1. T \subseteq Nat /\ T # {}
  OBVIOUS
<1>2. PICK x \in T : \A y \in T : ~(<<y, x>> \in OpToRel(<, Nat))
  <2> HIDE DEF T
  <2> QED
    BY <1>1, NatLessThanWellFounded, WFMin
<1>3. \A y \in T : ~(y < x)
  BY <1>1, <1>2 DEF OpToRel
<1>4. x # 0 /\ x - 1 \in Nat /\ (x - 1) + 1 = x
  OBVIOUS
<1>5. x - 1 \in T
  BY <1>4
<1> QED
  BY <1>3, <1>4, <1>5

\* What the walk finds at i with n moves behind it, if g says what it finds
\* with one move more.
Onward(g, n) ==
  [i \in Ids |->
    LET onward == NextInLineage(i)
    IN IF onward = {} THEN (IF Exists(i) THEN session[i].status ELSE "missing")
       ELSE IF n = MaxMoves THEN "missing"
       ELSE g[n + 1][CHOOSE j \in onward : TRUE]]

LastMoves(k) == (MaxMoves - k)..MaxMoves
Walks(k, g) == g = [n \in LastMoves(k) |-> Onward(g, n)]

LEMMA OnwardReads ==
  ASSUME NEW g, NEW h, NEW n, n # MaxMoves => g[n + 1] = h[n + 1]
  PROVE  Onward(g, n) = Onward(h, n)
  BY DEF Onward

LEMMA WalkExists == \E g : Walks(MaxMoves, g)
<1> DEFINE S == {k \in Nat : k <= MaxMoves => \E g : Walks(k, g)}
<1> USE MakeupAssumption DEF MakeupAssumption
<1>1. 0 \in S
  <2> DEFINE g == [n \in LastMoves(0) |-> Onward(<<>>, n)]
  <2>1. LastMoves(0) = {MaxMoves}
    BY DEF LastMoves
  <2>2. \A n \in LastMoves(0) : Onward(<<>>, n) = Onward(g, n)
    BY <2>1, OnwardReads
  <2>3. Walks(0, g)
    BY <2>2 DEF Walks
  <2> QED
    BY <2>3
<1>2. ASSUME NEW k \in Nat, k \in S
      PROVE  k + 1 \in S
  <2> SUFFICES ASSUME k + 1 <= MaxMoves PROVE \E h : Walks(k + 1, h)
    OBVIOUS
  <2>1. PICK g : Walks(k, g)
    BY <1>2
  <2> DEFINE first == MaxMoves - (k + 1)
             h == [n \in LastMoves(k + 1) |-> IF n = first THEN Onward(g, n) ELSE g[n]]
  <2>2. /\ LastMoves(k + 1) = {first} \cup LastMoves(k) /\ first \notin LastMoves(k)
        /\ first + 1 \in LastMoves(k) /\ \A n \in LastMoves(k) : n # MaxMoves => n + 1 \in LastMoves(k)
    BY DEF LastMoves
  <2>3. \A n \in LastMoves(k) : h[n] = g[n] /\ g[n] = Onward(g, n)
    BY <2>1, <2>2 DEF Walks
  <2>4. h[first] = Onward(g, first)
    BY <2>2
  <2>5. h = [n \in LastMoves(k + 1) |-> h[n]]
    OBVIOUS
  <2> HIDE DEF h, first
  <2>6. \A n \in LastMoves(k + 1) : Onward(h, n) = Onward(g, n)
    BY <2>2, <2>3, OnwardReads
  <2>7. \A n \in LastMoves(k + 1) : h[n] = Onward(h, n)
    BY <2>2, <2>3, <2>4, <2>6
  <2>8. Walks(k + 1, h)
    BY <2>5, <2>7 DEF Walks
  <2> QED
    BY <2>8
<1>3. MaxMoves \in S
  <2> HIDE DEF S
  <2> QED
    BY <1>1, <1>2, SetInduction
<1> QED
  BY <1>3

LEMMA EffectiveWalks ==
  \A n \in 0..MaxMoves : Effective[n] = Onward(Effective, n)
<1>1. LastMoves(MaxMoves) = 0..MaxMoves
  BY MakeupAssumption DEF MakeupAssumption, LastMoves
<1>2. PICK g : g = [n \in 0..MaxMoves |-> Onward(g, n)]
  BY <1>1, WalkExists DEF Walks
<1>3. Effective = CHOOSE f : f = [n \in 0..MaxMoves |-> Onward(f, n)]
  BY DEF Effective, Onward
<1>4. Effective = [n \in 0..MaxMoves |-> Onward(Effective, n)]
  BY <1>2, <1>3
<1> QED
  BY <1>4

-----------------------------------------------------------------------------
(* The invariant.                                                          *)

\* What is linked was made for the same obligation.
LinksStayInFamily ==
  \A i \in Ids : Exists(i) =>
    /\ session[i].movedTo # None => madeFor[session[i].movedTo] = madeFor[i]
    /\ session[i].movedFrom # None => madeFor[i] = madeFor[session[i].movedFrom]

\* A line of a ledger names a session that was booked for the obligation.
LedgersNameMakeups ==
  \A o \in Originals : \A n \in DOMAIN comp[o].attempts :
    LET i == comp[o].attempts[n] IN session[i] # Unborn /\ madeFor[i] = o

Claimed == {o \in Originals : comp[o].status # "none"}

\* What a worker on duty knows until it commits.
OnDuty(p) ==
  /\ duty[p].op \in {"register", "complete"} =>
       /\ req[p].pc = "idle" /\ p \in shared
       /\ duty[p].pc = "commit" => reserved = p
  /\ duty[p].op = "register" => comp[duty[p].for].status = "none" /\ Cardinality(Claimed) < Cap
  /\ duty[p].op = "complete" => comp[duty[p].for].status = "open" /\ LiveMakeups(duty[p].for) # {}
  /\ duty[p].op = "schedule" =>
       /\ req[p].pc # "idle" /\ Fresh(p, req[p].id)
       /\ \E c \in Classes, slot \in Bookings :
            req[p].writes = {WriteTo(req[p].id, Booked(c, slot, "scheduled", "manual", None))}

MakeupInv ==
  /\ MakeupTypeInv /\ HistoryInv
  /\ LinksStayInFamily /\ LedgersNameMakeups /\ MakeupCapRespected
  /\ \A p \in Requests : OnDuty(p)

\* The walk ends at a session of the family it started in.
LEMMA WalkStaysInFamily ==
  ASSUME TypeInv, LinksStayInFamily, NEW o \in Originals, NEW i \in Ids, madeFor[i] = o,
         Effective[0][i] \notin {"missing", "cancelled"}
  PROVE  LiveMakeups(o) # {}
<1> USE MakeupAssumption DEF MakeupAssumption
<1> DEFINE Ends(n) == \A j \in Ids : madeFor[j] = o /\ Effective[n][j] \notin {"missing", "cancelled"}
                                       => LiveMakeups(o) # {}
           S == {k \in Nat : k <= MaxMoves => Ends(MaxMoves - k)}
<1>1. ASSUME NEW j \in Ids, madeFor[j] = o
      PROVE  NextInLineage(j) \subseteq {k \in Ids : madeFor[k] = o}
  <2>1. Exists(j) => session[j] \in SessionRow
    BY ExistingRow
  <2>2. CASE Exists(j) /\ session[j].movedTo # None
    BY <1>1, <2>1, <2>2 DEF NextInLineage, LinksStayInFamily, SessionRow
  <2>3. CASE ~(Exists(j) /\ session[j].movedTo # None)
    <3>1. NextInLineage(j) \subseteq {k \in Ids : Exists(k) /\ session[k].movedFrom = j}
      BY <2>3 DEF NextInLineage
    <3>2. j # None
      BY NoneIsNoId
    <3> QED
      BY <1>1, <3>1, <3>2 DEF LinksStayInFamily
  <2> QED
    BY <2>2, <2>3
<1>2. ASSUME NEW n \in 0..MaxMoves, n # MaxMoves => Ends(n + 1)
      PROVE  Ends(n)
  <2> SUFFICES ASSUME NEW j \in Ids, madeFor[j] = o, Effective[n][j] \notin {"missing", "cancelled"}
               PROVE  LiveMakeups(o) # {}
    OBVIOUS
  <2>1. Effective[n][j] = IF NextInLineage(j) = {} THEN (IF Exists(j) THEN session[j].status ELSE "missing")
                          ELSE IF n = MaxMoves THEN "missing"
                          ELSE Effective[n + 1][CHOOSE k \in NextInLineage(j) : TRUE]
    BY EffectiveWalks DEF Onward
  <2>2. CASE NextInLineage(j) = {}
    <3>1. Live(j)
      BY <2>1, <2>2 DEF Exists, Live
    <3> QED
      BY <3>1 DEF LiveMakeups, Family
  <2>3. CASE NextInLineage(j) # {}
    <3>1. PICK k : k = CHOOSE x \in NextInLineage(j) : TRUE
      OBVIOUS
    <3>2. k \in Ids /\ madeFor[k] = o
      BY <1>1, <2>3, <3>1
    <3>3. n # MaxMoves /\ Effective[n + 1][k] \notin {"missing", "cancelled"}
      BY <2>1, <2>3, <3>1
    <3> QED
      BY <1>2, <3>2, <3>3
  <2> QED
    BY <2>2, <2>3
<1> HIDE DEF Ends
<1>3. 0 \in S
  BY <1>2
<1>4. ASSUME NEW k \in Nat, k \in S
      PROVE  k + 1 \in S
  <2> SUFFICES ASSUME k + 1 <= MaxMoves PROVE Ends(MaxMoves - (k + 1))
    OBVIOUS
  <2>1. MaxMoves - (k + 1) \in 0..MaxMoves /\ (MaxMoves - (k + 1)) + 1 = MaxMoves - k /\ Ends(MaxMoves - k)
    BY <1>4
  <2> QED
    BY <1>2, <2>1
<1>5. MaxMoves \in S
  <2> HIDE DEF S
  <2> QED
    BY <1>3, <1>4, SetInduction
<1>6. Ends(0)
  BY <1>5
<1> QED
  BY <1>6 DEF Ends

\* hasLiveMakeup speaks of a session made for the obligation.
LEMMA LiveMakeupIsThere ==
  ASSUME MakeupInv, NEW o \in Originals, HasLiveMakeup(o)
  PROVE  LiveMakeups(o) # {}
<1> DEFINE attempts == comp[o].attempts
           last == attempts[Len(attempts)]
<1>1. attempts \in Seq(Ids) /\ attempts # <<>>
  BY DEF HasLiveMakeup, MakeupInv, MakeupTypeInv, ObligationTypes, Obligation
<1>2. Len(attempts) \in DOMAIN attempts /\ last \in Ids
  BY <1>1
<1>3. madeFor[last] = o
  BY <1>2 DEF MakeupInv, LedgersNameMakeups
<1>4. Effective[0][last] \notin {"missing", "cancelled"}
  BY DEF HasLiveMakeup
<1> HIDE DEF last
<1> QED
  BY <1>2, <1>3, <1>4, WalkStaysInFamily DEF MakeupInv, MakeupTypeInv

-----------------------------------------------------------------------------
(* Steps that serve an obligation and write no session.                    *)

\* The locks of a worker without a session request are nobody's plan.
LEMMA LocksKeepHistory ==
  ASSUME ~HasRowLocks, HistoryInv, TypeInv', NEW p \in Requests, UNCHANGED tables,
         req[p].pc = "idle", req'[p] \in {req[p], Idle},
         \A q \in Requests \ {p} : /\ req'[q] = req[q]
                                   /\ q \in shared => q \in shared'
                                   /\ reserved = q => reserved' = q
  PROVE  HistoryInv'
<1>1. Links'
  BY DEF HistoryInv, Links, MovesLinkBothWays, LinksNameSessions, Exists, tables
<1>2. LockedToInsert'
  BY DEF LockedToInsert
<1>3. req[p].writes = {} /\ Idle.writes = {} /\ Idle.pc = "idle" /\ Idle.op = "none"
  BY DEF HistoryInv, Serving, Idle
<1>4. \A q \in Requests : req'[q].writes = req[q].writes /\ Written(q)' = Written(q)
  <2>1. \A q \in Requests : req'[q].writes = req[q].writes
    BY <1>3
  <2> QED
    BY <2>1 DEF Written
<1>5. \A q \in Requests : \A j : Fresh(q, j)' <=> Fresh(q, j)
  BY <1>4 DEF Fresh, tables
<1>6. \A w : KeepsRow(w)' <=> KeepsRow(w)
  BY DEF KeepsRow, Exists, HasAttendance, tables
<1>7. ASSUME NEW q \in Requests PROVE Serving(q)' /\ Staged(q)'
  <2>0. Serving(q) /\ Staged(q)
    BY DEF HistoryInv
  <2>1. CASE q = p
    <3>1. req[p].op # "reschedule"
      BY <1>3, <2>0, <2>1 DEF Staged, Moves
    <3>2. req'[p].pc = "idle" /\ req'[p].writes = {} /\ req'[p].op # "reschedule"
      BY <1>3, <3>1
    <3> QED
      BY <2>1, <3>2 DEF Serving, Staged
  <2>2. CASE q # p
    <3>1. req'[q] = req[q] /\ (q \in shared => q \in shared') /\ (reserved = q => reserved' = q)
      BY <2>2
    <3>2. Serving(q)'
      BY <2>0, <3>1 DEF Serving, Owns
    <3>3. Moves(q)' <=> Moves(q)
      BY <1>5, <3>1, ZenonT(60) DEF Moves, Live, Successor, Moved, Booked, tables
    <3>4. Staged(q)'
      BY <1>6, <2>0, <3>1, <3>3 DEF Staged, Owns
    <3> QED
      BY <3>2, <3>4
  <2> QED
    BY <2>1, <2>2
<1> QED
  BY <1>1, <1>2, <1>7 DEF HistoryInv

\* What a worker knows stays true while nothing it looked at changes.
LEMMA DutyStands ==
  ASSUME ~HasRowLocks, MakeupInv, NEW q \in Requests,
         duty'[q] = duty[q], req'[q] = req[q], q \in shared => q \in shared', reserved = q => reserved' = q,
         duty[q].op \in {"register", "complete"} =>
           comp'[duty[q].for].status = comp[duty[q].for].status,
         duty[q].op = "register" => Claimed' = Claimed,
         duty[q].op = "complete" => LiveMakeups(duty[q].for)' = LiveMakeups(duty[q].for),
         duty[q].op = "schedule" => Fresh(q, req[q].id)'
  PROVE  OnDuty(q)'
<1>1. OnDuty(q)
  BY DEF MakeupInv
<1>2. CASE duty[q].op = "register"
  BY <1>1, <1>2 DEF OnDuty
<1>3. CASE duty[q].op = "complete"
  BY <1>1, <1>3 DEF OnDuty
<1>4. CASE duty[q].op = "schedule"
  BY <1>1, <1>4 DEF OnDuty, WriteTo, Booked
<1>5. CASE duty[q].op \notin {"register", "complete", "schedule"}
  BY <1>5 DEF OnDuty
<1> QED
  BY <1>2, <1>3, <1>4, <1>5

\* The rest of the invariant looks at the tables only.
LEMMA TablesStand ==
  ASSUME MakeupInv, session' = session, comp' = comp, madeFor' = madeFor
  PROVE  /\ LinksStayInFamily' /\ LedgersNameMakeups' /\ MakeupCapRespected'
         /\ Claimed' = Claimed /\ \A o : LiveMakeups(o)' = LiveMakeups(o)
         /\ \A i : Exists(i)' <=> Exists(i)
  BY DEF MakeupInv, LinksStayInFamily, LedgersNameMakeups, MakeupCapRespected, Claimed, LiveMakeups, Family, Live, Exists

LEMMA FreshInTables ==
  ASSUME ~HasRowLocks, session' = session, NEW p \in Requests, NEW j, Fresh(p, j),
         req'[p].writes = req[p].writes,
         \A q \in Requests \ {p} : req'[q].writes \subseteq req[q].writes
  PROVE  Fresh(p, j)'
  BY DEF Fresh, Written

\* Reading takes SHARED, and writing RESERVED, from nobody.
LEMMA OthersKeepLocks ==
  ASSUME ~HasRowLocks, TypeInv, NEW p \in Requests, NEW r,
         \/ UNCHANGED dbVars \/ EndTx(p) \/ CommitTx(p)
         \/ PlainRead(p) \/ LockingRead(p, r) \/ WriteRow(p, r)
  PROVE  \A q \in Requests \ {p} : (q \in shared => q \in shared') /\ (reserved = q => reserved' = q)
  BY WriterKept DEF TypeInv

LEMMA ServingKeeps ==
  ASSUME ~HasRowLocks, MakeupInv, NEW p \in Requests, Register(p) \/ Complete(p)
  PROVE  MakeupInv'
<1> DEFINE op == duty'[p].op
<1>1. PICK o \in Originals :
        /\ Free(p)
        /\ \/ MayRegister(o) /\ PlainRead(p) /\ Serve(p, "register", o)
           \/ Open(o) /\ HasLiveMakeup(o) /\ LockingRead(p, CompRow(o)) /\ Serve(p, "complete", o)
  BY DEF Register, Complete
<1>2. UNCHANGED <<tables, req, comp, madeFor>>
  BY DEF Register, Complete
<1>3. MakeupTypeInv'
  BY ReadTyped DEF MakeupInv
<1>4. \A q \in Requests \ {p} : (q \in shared => q \in shared') /\ (reserved = q => reserved' = q)
  BY <1>1, OthersKeepLocks DEF MakeupInv, MakeupTypeInv
<1>5. HistoryInv'
  BY <1>1, <1>2, <1>3, <1>4, LocksKeepHistory DEF Free, MakeupInv, MakeupTypeInv
<1>6. session' = session
  BY <1>2 DEF tables
<1>7. /\ LinksStayInFamily' /\ LedgersNameMakeups' /\ MakeupCapRespected'
      /\ Claimed' = Claimed /\ \A x : LiveMakeups(x)' = LiveMakeups(x)
  BY <1>2, <1>6, TablesStand
<1>8. /\ \A q \in Requests \ {p} : duty'[q] = duty[q]
      /\ duty'[p].for = o /\ duty'[p].pc = "write" /\ duty'[p].op \in {"register", "complete"}
      /\ duty'[p].op = "register" => MayRegister(o)
      /\ duty'[p].op = "complete" => Open(o) /\ HasLiveMakeup(o)
  BY <1>1 DEF Serve, MakeupInv, MakeupTypeInv, ObligationTypes
<1>9. ASSUME NEW q \in Requests PROVE OnDuty(q)'
  <2>1. CASE q = p
    <3>1. p \in shared'
      BY <1>1, ReaderIsShared
    <3>2. req'[p].pc = "idle"
      BY <1>1, <1>2 DEF Free
    <3>3. duty'[p].op = "register" => comp'[o].status = "none" /\ Cardinality(Claimed') < Cap
      BY <1>2, <1>7, <1>8 DEF MayRegister, Claimed
    <3>4. duty'[p].op = "complete" => comp'[o].status = "open" /\ LiveMakeups(o)' # {}
      BY <1>2, <1>7, <1>8, LiveMakeupIsThere DEF Open
    <3> HIDE DEF Claimed
    <3> QED
      BY <1>8, <2>1, <3>1, <3>2, <3>3, <3>4 DEF OnDuty
  <2>2. CASE q # p
    <3>1. duty[q].op = "schedule" => Fresh(q, req[q].id)'
      BY <1>2, <1>6, FreshInTables DEF MakeupInv, OnDuty
    <3> QED
      BY <1>2, <1>4, <1>7, <1>8, <2>2, <3>1, DutyStands
  <2> QED
    BY <2>1, <2>2
<1> QED
  BY <1>3, <1>5, <1>7, <1>9 DEF MakeupInv

LEMMA SavingKeeps ==
  ASSUME ~HasRowLocks, MakeupInv, NEW p \in Requests, SaveObligation(p)
  PROVE  MakeupInv'
<1>1. /\ UNCHANGED <<tables, req, comp, madeFor>> /\ duty[p].op \in {"register", "complete"}
      /\ WriteRow(p, CompRow(duty[p].for))
  BY DEF SaveObligation
<1>2. MakeupTypeInv' /\ TypeInv
  BY SaveObligationTyped DEF MakeupInv, MakeupTypeInv
<1>3. \A q \in Requests \ {p} : (q \in shared => q \in shared') /\ (reserved = q => reserved' = q)
  BY <1>1, <1>2, OthersKeepLocks
<1>4. req[p].pc = "idle" /\ OnDuty(p)
  BY <1>1 DEF MakeupInv, OnDuty
<1>5. HistoryInv'
  BY <1>1, <1>2, <1>3, <1>4, LocksKeepHistory DEF MakeupInv, MakeupTypeInv
<1>6. session' = session
  BY <1>1 DEF tables
<1>7. /\ LinksStayInFamily' /\ LedgersNameMakeups' /\ MakeupCapRespected'
      /\ Claimed' = Claimed /\ \A x : LiveMakeups(x)' = LiveMakeups(x)
  BY <1>1, <1>6, TablesStand
<1>8. /\ \A q \in Requests \ {p} : duty'[q] = duty[q]
      /\ duty'[p].for = duty[p].for /\ duty'[p].op = duty[p].op
  BY DEF SaveObligation, MakeupInv, MakeupTypeInv, ObligationTypes, Duty
<1>o. PICK o : o = duty[p].for
  OBVIOUS
<1>9. ASSUME NEW q \in Requests PROVE OnDuty(q)'
  <2>1. CASE q = p
    <3>1. p \in shared' /\ reserved' = p
      BY <1>1, ReaderIsShared
    <3>2. duty'[p].op = "register" => comp'[o].status = "none" /\ Cardinality(Claimed') < Cap
      BY <1>1, <1>4, <1>7, <1>8, <1>o DEF OnDuty
    <3>3. duty'[p].op = "complete" => comp'[o].status = "open" /\ LiveMakeups(o)' # {}
      BY <1>1, <1>4, <1>7, <1>8, <1>o DEF OnDuty
    <3> HIDE DEF Claimed
    <3> QED
      BY <1>1, <1>4, <1>8, <1>o, <2>1, <3>1, <3>2, <3>3 DEF OnDuty
  <2>2. CASE q # p
    <3>1. duty[q].op = "schedule" => Fresh(q, req[q].id)'
      BY <1>1, <1>6, FreshInTables DEF MakeupInv, OnDuty
    <3> QED
      BY <1>1, <1>3, <1>7, <1>8, <2>2, <3>1, DutyStands
  <2> QED
    BY <2>1, <2>2
<1> QED
  BY <1>2, <1>5, <1>7, <1>9 DEF MakeupInv

\* On sqlite a writer commits alone: nobody else is on duty.
LEMMA AloneOnDuty ==
  ASSUME ~HasRowLocks, MakeupInv, NEW p \in Requests, reserved = p, CommitTx(p),
         NEW q \in Requests, q # p
  PROVE  duty[q].op \notin {"register", "complete", "schedule"}
<1>1. q \notin shared
  BY DEF CommitTx
<1> QED
  BY <1>1 DEF MakeupInv, OnDuty, HistoryInv, Serving

LEMMA DischargingKeeps ==
  ASSUME ~HasRowLocks, MakeupInv, NEW p \in Requests, CommitObligation(p)
  PROVE  MakeupInv'
<1>1. UNCHANGED <<tables, req, madeFor>> /\ CommitTx(p)
  BY DEF CommitObligation
<1>2. MakeupTypeInv' /\ TypeInv
  BY CommitObligationTyped DEF MakeupInv, MakeupTypeInv
<1>3. \A q \in Requests \ {p} : (q \in shared => q \in shared') /\ (reserved = q => reserved' = q)
  BY <1>1, <1>2, OthersKeepLocks
<1>4. req[p].pc = "idle" /\ OnDuty(p) /\ reserved = p
  BY DEF CommitObligation, MakeupInv, OnDuty
<1>5. HistoryInv'
  BY <1>1, <1>2, <1>3, <1>4, LocksKeepHistory DEF MakeupInv, MakeupTypeInv
<1>o. PICK o \in Originals : o = duty[p].for
  BY NoDutyTyped DEF CommitObligation, MakeupInv, MakeupTypeInv, ObligationTypes, DutyNamed
<1>6. /\ \A x \in Originals \ {o} : comp'[x] = comp[x]
      /\ comp'[o].attempts = comp[o].attempts
      /\ comp'[o].status = IF duty[p].op = "register" THEN "open" ELSE "completed"
  BY <1>o DEF CommitObligation, MakeupInv, MakeupTypeInv, ObligationTypes, Obligation
<1>7. LinksStayInFamily'
  BY <1>1 DEF MakeupInv, LinksStayInFamily, Exists, tables
<1>8. LedgersNameMakeups'
  BY <1>1, <1>6 DEF MakeupInv, LedgersNameMakeups, tables
<1>9. MakeupCapRespected'
  <2>1. CASE duty[p].op = "complete"
    <3>1. comp[o].status = "open"
      BY <1>4, <1>o, <2>1 DEF OnDuty
    <3>2. {x \in Originals : comp'[x].status # "none"} = {x \in Originals : comp[x].status # "none"}
      BY <1>6, <2>1, <3>1
    <3> QED
      BY <3>2 DEF MakeupInv, MakeupCapRespected
  <2>2. CASE duty[p].op = "register"
    <3>1. Cardinality(Claimed) < Cap
      BY <1>4, <2>2 DEF OnDuty
    <3>2. Claimed' = Claimed \cup {o}
      BY <1>6, <2>2 DEF Claimed
    <3>3. IsFiniteSet(Claimed) /\ Cardinality(Claimed) \in Nat
      <4>1. IsFiniteSet(Originals) /\ Claimed \in SUBSET Originals
        BY MakeupAssumption DEF MakeupAssumption, Claimed
      <4>2. IsFiniteSet(Claimed)
        BY <4>1, FS_Subset
      <4> QED
        BY <4>2, FS_CardinalityType
    <3>4. Cardinality(Claimed \cup {o}) = IF o \in Claimed THEN Cardinality(Claimed) ELSE Cardinality(Claimed) + 1
      BY <3>3, FS_AddElement
    <3>5. Cardinality(Claimed \cup {o}) <= Cap
      BY <3>1, <3>3, <3>4, MakeupAssumption DEF MakeupAssumption
    <3>6. Cardinality(Claimed') <= Cap
      BY <3>2, <3>5
    <3> QED
      BY <3>6 DEF MakeupCapRespected, Claimed
  <2> QED
    BY <2>1, <2>2 DEF CommitObligation
<1>10. ASSUME NEW q \in Requests PROVE OnDuty(q)'
  <2>1. duty' = [duty EXCEPT ![p] = NoDuty] /\ duty \in [Requests -> Duty]
    BY DEF CommitObligation, MakeupInv, MakeupTypeInv, ObligationTypes
  <2>2. duty'[q].op \notin {"register", "complete", "schedule"}
    BY <1>1, <1>4, <2>1, AloneOnDuty, NoDutyTyped
  <2> QED
    BY <2>2 DEF OnDuty
<1> QED
  BY <1>2, <1>5, <1>7, <1>8, <1>9, <1>10 DEF MakeupInv

LEMMA FreshOnDuty ==
  ASSUME MakeupInv, TypeInv', NEW p \in Requests, NEW q \in Requests, q # p, StepOf(p),
         req'[q] = req[q], duty[q].op = "schedule"
  PROVE  Fresh(q, req[q].id)'
<1>1. PICK j : j = req[q].id
  OBVIOUS
<1>2. Fresh(q, j) /\ HistoryInv
  BY <1>1 DEF MakeupInv, OnDuty
<1>3. Fresh(q, j)'
  BY <1>2, FreshStays
<1> QED
  BY <1>1, <1>3 DEF Fresh, Written

LEMMA BookingKeeps ==
  ASSUME ~HasRowLocks, MakeupInv, NEW p \in Requests, Schedule(p)
  PROVE  MakeupInv'
<1>1. PICK o \in Originals, i \in ManualIds, c \in Classes, slot \in Bookings :
        /\ Free(p) /\ Unused(i) /\ ClassExists(c) /\ Bookable(None, c, slot)
        /\ PlainRead(p)
        /\ Begin(p, "create", i, c, {WriteTo(i, Booked(c, slot, "scheduled", "manual", None))})
        /\ Serve(p, "schedule", o)
  BY DEF Schedule, LockingRead
<1>2. Create(p)
  BY <1>1 DEF Create
<1>3. StepOf(p) /\ TypeInv
  BY <1>2 DEF StepOf, Asks, Books, MakeupInv, MakeupTypeInv
<1>4. MakeupTypeInv' /\ HistoryInv'
  BY <1>3, ScheduleTyped, StepHistoryInv DEF MakeupInv
<1>5. UNCHANGED tables /\ comp' = comp /\ madeFor' = madeFor /\ session' = session
  BY <1>1 DEF Begin, Start, Schedule, tables
<1>6. /\ LinksStayInFamily' /\ LedgersNameMakeups' /\ MakeupCapRespected'
      /\ Claimed' = Claimed /\ \A x : LiveMakeups(x)' = LiveMakeups(x)
  BY <1>5, TablesStand
<1>7. /\ \A q \in Requests \ {p} : req'[q] = req[q] /\ duty'[q] = duty[q]
      /\ duty'[p].op = "schedule" /\ req'[p].pc = "write" /\ req'[p].id = i
      /\ req'[p].writes = {WriteTo(i, Booked(c, slot, "scheduled", "manual", None))}
  BY <1>1, <1>3, BeginShape DEF Serve, MakeupInv, MakeupTypeInv, ObligationTypes
<1>8. Fresh(p, i)'
  <2>1. i \in Written(p)'
    BY <1>7 DEF Written, WriteTo
  <2> QED
    BY <1>1, <1>5, <1>7, <2>1, NewIsFresh DEF MakeupInv
<1>9. ASSUME NEW q \in Requests PROVE OnDuty(q)'
  <2>1. CASE q = p
    <3>1. \E d \in Classes, at \in Bookings :
            req'[p].writes = {WriteTo(i, Booked(d, at, "scheduled", "manual", None))}
      BY <1>7
    <3> QED
      BY <1>7, <1>8, <2>1, <3>1 DEF OnDuty, WriteTo, Booked
  <2>2. CASE q # p
    <3>1. duty[q].op = "schedule" => Fresh(q, req[q].id)'
      BY <1>3, <1>4, <1>7, <2>2, FreshOnDuty DEF MakeupTypeInv
    <3>2. (q \in shared => q \in shared') /\ (reserved = q => reserved' = q)
      BY <1>1, <1>3, <2>2, OthersKeepLocks
    <3> QED
      BY <1>5, <1>6, <1>7, <2>2, <3>1, <3>2, DutyStands
  <2> QED
    BY <2>1, <2>2
<1> QED
  BY <1>4, <1>6, <1>9 DEF MakeupInv

LEMMA SavingMakeupKeeps ==
  ASSUME ~HasRowLocks, MakeupInv, NEW p \in Requests, SaveMakeup(p)
  PROVE  MakeupInv'
<1>1. Save(p) /\ duty' = duty /\ comp' = comp /\ madeFor' = madeFor /\ duty[p].op = "schedule"
  BY DEF SaveMakeup, Doing
<1>2. StepOf(p) /\ TypeInv
  BY <1>1 DEF StepOf, Continue, MakeupInv, MakeupTypeInv
<1>3. MakeupTypeInv' /\ HistoryInv'
  BY <1>2, SaveMakeupTyped, StepHistoryInv DEF MakeupInv
<1>4. session' = session
  BY <1>1 DEF Save, tables
<1>5. /\ LinksStayInFamily' /\ LedgersNameMakeups' /\ MakeupCapRespected'
      /\ Claimed' = Claimed /\ \A x : LiveMakeups(x)' = LiveMakeups(x)
  BY <1>1, <1>4, TablesStand
<1>6. /\ \A q \in Requests \ {p} : req'[q] = req[q]
      /\ req'[p].pc = "commit" /\ req'[p].id = req[p].id /\ req'[p].writes = req[p].writes
  BY <1>1, <1>2 DEF Save, TypeInv, Request
<1>7. ASSUME NEW q \in Requests PROVE OnDuty(q)'
  <2>1. duty[q].op = "schedule" => Fresh(q, req[q].id)'
    BY <1>4, <1>6, FreshInTables DEF MakeupInv, OnDuty
  <2>2. CASE q = p
    <3>1. OnDuty(p)
      BY DEF MakeupInv
    <3> QED
      BY <1>1, <1>6, <2>1, <2>2, <3>1 DEF OnDuty, WriteTo, Booked
  <2>3. CASE q # p
    <3>1. (q \in shared => q \in shared') /\ (reserved = q => reserved' = q)
      BY <1>1, <1>2, <2>3, OthersKeepLocks DEF Save
    <3> QED
      BY <1>1, <1>5, <1>6, <2>1, <2>3, <3>1, DutyStands
  <2> QED
    BY <2>2, <2>3
<1> QED
  BY <1>3, <1>5, <1>7 DEF MakeupInv

\* The session and its line in the ledger appear together, made for the obligation.
LEMMA BookedKeeps ==
  ASSUME ~HasRowLocks, MakeupInv, NEW p \in Requests, CommitMakeup(p)
  PROVE  MakeupInv'
<1>1. Commit(p) /\ duty[p].op = "schedule" /\ OnDuty(p)
  BY DEF CommitMakeup, Doing, MakeupInv
<1>2. StepOf(p) /\ TypeInv /\ req[p].op = "create" /\ req[p].pc = "commit"
  BY <1>1 DEF StepOf, Continue, MakeupInv, MakeupTypeInv, ObligationTypes, DutyNamed, Commit
<1>3. MakeupTypeInv' /\ HistoryInv'
  BY <1>2, CommitMakeupTyped, StepHistoryInv DEF MakeupInv
<1>4. reserved = p /\ CommitTx(p)
  BY <1>1, <1>2 DEF MakeupInv, HistoryInv, Serving, Commit
<1>5. PICK i \in Ids, o \in Originals : i = req[p].id /\ o = duty[p].for
  BY <1>1, <1>2, NoDutyTyped DEF MakeupInv, MakeupTypeInv, ObligationTypes, DutyNamed, TypeInv, Named
<1>6. PICK c \in Classes, slot \in Bookings :
        req[p].writes = {WriteTo(i, Booked(c, slot, "scheduled", "manual", None))}
  BY <1>1, <1>5 DEF OnDuty
<1>7. session[i] = Unborn
  BY <1>1, <1>5 DEF OnDuty, Fresh
<1>8. /\ session'[i].movedFrom = None /\ session'[i].movedTo = None /\ session'[i] # Unborn
      /\ \A j \in Ids \ {i} : session'[j] = session[j]
  <2> DEFINE row == Booked(c, slot, "scheduled", "manual", None)
  <2>1. row.movedFrom = None /\ row.movedTo = None /\ row # Unborn
    BY DEF Booked, Unborn
  <2>2. Written(p) = {i} /\ \A w \in req[p].writes : w.row = row
    BY <1>6 DEF Written, WriteTo
  <2> HIDE DEF row
  <2> QED
    BY <1>1, <2>1, <2>2, CommittedRow
<1>9. /\ madeFor'[i] = o /\ \A j \in Ids \ {i} : madeFor'[j] = madeFor[j]
      /\ \A x \in Originals \ {o} : comp'[x] = comp[x]
      /\ comp'[o].status = comp[o].status
      /\ comp'[o].attempts = Append(comp[o].attempts, i)
  BY <1>5 DEF CommitMakeup, MakeupInv, MakeupTypeInv, ObligationTypes, Obligation
<1>10. LinksStayInFamily'
  <2> SUFFICES ASSUME NEW j \in Ids, Exists(j)'
               PROVE  /\ session'[j].movedTo # None => madeFor'[session'[j].movedTo] = madeFor'[j]
                      /\ session'[j].movedFrom # None => madeFor'[j] = madeFor'[session'[j].movedFrom]
    BY DEF LinksStayInFamily
  <2>1. CASE j = i
    BY <1>8, <2>1
  <2>2. CASE j # i
    <3>1. Exists(j) /\ session'[j] = session[j] /\ session[j] \in SessionRow
      BY <1>2, <1>8, <2>2, ExistingRow DEF Exists
    <3>2. /\ session[j].movedTo # None => session[j].movedTo \in Ids \ {i}
          /\ session[j].movedFrom # None => session[j].movedFrom \in Ids \ {i}
      BY <1>7, <3>1, IdsAreRows DEF MakeupInv, HistoryInv, Links, LinksNameSessions, SessionRow
    <3> QED
      BY <1>9, <2>2, <3>1, <3>2 DEF MakeupInv, LinksStayInFamily
  <2> QED
    BY <2>1, <2>2
<1>11. LedgersNameMakeups'
  <2>1. \A x \in Originals : comp[x].attempts \in Seq(Ids)
    BY DEF MakeupInv, MakeupTypeInv, ObligationTypes, Obligation
  <2> SUFFICES ASSUME NEW x \in Originals, NEW n \in DOMAIN comp'[x].attempts
               PROVE  session'[comp'[x].attempts[n]] # Unborn /\ madeFor'[comp'[x].attempts[n]] = x
    BY DEF LedgersNameMakeups
  <2>2. ASSUME NEW m \in DOMAIN comp[x].attempts
        PROVE  session'[comp[x].attempts[m]] # Unborn /\ madeFor'[comp[x].attempts[m]] = x
    <3>1. comp[x].attempts[m] \in Ids
      BY <2>1, ElementOfSeq
    <3>2. session[comp[x].attempts[m]] # Unborn /\ madeFor[comp[x].attempts[m]] = x
      BY DEF MakeupInv, LedgersNameMakeups
    <3> QED
      BY <1>7, <1>8, <1>9, <3>1, <3>2
  <2>3. CASE x # o
    BY <1>9, <2>2, <2>3
  <2>4. CASE x = o
    <3>1. n \in 1..(Len(comp[o].attempts) + 1) /\ DOMAIN comp[o].attempts = 1..Len(comp[o].attempts)
          /\ Len(comp[o].attempts) \in Nat
      BY <1>9, <2>1, <2>4, AppendProperties, LenProperties
    <3>2. CASE n = Len(comp[o].attempts) + 1
      <4>1. comp'[o].attempts[n] = i
        BY <1>9, <2>1, <3>2, AppendProperties
      <4> QED
        BY <1>8, <1>9, <2>4, <4>1
    <3>3. CASE n # Len(comp[o].attempts) + 1
      <4>1. n \in DOMAIN comp[o].attempts
        BY <3>1, <3>3
      <4>2. comp'[o].attempts[n] = comp[o].attempts[n]
        BY <1>9, <2>1, <3>1, <4>1, AppendProperties
      <4> QED
        BY <2>2, <2>4, <4>1, <4>2
    <3> QED
      BY <3>2, <3>3
  <2> QED
    BY <2>3, <2>4
<1>12. MakeupCapRespected'
  <2>1. {x \in Originals : comp'[x].status # "none"} = {x \in Originals : comp[x].status # "none"}
    BY <1>9
  <2> QED
    BY <2>1 DEF MakeupInv, MakeupCapRespected
<1>13. ASSUME NEW q \in Requests PROVE OnDuty(q)'
  <2>1. duty' = [duty EXCEPT ![p] = NoDuty] /\ duty \in [Requests -> Duty]
    BY DEF CommitMakeup, MakeupInv, MakeupTypeInv, ObligationTypes
  <2>2. duty'[q].op \notin {"register", "complete", "schedule"}
    BY <1>4, <2>1, AloneOnDuty, NoDutyTyped
  <2> QED
    BY <2>2 DEF OnDuty
<1> QED
  BY <1>3, <1>10, <1>11, <1>12, <1>13 DEF MakeupInv

LEMMA FailingKeeps ==
  ASSUME ~HasRowLocks, MakeupInv, NEW p \in Requests, FailDuty(p)
  PROVE  MakeupInv'
<1>1. /\ RollBack(p) /\ duty' = [duty EXCEPT ![p] = NoDuty] /\ comp' = comp /\ madeFor' = madeFor
      /\ EndTx(p) /\ UNCHANGED tables /\ session' = session
  BY DEF FailDuty, RollBack, tables
<1>2. MakeupTypeInv' /\ TypeInv
  BY FailDutyTyped DEF MakeupInv, MakeupTypeInv
<1>3. req'[p] = Idle /\ \A q \in Requests \ {p} : req'[q] = req[q]
  BY <1>1, <1>2 DEF RollBack, TypeInv
<1>4. \A q \in Requests \ {p} : (q \in shared => q \in shared') /\ (reserved = q => reserved' = q)
  BY <1>1, <1>2, OthersKeepLocks
<1>5. HistoryInv'
  <2>1. CASE req[p].pc = "idle"
    BY <1>1, <1>2, <1>3, <1>4, <2>1, LocksKeepHistory DEF MakeupInv, MakeupTypeInv
  <2>2. CASE req[p].pc # "idle"
    <3>1. StepOf(p)
      BY <1>1, <2>2 DEF StepOf, Continue, Fail
    <3> QED
      BY <3>1, StepHistoryInv DEF MakeupInv
  <2> QED
    BY <2>1, <2>2
<1>6. /\ LinksStayInFamily' /\ LedgersNameMakeups' /\ MakeupCapRespected'
      /\ Claimed' = Claimed /\ \A x : LiveMakeups(x)' = LiveMakeups(x)
  BY <1>1, TablesStand
<1>7. duty'[p] = NoDuty /\ \A q \in Requests \ {p} : duty'[q] = duty[q]
  BY <1>1 DEF MakeupInv, MakeupTypeInv, ObligationTypes
<1>8. ASSUME NEW q \in Requests PROVE OnDuty(q)'
  <2>1. CASE q = p
    BY <1>7, <2>1, NoDutyTyped DEF OnDuty
  <2>2. CASE q # p
    <3>1. Idle.writes = {}
      BY DEF Idle
    <3>2. \A r \in Requests \ {q} : req'[r].writes \subseteq req[r].writes
      BY <1>3, <3>1
    <3>3. duty[q].op = "schedule" => Fresh(q, req[q].id)'
      <4>1. PICK j : j = req[q].id
        OBVIOUS
      <4>2. duty[q].op = "schedule" => Fresh(q, j)'
        BY <1>1, <1>3, <2>2, <3>2, <4>1, FreshInTables DEF MakeupInv, OnDuty
      <4> QED
        BY <1>3, <2>2, <4>1, <4>2
    <3> QED
      BY <1>1, <1>3, <1>4, <1>6, <1>7, <2>2, <3>3, DutyStands
  <2> QED
    BY <2>1, <2>2
<1> QED
  BY <1>2, <1>5, <1>6, <1>8 DEF MakeupInv

\* No row gets or loses a link, and a new one has none.
KeepsLinks ==
  \A i \in Ids : Exists(i)' =>
    \/ /\ Exists(i)
       /\ session'[i].movedFrom = session[i].movedFrom
       /\ session'[i].movedTo = session[i].movedTo
       /\ session'[i].status \in {session[i].status, "cancelled"}
    \/ /\ session'[i].movedFrom = None /\ session'[i].movedTo = None
       /\ i \in ManualIds => session[i] = Unborn

\* i was moved, and j is its one successor, made for the same obligation.
MovedOn(i, j) ==
  /\ i \in Ids /\ j \in Ids /\ i # j /\ j \in ManualIds
  /\ Live(i) /\ session[j] = Unborn /\ Exists(j)' /\ Exists(i)' /\ ~Live(i)'
  /\ session'[j].movedFrom = i /\ session'[j].movedTo = None
  /\ session'[i].movedFrom = session[i].movedFrom /\ session'[i].movedTo = j
  /\ \A k \in Ids \ {i, j} : session'[k] = session[k]
  /\ madeFor'[j] = madeFor[i]
  /\ \A k \in Ids \ {j} : madeFor'[k] = madeFor[k]

\* What scheduling writes while it serves no obligation.
LEMMA ElsewhereWrites ==
  ASSUME MakeupInv, NEW p \in Requests, Elsewhere(p)
  PROVE  \/ KeepsLinks /\ madeFor' = madeFor
         \/ \E i, j : MovedOn(i, j)
<1>1. StepOf(p)
  BY StepsOfNext DEF Elsewhere
<1>2. madeFor' = [i \in Ids |->
         IF ~Exists(i) /\ Exists(i)' /\ session'[i].movedFrom \in Ids
         THEN madeFor[session'[i].movedFrom] ELSE madeFor[i]]
  BY DEF Elsewhere
<1>t. TypeInv /\ Links /\ Staged(p)
  BY DEF MakeupInv, MakeupTypeInv, HistoryInv
<1>3. ASSUME KeepsLinks PROVE madeFor' = madeFor
  <2>1. \A i \in Ids : ~(~Exists(i) /\ Exists(i)' /\ session'[i].movedFrom \in Ids)
    BY <1>3, NoneIsNoId DEF KeepsLinks
  <2>2. madeFor' = [i \in Ids |-> madeFor[i]]
    BY <1>2, <2>1
  <2> QED
    BY <2>2 DEF MakeupInv, MakeupTypeInv, ObligationTypes
<1>4. CASE \A i \in Ids : session'[i] = session[i] \/ session'[i] = Deleted
  <2>1. \A i \in Ids : Exists(i)' => Exists(i) /\ session'[i] = session[i]
    BY <1>4 DEF Exists, Deleted
  <2>2. KeepsLinks
    BY <2>1 DEF KeepsLinks
  <2> QED
    BY <1>3, <2>2
<1>5. CASE Commit(p) /\ req[p].op # "reschedule"
  <2>1. KeepsLinks
    BY <1>5, <1>t, CommitKeepsLinks DEF KeepsLinks
  <2> QED
    BY <1>3, <2>1
<1>6. CASE Commit(p) /\ req[p].op = "reschedule"
  <2>1. PICK i \in Ids, j \in ManualIds, slot \in Bookings :
          /\ i # j /\ session[j] = Unborn /\ Live(i) /\ j \in Ids
          /\ session' = [k \in Ids |-> IF k = j THEN Successor(i, slot)
                                       ELSE IF k = i THEN Moved(i, j) ELSE session[k]]
    BY <1>6, <1>t, CommitMoves
  <2>2. Exists(i) /\ ~Exists(j) /\ session[i] \in SessionRow
    BY <1>t, <2>1, ExistingRow DEF Live, Exists, Unborn
  <2>3. /\ session'[j].movedFrom = i /\ session'[j].movedTo = None /\ Exists(j)'
        /\ session'[i].movedFrom = session[i].movedFrom /\ session'[i].movedTo = j
        /\ Exists(i)' /\ ~Live(i)'
        /\ \A k \in Ids \ {i, j} : session'[k] = session[k]
    BY <2>1, <2>2 DEF Successor, Moved, Booked, Exists, Live, SessionRow
  <2>4. madeFor'[j] = madeFor[i]
    BY <1>2, <2>1, <2>2, <2>3
  <2>5. \A k \in Ids \ {j} : madeFor'[k] = madeFor[k]
    <3> SUFFICES ASSUME NEW k \in Ids \ {j} PROVE madeFor'[k] = madeFor[k]
      OBVIOUS
    <3>1. ~(~Exists(k) /\ Exists(k)')
      BY <2>2, <2>3 DEF Exists
    <3> QED
      BY <1>2, <3>1
  <2>6. MovedOn(i, j)
    BY <2>1, <2>3, <2>4, <2>5 DEF MovedOn
  <2> QED
    BY <2>6
<1> QED
  BY <1>1, <1>t, <1>4, <1>5, <1>6, OnlyCommitsWrite DEF tables, EditClass, DeleteStudent, DeleteClass

\* So who is born with an origin joins its family.
LEMMA ElsewhereKeepsFamily ==
  ASSUME MakeupInv, MakeupTypeInv', NEW p \in Requests, Elsewhere(p)
  PROVE  LinksStayInFamily' /\ LedgersNameMakeups'
<1>1. StepOf(p) /\ comp' = comp
  BY StepsOfNext DEF Elsewhere
<1>t. TypeInv /\ Links /\ LinksStayInFamily /\ LedgersNameMakeups
  BY DEF MakeupInv, MakeupTypeInv, HistoryInv
<1>b. \A i \in Ids : session[i] # Unborn => session'[i] # Unborn
  BY <1>1, <1>t, BornStays
<1>a. \A o \in Originals : \A n \in DOMAIN comp[o].attempts : comp[o].attempts[n] \in Ids
  <2> SUFFICES ASSUME NEW o \in Originals, NEW n \in DOMAIN comp[o].attempts PROVE comp[o].attempts[n] \in Ids
    OBVIOUS
  <2>1. comp[o].attempts \in Seq(Ids)
    BY DEF MakeupInv, MakeupTypeInv, ObligationTypes, Obligation
  <2> QED
    BY <2>1, ElementOfSeq
<1>3. CASE KeepsLinks /\ madeFor' = madeFor
  <2>1. LinksStayInFamily'
    BY <1>3, <1>t DEF LinksStayInFamily, KeepsLinks
  <2>2. LedgersNameMakeups'
    BY <1>1, <1>3, <1>t, <1>a, <1>b DEF LedgersNameMakeups
  <2> QED
    BY <2>1, <2>2
<1>4. CASE \E i, j : MovedOn(i, j)
  <2>1. PICK i, j : MovedOn(i, j)
    BY <1>4
  <2>2. Exists(i) /\ ~Exists(j) /\ session[i] \in SessionRow /\ i \in Ids /\ j \in Ids
    BY <1>t, <2>1, ExistingRow DEF MovedOn, Live, Exists, Unborn
  <2>3. \A k \in Ids \ {j} : madeFor'[k] = madeFor[k]
    BY <2>1 DEF MovedOn
  <2>4. \A k \in Ids : Exists(k) =>
          /\ session[k].movedTo # None => session[k].movedTo \in Ids \ {j}
          /\ session[k].movedFrom # None => session[k].movedFrom \in Ids \ {j}
    BY <1>t, <2>1, ExistingRow, IdsAreRows DEF Links, LinksNameSessions, SessionRow, MovedOn
  <2>5. LinksStayInFamily'
    <3> SUFFICES ASSUME NEW k \in Ids, Exists(k)'
                 PROVE  /\ session'[k].movedTo # None => madeFor'[session'[k].movedTo] = madeFor'[k]
                        /\ session'[k].movedFrom # None => madeFor'[k] = madeFor'[session'[k].movedFrom]
      BY DEF LinksStayInFamily
    <3>1. CASE k = j
      BY <2>1, <2>3, <3>1 DEF MovedOn
    <3>2. CASE k = i
      <4>1. session[i].movedFrom # None => madeFor'[session[i].movedFrom] = madeFor[i]
        BY <1>t, <2>2, <2>3, <2>4 DEF LinksStayInFamily
      <4> QED
        BY <2>1, <2>3, <3>2, <4>1 DEF MovedOn
    <3>3. CASE k # i /\ k # j
      <4>1. Exists(k) /\ session'[k] = session[k]
        BY <2>1, <3>3 DEF Exists, MovedOn
      <4> QED
        BY <1>t, <2>3, <2>4, <3>3, <4>1 DEF LinksStayInFamily
    <3> QED
      BY <3>1, <3>2, <3>3
  <2>6. LedgersNameMakeups'
    <3>1. session[j] = Unborn
      BY <2>1 DEF MovedOn
    <3> QED
      BY <1>1, <1>t, <1>a, <1>b, <2>3, <3>1 DEF LedgersNameMakeups
  <2> QED
    BY <2>5, <2>6
<1> QED
  BY <1>3, <1>4, ElsewhereWrites

\* While somebody is on duty scheduling writes no session, so nothing that a
\* worker on duty looked at changes.
LEMMA ElsewhereKeeps ==
  ASSUME ~HasRowLocks, MakeupInv, NEW p \in Requests, Elsewhere(p)
  PROVE  MakeupInv'
<1>1. /\ StepOf(p) /\ duty[p] = NoDuty /\ comp' = comp /\ duty' = duty
      /\ TypeInv /\ HistoryInv
  BY StepsOfNext DEF Elsewhere, MakeupInv, MakeupTypeInv
<1>2. MakeupTypeInv' /\ TypeInv' /\ HistoryInv'
  BY <1>1, ElsewhereTyped, StepHistoryInv DEF MakeupInv, MakeupTypeInv
<1>3. LinksStayInFamily' /\ LedgersNameMakeups'
  BY <1>2, ElsewhereKeepsFamily
<1>4. MakeupCapRespected' /\ Claimed' = Claimed
  BY <1>1 DEF MakeupInv, MakeupCapRespected, Claimed
<1>5. \A q \in Requests \ {p} :
        req'[q] = req[q] /\ (q \in shared => q \in shared') /\ (reserved = q => reserved' = q)
  BY <1>1, OnlyOneMoves, OthersKeepLocks, StepUsesDatabase
<1>6. ASSUME NEW q \in Requests PROVE OnDuty(q)'
  <2>1. CASE duty[q].op \notin {"register", "complete", "schedule"}
    BY <1>1, <2>1 DEF OnDuty
  <2>2. CASE duty[q].op \in {"register", "complete", "schedule"}
    <3>1. q # p
      BY <1>1, <2>2, NoDutyTyped
    <3>2. q \in shared
      BY <1>1, <2>2 DEF MakeupInv, OnDuty, HistoryInv, Serving
    <3>3. session' = session
      BY <1>1, <3>1, <3>2, SharedBlocksWriters DEF tables
    <3>4. madeFor' = madeFor
      <4>1. \A i \in Ids : ~(~Exists(i) /\ Exists(i)')
        BY <3>3 DEF Exists
      <4>2. madeFor' = [i \in Ids |-> madeFor[i]]
        BY <4>1 DEF Elsewhere
      <4> QED
        BY <4>2 DEF MakeupInv, MakeupTypeInv, ObligationTypes
    <3>5. \A x : LiveMakeups(x)' = LiveMakeups(x)
      BY <1>1, <3>3, <3>4, TablesStand
    <3>6. duty[q].op = "schedule" => Fresh(q, req[q].id)'
      BY <1>1, <1>2, <1>5, <3>1, FreshOnDuty
    <3> QED
      BY <1>1, <1>4, <1>5, <3>1, <3>5, <3>6, DutyStands
  <2> QED
    BY <2>1, <2>2
<1> QED
  BY <1>2, <1>3, <1>4, <1>6 DEF MakeupInv

LEMMA MakeupStarts ==
  ASSUME ~HasRowLocks, MakeupInit
  PROVE  MakeupInv
<1>1. MakeupTypeInv /\ TypeInv
  BY MakeupStartsTyped DEF MakeupTypeInv
<1>2. PICK c \in Classes, slot \in Bookings :
        session = [i \in Ids |->
          IF i \in Originals THEN Booked(c, slot, "cancelled", "manual", None) ELSE Unborn]
  BY DEF MakeupInit
<1>3. \A i \in Ids : Exists(i) => session[i].movedFrom = None /\ session[i].movedTo = None
  BY <1>2 DEF Exists, Booked, Unborn
<1>4. Links
  BY <1>1, <1>3, NoneIsNoId, IdsAreRows DEF Links, MovesLinkBothWays, LinksNameSessions
<1>5. LockedToInsert
  BY DEF LockedToInsert
<1>6. \A p \in Requests : Serving(p) /\ Staged(p)
  BY DEF MakeupInit, Idle, Serving, Staged
<1>7. LinksStayInFamily
  BY <1>3 DEF LinksStayInFamily
<1>8. LedgersNameMakeups
  <2>1. \A o \in Originals : comp[o].attempts = <<>> /\ comp[o].status = "none"
    BY DEF MakeupInit
  <2> QED
    BY <2>1 DEF LedgersNameMakeups
<1>9. MakeupCapRespected
  <2>1. {o \in Originals : comp[o].status # "none"} = {}
    BY DEF MakeupInit
  <2>2. Cardinality({}) = 0
    BY FS_EmptySet
  <2>3. Cardinality({o \in Originals : comp[o].status # "none"}) = 0
    BY <2>1, <2>2
  <2> QED
    BY <2>3, MakeupAssumption DEF MakeupAssumption, MakeupCapRespected
<1>10. \A p \in Requests : OnDuty(p)
  BY DEF MakeupInit, OnDuty, NoDuty
<1> QED
  BY <1>1, <1>4, <1>5, <1>6, <1>7, <1>8, <1>9, <1>10 DEF MakeupInv, HistoryInv

LEMMA MakeupKeeps ==
  ASSUME ~HasRowLocks, MakeupInv, [MakeupNext]_makeupVars
  PROVE  MakeupInv'
<1>1. ASSUME UNCHANGED makeupVars PROVE MakeupInv'
  <2>1. /\ UNCHANGED vars /\ comp' = comp /\ duty' = duty /\ madeFor' = madeFor
        /\ session' = session /\ req' = req /\ shared' = shared /\ reserved' = reserved
    BY <1>1 DEF makeupVars, vars, tables, dbVars
  <2>2. MakeupTypeInv' /\ HistoryInv'
    BY <1>1, <2>1, MakeupTyped, NextHistoryInv DEF MakeupInv
  <2>3. /\ LinksStayInFamily' /\ LedgersNameMakeups' /\ MakeupCapRespected'
        /\ Claimed' = Claimed /\ \A x : LiveMakeups(x)' = LiveMakeups(x)
    BY <2>1, TablesStand
  <2>4. ASSUME NEW q \in Requests PROVE OnDuty(q)'
    <3>1. duty[q].op = "schedule" => Fresh(q, req[q].id)'
      BY <2>1, FreshInTables DEF MakeupInv, OnDuty
    <3> QED
      BY <2>1, <2>3, <3>1, DutyStands
  <2> QED
    BY <2>2, <2>3, <2>4 DEF MakeupInv
<1> QED
  BY <1>1, ServingKeeps, BookingKeeps, SavingKeeps, DischargingKeeps, SavingMakeupKeeps, BookedKeeps,
     FailingKeeps, ElsewhereKeeps DEF MakeupNext

\* COMPENSATION_MAKEUP_CAP_REACHED (CompensationService::assertWithinMakeupCap):
\* the cap is counted before the obligation is inserted, yet without row locks
\* no two registrations that both found room are both committed.
THEOREM MakeupsRespectTheCap == ASSUME ~HasRowLocks PROVE MakeupSpec => []MakeupCapRespected
<1>1. MakeupInit => MakeupInv
  BY MakeupStarts
<1>2. MakeupInv /\ [MakeupNext]_makeupVars => MakeupInv'
  BY MakeupKeeps
<1>3. MakeupInv => MakeupCapRespected
  BY DEF MakeupInv
<1> QED
  BY <1>1, <1>2, <1>3, PTL DEF MakeupSpec

\* "`complete` refuses to discharge one that is not live"
\* (CompensationService::complete): without row locks the make-up it found by
\* walking the links, however often it was moved, still takes place when the
\* discharge is committed.
THEOREM MakeupsDischargedWhileLive == ASSUME ~HasRowLocks PROVE MakeupSpec => DischargedWhileLive
<1>1. MakeupInit => MakeupInv
  BY MakeupStarts
<1>2. MakeupInv /\ [MakeupNext]_makeupVars => MakeupInv'
  BY MakeupKeeps
<1>3. ASSUME MakeupInv, [MakeupNext]_makeupVars, NEW o \in Originals,
             comp[o].status = "open", comp'[o].status = "completed"
      PROVE  LiveMakeups(o) # {}
  <2>1. comp \in [Originals -> Obligation]
    BY <1>3 DEF MakeupInv, MakeupTypeInv, ObligationTypes
  <2>2. PICK p \in Requests :
          \/ CommitObligation(p)
          \/ CommitMakeup(p) /\ comp' = [comp EXCEPT ![duty[p].for].attempts = Append(@, req[p].id)]
    BY <1>3, ZenonT(60) DEF MakeupNext, makeupVars, Register, Schedule, Complete, SaveObligation, SaveMakeup,
                CommitMakeup, FailDuty, Elsewhere
  <2>3. CASE CommitMakeup(p) /\ comp' = [comp EXCEPT ![duty[p].for].attempts = Append(@, req[p].id)]
    <3>1. comp'[o].status = comp[o].status
      BY <2>1, <2>3 DEF Obligation
    <3> QED
      BY <1>3, <3>1
  <2>4. CASE CommitObligation(p)
    <3>1. duty[p].for = o /\ duty[p].op = "complete"
      BY <1>3, <2>1, <2>4 DEF CommitObligation, Obligation
    <3> QED
      BY <1>3, <3>1 DEF MakeupInv, OnDuty
  <2> QED
    BY <2>2, <2>3, <2>4
<1>4. MakeupInv /\ [MakeupNext]_makeupVars =>
        \A o \in Originals :
          comp[o].status = "open" /\ comp'[o].status = "completed" => LiveMakeups(o) # {}
  BY <1>3
<1> QED
  BY <1>1, <1>2, <1>4, PTL DEF MakeupSpec, DischargedWhileLive

-----------------------------------------------------------------------------
(***************************************************************************)
(* At most one live make-up.  What lineageOf derives is one walk; what the *)
(* property counts is every session ever made for the obligation.  The     *)
(* invariant ties them: from the last line of the ledger a path of the     *)
(* family's own links, none visited twice, leads to whatever takes place.  *)
(* A booking starts a path, a move appends to the one that ends at the     *)
(* moved session, and a deleted row is bridged by the one that names it as *)
(* long as not both ends are gone.  The path is no longer than the family, *)
(* so a walk of MaxMoves moves arrives, and finds that there is a make-up  *)
(* before another is booked.                                               *)
(***************************************************************************)

\* The booking that hasLiveMakeup starts from.
LastAttempt(o) == comp[o].attempts[Len(comp[o].attempts)]

\* The walk from a to l: k moves through sessions of the family, each once.
Path(o, k, f) ==
  /\ f \in [0..k -> Family(o)]
  /\ \A m, n \in 0..k : f[m] = f[n] => m = n
  /\ \A n \in 0..(k - 1) : NextInLineage(f[n]) = {f[n + 1]}
Leads(o, a, l) == \E k \in Nat : \E f : Path(o, k, f) /\ f[0] = a /\ f[k] = l

\* Only hand-booked sessions are ever made for an obligation.
BookedFamily(o) ==
  /\ IsFiniteSet(Family(o))
  /\ \A i \in Family(o) : i \in ManualIds /\ session[i] # Unborn
FamiliesAreBooked == \A o \in Originals : BookedFamily(o)
\* Whatever takes place is where the walk goes.
Known(o) ==
  Traceable(o) =>
    \A l \in LiveMakeups(o) : comp[o].attempts # <<>> /\ Leads(o, LastAttempt(o), l)
LiveOnesAreKnown == \A o \in Originals : Known(o)
\* A worker that books a make-up found none, and none appeared since.
BooksWhereNoneIs ==
  \A p \in Requests : duty[p].op = "schedule" /\ Traceable(duty[p].for) => LiveMakeups(duty[p].for) = {}

FamilyInv == FamiliesAreBooked /\ LiveOnesAreKnown /\ BooksWhereNoneIs

\* The walk stops at a session that takes place.
LEMMA LiveIsLast ==
  ASSUME HistoryInv, NEW l \in Ids, Live(l)
  PROVE  NextInLineage(l) = {} /\ session[l].movedTo = None /\ Exists(l)
<1>1. Exists(l)
  BY DEF Live, Exists
<1>2. session[l].movedTo = None
  BY <1>1 DEF HistoryInv, Links, LinksNameSessions, Live
<1> QED
  BY <1>1, <1>2 DEF NextInLineage

\* A path is no longer than the family.
LEMMA PathsAreShort ==
  ASSUME NEW o, IsFiniteSet(Family(o)), NEW k \in Nat, NEW f, Path(o, k, f)
  PROVE  k + 1 <= Cardinality(Family(o))
<1> DEFINE F == Family(o)
           S == 0..k
<1>1. f \in [S -> F] /\ \A m, n \in S : f[m] = f[n] => m = n
  BY DEF Path
<1>2. 0 \in Int /\ k \in Int
  OBVIOUS
<1>3. IsFiniteSet(S) /\ Cardinality(S) = IF 0 > k THEN 0 ELSE k - 0 + 1
  BY <1>2, FS_Interval
<1>4. Cardinality(S) = k + 1
  BY <1>3
<1>5. IsFiniteSet(F) /\ Cardinality(F) \in Nat
  BY FS_CardinalityType
<1> HIDE DEF F, S
<1>6. ~(Cardinality(F) < Cardinality(S))
  BY <1>1, <1>3, <1>5, FS_PigeonHole
<1>7. k + 1 <= Cardinality(F)
  BY <1>4, <1>5, <1>6
<1> QED
  BY <1>7 DEF F

\* What lineageOf finds from the start of a path that ends at a live session.
LEMMA PathIsFound ==
  ASSUME HistoryInv, NEW o, NEW k \in Nat, k <= MaxMoves, NEW f, Path(o, k, f), Live(f[k])
  PROVE  Effective[0][f[0]] = "scheduled"
<1> USE MakeupAssumption DEF MakeupAssumption
<1> DEFINE S == {m \in Nat : m <= k => Effective[k - m][f[k - m]] = "scheduled"}
<1>1. /\ \A n \in 0..k : f[n] \in Ids
      /\ \A n \in 0..(k - 1) : NextInLineage(f[n]) = {f[n + 1]}
  BY DEF Path, Family
<1>2. ASSUME NEW n \in 0..MaxMoves, NEW i \in Ids
      PROVE  Effective[n][i] = IF NextInLineage(i) = {} THEN (IF Exists(i) THEN session[i].status ELSE "missing")
                               ELSE IF n = MaxMoves THEN "missing"
                               ELSE Effective[n + 1][CHOOSE j \in NextInLineage(i) : TRUE]
  BY EffectiveWalks DEF Onward
<1>3. 0 \in S
  <2>1. k \in 0..MaxMoves /\ f[k] \in Ids
    BY <1>1
  <2>2. NextInLineage(f[k]) = {} /\ Exists(f[k])
    BY <2>1, LiveIsLast
  <2>3. Effective[k][f[k]] = "scheduled"
    BY <1>2, <2>1, <2>2 DEF Live
  <2> QED
    BY <2>3
<1>4. ASSUME NEW m \in Nat, m \in S PROVE m + 1 \in S
  <2> SUFFICES ASSUME m + 1 <= k PROVE Effective[k - (m + 1)][f[k - (m + 1)]] = "scheduled"
    OBVIOUS
  <2>1. PICK n : n = k - (m + 1)
    OBVIOUS
  <2>2. n \in 0..(k - 1) /\ n \in 0..MaxMoves /\ n # MaxMoves /\ n + 1 = k - m /\ n \in 0..k
    BY <2>1
  <2>3. NextInLineage(f[n]) = {f[n + 1]} /\ f[n] \in Ids
    BY <1>1, <2>2
  <2>4. (CHOOSE j \in {f[n + 1]} : TRUE) = f[n + 1]
    OBVIOUS
  <2>5. Effective[n][f[n]] = Effective[n + 1][f[n + 1]]
    BY <1>2, <2>2, <2>3, <2>4
  <2>6. Effective[n + 1][f[n + 1]] = "scheduled"
    BY <1>4, <2>2
  <2> QED
    BY <2>1, <2>5, <2>6
<1> HIDE DEF S
<1>5. k \in S
  BY <1>3, <1>4, SetInduction
<1> QED
  BY <1>5 DEF S

\* Paths from one session that end at live ones end together.
LEMMA PathsMeet ==
  ASSUME HistoryInv, NEW o, NEW k \in Nat, NEW f, Path(o, k, f), Live(f[k]),
         NEW m \in Nat, NEW g, Path(o, m, g), Live(g[m]), f[0] = g[0], k <= m
  PROVE  f[k] = g[m]
<1> DEFINE S == {n \in Nat : n <= k => f[n] = g[n]}
<1>1. /\ \A n \in 0..(k - 1) : NextInLineage(f[n]) = {f[n + 1]}
      /\ \A n \in 0..(m - 1) : NextInLineage(g[n]) = {g[n + 1]}
      /\ \A n \in 0..k : f[n] \in Ids
  BY DEF Path, Family
<1>2. ASSUME NEW n \in Nat, n \in S PROVE n + 1 \in S
  <2> SUFFICES ASSUME n + 1 <= k PROVE f[n + 1] = g[n + 1]
    OBVIOUS
  <2>1. n \in 0..(k - 1) /\ n \in 0..(m - 1) /\ f[n] = g[n]
    BY <1>2
  <2> QED
    BY <1>1, <2>1
<1>3. 0 \in S
  OBVIOUS
<1> HIDE DEF S
<1>4. k \in S
  BY <1>2, <1>3, SetInduction
<1>5. f[k] = g[k]
  BY <1>4 DEF S
<1>6. CASE k < m
  <2>1. NextInLineage(g[k]) = {g[k + 1]} /\ f[k] \in Ids
    BY <1>1, <1>6
  <2> QED
    BY <1>5, <2>1, LiveIsLast
<1> QED
  BY <1>5, <1>6

\* A live make-up is found, and there is one.
LEMMA KnownIsFound ==
  ASSUME MakeupInv, FamilyInv, NEW o \in Originals, Traceable(o), LiveMakeups(o) # {}
  PROVE  HasLiveMakeup(o)
<1>0. HistoryInv
  BY DEF MakeupInv
<1>1. PICK l \in LiveMakeups(o) : TRUE
  OBVIOUS
<1>2. comp[o].attempts # <<>> /\ Leads(o, LastAttempt(o), l) /\ Live(l)
  BY <1>1 DEF FamilyInv, LiveOnesAreKnown, Known, LiveMakeups
<1>3. PICK k \in Nat : \E f : Path(o, k, f) /\ f[0] = LastAttempt(o) /\ f[k] = l
  BY <1>2 DEF Leads
<1>4. PICK f : Path(o, k, f) /\ f[0] = LastAttempt(o) /\ f[k] = l
  BY <1>3
<1>5. IsFiniteSet(Family(o)) /\ Cardinality(Family(o)) <= MaxMoves + 1
  BY DEF FamilyInv, FamiliesAreBooked, BookedFamily, Traceable
<1>6. k <= MaxMoves
  <2>1. k + 1 <= Cardinality(Family(o)) /\ Cardinality(Family(o)) \in Nat
    BY <1>4, <1>5, PathsAreShort, FS_CardinalityType
  <2> QED
    BY <1>5, <2>1, MakeupAssumption DEF MakeupAssumption
<1>7. Effective[0][LastAttempt(o)] = "scheduled"
  BY <1>0, <1>2, <1>4, <1>6, PathIsFound
<1> QED
  BY <1>2, <1>7 DEF HasLiveMakeup, LastAttempt

\* Two that take place would end two paths from one start.
LEMMA KnownIsOne ==
  ASSUME MakeupInv, FamilyInv
  PROVE  OneLiveMakeupWhileTraceable
<1>0. HistoryInv
  BY DEF MakeupInv
<1> SUFFICES ASSUME NEW o \in Originals, Traceable(o) PROVE Cardinality(LiveMakeups(o)) <= 1
  BY DEF OneLiveMakeupWhileTraceable
<1>1. ASSUME NEW l \in LiveMakeups(o), NEW x \in LiveMakeups(o) PROVE l = x
  <2>1. Leads(o, LastAttempt(o), l) /\ Leads(o, LastAttempt(o), x) /\ Live(l) /\ Live(x)
    BY <1>1 DEF FamilyInv, LiveOnesAreKnown, Known, LiveMakeups
  <2>2. PICK k \in Nat : \E f : Path(o, k, f) /\ f[0] = LastAttempt(o) /\ f[k] = l
    BY <2>1 DEF Leads
  <2>3. PICK f : Path(o, k, f) /\ f[0] = LastAttempt(o) /\ f[k] = l
    BY <2>2
  <2>4. PICK m \in Nat : \E g : Path(o, m, g) /\ g[0] = LastAttempt(o) /\ g[m] = x
    BY <2>1 DEF Leads
  <2>5. PICK g : Path(o, m, g) /\ g[0] = LastAttempt(o) /\ g[m] = x
    BY <2>4
  <2>6. CASE k <= m
    <3>1. f[k] = g[m]
      BY <1>0, <2>1, <2>3, <2>5, <2>6, PathsMeet
    <3> QED
      BY <2>3, <2>5, <3>1
  <2>7. CASE m <= k
    <3>1. g[m] = f[k]
      BY <1>0, <2>1, <2>3, <2>5, <2>7, PathsMeet
    <3> QED
      BY <2>3, <2>5, <3>1
  <2> QED
    BY <2>6, <2>7
<1>2. CASE LiveMakeups(o) = {}
  <2>1. Cardinality(LiveMakeups(o)) = 0
    BY <1>2, FS_EmptySet
  <2> QED
    BY <2>1
<1>3. CASE LiveMakeups(o) # {}
  <2>1. PICK l \in LiveMakeups(o) : TRUE
    BY <1>3
  <2>2. LiveMakeups(o) = {l}
    BY <1>1, <2>1
  <2>3. Cardinality(LiveMakeups(o)) = 1
    BY <2>2, FS_Singleton
  <2> QED
    BY <2>3
<1> QED
  BY <1>2, <1>3

LEMMA DeletedIsNot ==
  ASSUME NEW i, session[i] = Deleted
  PROVE  ~Exists(i) /\ session[i] # Unborn /\ ~Live(i)
BY DEF Exists, Deleted, Unborn, Live

\* A forward link and a bridge name the same session.
LEMMA OnwardIsLinked ==
  ASSUME HistoryInv, NEW y \in Ids, y \in ManualIds, NEW z \in Ids, NextInLineage(y) = {z}
  PROVE  /\ Exists(y) => session[y].movedTo = z
         /\ ~Live(y)
         /\ Exists(z) => session[z].movedFrom = y
         /\ \A j \in Ids : Exists(j) /\ session[j].movedFrom = y => j = z
<1>0. Links /\ MovesLinkBothWays /\ y # None
  BY NoneIsNoId DEF HistoryInv, Links
<1>1. ~Live(y)
  BY LiveIsLast DEF HistoryInv
<1>2. CASE Exists(y) /\ session[y].movedTo # None
  <2>1. session[y].movedTo = z
    BY <1>2 DEF NextInLineage
  <2> QED
    BY <1>0, <1>1, <1>2, <2>1 DEF MovesLinkBothWays
<1>3. CASE ~(Exists(y) /\ session[y].movedTo # None)
  <2>1. {j \in Ids : Exists(j) /\ session[j].movedFrom = y} = {z}
    BY <1>1, <1>3 DEF NextInLineage
  <2>2. Exists(z) /\ session[z].movedFrom = y
    BY <2>1
  <2>3. ~Exists(y)
    <3> SUFFICES ASSUME Exists(y) PROVE FALSE
      OBVIOUS
    <3>1. session[y].movedTo = z
      BY <1>0, <2>2 DEF MovesLinkBothWays
    <3> QED
      BY <1>3, <3>1, NoneIsNoId
  <2> QED
    BY <1>1, <2>1, <2>2, <2>3
<1> QED
  BY <1>2, <1>3

\* So the family keeps a link as long as one of its two ends is there.
LEMMA LinkStays ==
  ASSUME HistoryInv, TypeInv', KeepsLinks, NEW y \in Ids, NEW z \in Ids, y \in ManualIds, z \in ManualIds,
         session[y] # Unborn, session[z] # Unborn, session'[z] # Unborn,
         ~(session'[y] = Deleted /\ session'[z] = Deleted), session'[y] # Unborn,
         NextInLineage(y) = {z}
  PROVE  NextInLineage(y)' = {z}
<1>0. TypeInv /\ y # None /\ z # None
  BY NoneIsNoId DEF HistoryInv
<1>1. /\ Exists(y) => session[y].movedTo = z
      /\ ~Live(y)
      /\ Exists(z) => session[z].movedFrom = y
      /\ \A j \in Ids : Exists(j) /\ session[j].movedFrom = y => j = z
  BY OnwardIsLinked
<1>2. CASE Exists(y)'
  <2>1. Exists(y) /\ session'[y].movedTo = session[y].movedTo
    BY <1>2 DEF KeepsLinks
  <2> QED
    BY <1>0, <1>1, <1>2, <2>1 DEF NextInLineage
<1>3. CASE ~Exists(y)'
  <2>1. session'[y] = Deleted
    BY <1>3 DEF TypeInv, Exists, SessionRow
  <2>2. Exists(z)'
    BY <2>1 DEF TypeInv, Exists, SessionRow
  <2>3. Exists(z) /\ session'[z].movedFrom = y
    BY <1>1, <2>2 DEF KeepsLinks
  <2>4. \A j \in Ids : Exists(j)' /\ session'[j].movedFrom = y => j = z
    BY <1>0, <1>1 DEF KeepsLinks
  <2>5. ~Live(y)'
    BY <1>3 DEF Exists, Live
  <2>6. NextInLineage(y)' = {j \in Ids : Exists(j)' /\ session'[j].movedFrom = y}
    BY <1>3, <2>5 DEF NextInLineage
  <2> QED
    BY <2>2, <2>3, <2>4, <2>6
<1> QED
  BY <1>2, <1>3

\* Two of a traceable family are not both deleted.
LEMMA OneDeleted ==
  ASSUME NEW o, IsFiniteSet(Family(o)'), Traceable(o)', NEW y \in Family(o)', NEW z \in Family(o)',
         session'[y] = Deleted, session'[z] = Deleted
  PROVE  y = z
<1> DEFINE D == {i \in Family(o)' : session'[i] = Deleted}
<1>1. y \in D /\ z \in D
  OBVIOUS
<1>2. IsFiniteSet(D) /\ Cardinality(D) < 2
  <2>1. D \subseteq Family(o)'
    OBVIOUS
  <2>2. IsFiniteSet(D)
    BY <2>1, FS_Subset
  <2> QED
    BY <2>2 DEF Traceable
<1> HIDE DEF D
<1>3. Cardinality({y, z}) <= Cardinality(D) /\ Cardinality(D) \in Nat /\ Cardinality({y, z}) \in Nat
  <2>1. {y, z} \subseteq D
    BY <1>1
  <2>2. IsFiniteSet({y, z}) /\ Cardinality({y, z}) <= Cardinality(D)
    BY <1>2, <2>1, FS_Subset
  <2> QED
    BY <1>2, <2>2, FS_CardinalityType
<1>4. y # z => Cardinality({y, z}) = 2
  <2> SUFFICES ASSUME y # z PROVE Cardinality({y, z}) = 2
    OBVIOUS
  <2>1. IsFiniteSet({y}) /\ Cardinality({y}) = 1
    BY FS_Singleton
  <2>2. Cardinality({y} \cup {z}) = Cardinality({y}) + 1
    BY <2>1, FS_AddElement
  <2>3. {y, z} = {y} \cup {z}
    OBVIOUS
  <2> QED
    BY <2>1, <2>2, <2>3
<1> QED
  BY <1>2, <1>3, <1>4

\* A smaller family is as traceable.
LEMMA TraceableBefore ==
  ASSUME NEW o, IsFiniteSet(Family(o)'), Traceable(o)', Family(o) \subseteq Family(o)',
         \A i \in Family(o) : session[i] = Deleted => session'[i] = Deleted
  PROVE  Traceable(o)
<1> DEFINE D == {i \in Family(o) : session[i] = Deleted}
           E == {i \in Family(o)' : session'[i] = Deleted}
<1>1. Cardinality(E) < 2 /\ Cardinality(Family(o)') <= MaxMoves + 1
  BY DEF Traceable
<1>2. D \subseteq E /\ E \subseteq Family(o)'
  OBVIOUS
<1>3. IsFiniteSet(E)
  BY <1>2, FS_Subset
<1> HIDE DEF D, E
<1>4. IsFiniteSet(D) /\ Cardinality(D) <= Cardinality(E)
  BY <1>2, <1>3, FS_Subset
<1>5. IsFiniteSet(Family(o)) /\ Cardinality(Family(o)) <= Cardinality(Family(o)')
  BY FS_Subset
<1>6. /\ Cardinality(D) \in Nat /\ Cardinality(E) \in Nat
      /\ Cardinality(Family(o)) \in Nat /\ Cardinality(Family(o)') \in Nat
  BY <1>3, <1>4, <1>5, FS_CardinalityType
<1>7. Cardinality(D) < 2 /\ Cardinality(Family(o)) <= MaxMoves + 1
  BY <1>1, <1>4, <1>5, <1>6, MakeupAssumption DEF MakeupAssumption
<1> QED
  BY <1>7 DEF D, Traceable

\* A path stays one when its links do and its family only grows.
LEMMA PathStays ==
  ASSUME NEW o, NEW k \in Nat, NEW f, Path(o, k, f), Family(o) \subseteq Family(o)',
         \A y, z \in Family(o) : y # z /\ NextInLineage(y) = {z} => NextInLineage(y)' = {z}
  PROVE  Path(o, k, f)'
<1>1. /\ f \in [0..k -> Family(o)]
      /\ \A m, n \in 0..k : f[m] = f[n] => m = n
      /\ \A n \in 0..(k - 1) : NextInLineage(f[n]) = {f[n + 1]}
  BY DEF Path
<1>2. f \in [0..k -> Family(o)']
  BY <1>1
<1>3. ASSUME NEW n \in 0..(k - 1) PROVE NextInLineage(f[n])' = {f[n + 1]}
  <2>1. n \in 0..k /\ n + 1 \in 0..k /\ n # n + 1
    OBVIOUS
  <2>2. f[n] \in Family(o) /\ f[n + 1] \in Family(o) /\ f[n] # f[n + 1]
    BY <1>1, <2>1
  <2>3. NextInLineage(f[n]) = {f[n + 1]}
    BY <1>1
  <2> QED
    BY <2>2, <2>3
<1> QED
  BY <1>1, <1>2, <1>3 DEF Path

LEMMA LeadsStay ==
  ASSUME NEW o, NEW a, NEW l, Leads(o, a, l), Family(o) \subseteq Family(o)',
         \A y, z \in Family(o) : y # z /\ NextInLineage(y) = {z} => NextInLineage(y)' = {z}
  PROVE  Leads(o, a, l)'
<1>1. PICK k \in Nat : \E f : Path(o, k, f) /\ f[0] = a /\ f[k] = l
  BY DEF Leads
<1>2. PICK f : Path(o, k, f) /\ f[0] = a /\ f[k] = l
  BY <1>1
<1>3. Path(o, k, f)'
  BY <1>2, PathStays
<1> QED
  BY <1>2, <1>3 DEF Leads

\* A step that moves nothing leaves the make-ups of a family known.
LEMMA KnownStays ==
  ASSUME MakeupInv, TypeInv', NEW o \in Originals, BookedFamily(o), Known(o),
         KeepsLinks, \A i \in Ids : session[i] # Unborn => session'[i] # Unborn,
         Family(o)' = Family(o), comp'[o].attempts = comp[o].attempts
  PROVE  BookedFamily(o)' /\ Known(o)' /\ (Traceable(o)' => Traceable(o)) /\ LiveMakeups(o)' \subseteq LiveMakeups(o)
<1>0. HistoryInv /\ TypeInv
  BY DEF MakeupInv, HistoryInv
<1>1. \A i \in Family(o) : i \in Ids /\ i \in ManualIds /\ session[i] # Unborn /\ session'[i] # Unborn
  BY DEF BookedFamily, Family
<1>2. BookedFamily(o)'
  BY <1>1 DEF BookedFamily
<1>3. \A i \in Family(o) : session[i] = Deleted => session'[i] = Deleted
  <2> SUFFICES ASSUME NEW i \in Family(o), session[i] = Deleted PROVE session'[i] = Deleted
    OBVIOUS
  <2>1. ~Exists(i)'
    BY <1>1, DeletedIsNot DEF KeepsLinks
  <2> QED
    BY <1>1, <2>1 DEF TypeInv, Exists, SessionRow
<1>4. Traceable(o)' => Traceable(o)
  BY <1>2, <1>3, TraceableBefore DEF BookedFamily
<1>5. LiveMakeups(o)' \subseteq LiveMakeups(o)
  <2> SUFFICES ASSUME NEW l \in LiveMakeups(o)' PROVE l \in LiveMakeups(o)
    OBVIOUS
  <2>1. l \in Family(o) /\ Live(l)' /\ Exists(l)'
    BY DEF LiveMakeups, Live, Exists
  <2>2. session'[l].status \in {session[l].status, "cancelled"}
    BY <1>1, <2>1 DEF KeepsLinks
  <2>3. Live(l)
    BY <2>1, <2>2 DEF Live
  <2> QED
    BY <2>1, <2>3 DEF LiveMakeups
<1>6. Known(o)'
  <2> SUFFICES ASSUME Traceable(o)', NEW l \in LiveMakeups(o)'
               PROVE  comp'[o].attempts # <<>> /\ Leads(o, LastAttempt(o), l)'
    BY DEF Known
  <2>1. comp[o].attempts # <<>> /\ Leads(o, LastAttempt(o), l)
    BY <1>4, <1>5 DEF Known
  <2>2. ASSUME NEW y \in Family(o), NEW z \in Family(o), y # z, NextInLineage(y) = {z}
        PROVE  NextInLineage(y)' = {z}
    <3>1. ~(session'[y] = Deleted /\ session'[z] = Deleted)
      BY <1>2, <2>2, OneDeleted DEF BookedFamily
    <3> QED
      BY <1>0, <1>1, <2>2, <3>1, LinkStays
  <2>3. PICK a : a = LastAttempt(o)
    OBVIOUS
  <2>4. LastAttempt(o)' = a
    BY <2>3 DEF LastAttempt
  <2>5. Leads(o, a, l)'
    BY <2>1, <2>2, <2>3, LeadsStay
  <2> QED
    BY <2>1, <2>4, <2>5 DEF Leads
<1> QED
  BY <1>2, <1>4, <1>5, <1>6

\* A move adds one link, at the live end.
LEMMA MoveAddsLink ==
  ASSUME HistoryInv, NEW i, NEW j, MovedOn(i, j), NEW o, BookedFamily(o)
  PROVE  /\ NextInLineage(i)' = {j}
         /\ \A y, z \in Family(o) : y # z /\ NextInLineage(y) = {z} => NextInLineage(y)' = {z}
<1>1. NextInLineage(i)' = {j}
  BY NoneIsNoId DEF MovedOn, NextInLineage
<1>2. ASSUME NEW y \in Family(o), NEW z \in Family(o), y # z, NextInLineage(y) = {z}
      PROVE  NextInLineage(y)' = {z}
  <2>1. y \in Ids /\ y \in ManualIds /\ y # j /\ y # None /\ z \in Ids
    BY NoneIsNoId DEF BookedFamily, Family, MovedOn
  <2>2. y # i
    BY <1>2, LiveIsLast DEF MovedOn
  <2>3. session'[y] = session[y]
    BY <2>1, <2>2 DEF MovedOn
  <2>4. /\ Exists(y) => session[y].movedTo = z
        /\ ~Live(y)
    BY <1>2, <2>1, OnwardIsLinked
  <2>5. CASE Exists(y)
    <3>1. z # None
      BY <2>1, NoneIsNoId
    <3> QED
      BY <2>3, <2>4, <2>5, <3>1 DEF NextInLineage, Exists
  <2>6. CASE ~Exists(y)
    <3>1. ~Exists(y)' /\ ~Live(y)'
      BY <2>3, <2>4, <2>6 DEF Exists, Live
    <3>2. {k \in Ids : Exists(k) /\ session[k].movedFrom = y} = {z}
      BY <1>2, <2>4, <2>6 DEF NextInLineage
    <3>3. ASSUME NEW k \in Ids
          PROVE  (Exists(k)' /\ session'[k].movedFrom = y) <=> (Exists(k) /\ session[k].movedFrom = y)
      <4>1. CASE k = j
        BY <2>2, <4>1 DEF MovedOn, Exists, Unborn
      <4>2. CASE k = i
        BY <4>2 DEF MovedOn, Exists, Live
      <4>3. CASE k \notin {i, j}
        BY <4>3 DEF MovedOn, Exists
      <4> QED
        BY <4>1, <4>2, <4>3
    <3>4. NextInLineage(y)' = {k \in Ids : Exists(k)' /\ session'[k].movedFrom = y}
      BY <3>1 DEF NextInLineage
    <3> QED
      BY <3>2, <3>3, <3>4
  <2> QED
    BY <2>5, <2>6
<1> QED
  BY <1>1, <1>2

LEMMA MoveJoinsFamily ==
  ASSUME NEW i, NEW j, MovedOn(i, j), NEW o \in Originals, BookedFamily(o)
  PROVE  /\ j \notin Family(o)
         /\ Family(o)' = IF madeFor[i] = o THEN Family(o) \cup {j} ELSE Family(o)
         /\ BookedFamily(o)'
         /\ Traceable(o)' => Traceable(o)
<1>1. j \notin Family(o)
  BY DEF BookedFamily, MovedOn
<1>2. Family(o)' = IF madeFor[i] = o THEN Family(o) \cup {j} ELSE Family(o)
  BY <1>1 DEF Family, MovedOn
<1>3. IsFiniteSet(Family(o)')
  <2>1. IsFiniteSet(Family(o)) /\ IsFiniteSet(Family(o) \cup {j})
    BY FS_AddElement DEF BookedFamily
  <2> QED
    BY <1>2, <2>1
<1>4. ASSUME NEW k \in Family(o)' PROVE k \in ManualIds /\ session'[k] # Unborn
  <2>1. CASE k \in {i, j}
    <3>1. session'[k] # Unborn
      BY <2>1 DEF MovedOn, Exists, Unborn
    <3>2. k = i => k \in Family(o)
      BY <1>2, <1>4 DEF MovedOn
    <3> QED
      BY <2>1, <3>1, <3>2 DEF BookedFamily, MovedOn
  <2>2. CASE k \notin {i, j}
    <3>1. k \in Family(o) /\ k \in Ids /\ session'[k] = session[k]
      BY <1>2, <1>4, <2>2 DEF MovedOn, Family
    <3> QED
      BY <3>1 DEF BookedFamily
  <2> QED
    BY <2>1, <2>2
<1>5. \A k \in Family(o) : session[k] = Deleted => session'[k] = Deleted
  BY <1>1 DEF MovedOn, Live, Deleted, Family
<1>6. Traceable(o)' => Traceable(o)
  BY <1>2, <1>3, <1>5, TraceableBefore
<1> QED
  BY <1>1, <1>2, <1>3, <1>4, <1>6 DEF BookedFamily

LEMMA MoveIsKnown ==
  ASSUME MakeupInv, NEW i, NEW j, MovedOn(i, j), NEW o \in Originals, BookedFamily(o), Known(o),
         comp' = comp, Traceable(o)', NEW l \in LiveMakeups(o)'
  PROVE  comp'[o].attempts # <<>> /\ Leads(o, LastAttempt(o), l)'
<1>1. /\ NextInLineage(i)' = {j}
      /\ \A y, z \in Family(o) : y # z /\ NextInLineage(y) = {z} => NextInLineage(y)' = {z}
  BY MoveAddsLink DEF MakeupInv
<1>2. /\ j \notin Family(o)
      /\ Family(o)' = IF madeFor[i] = o THEN Family(o) \cup {j} ELSE Family(o)
      /\ Traceable(o)
  BY MoveJoinsFamily
<1>3. PICK a : a = LastAttempt(o)
  OBVIOUS
<1>4. LastAttempt(o)' = a
  BY <1>3 DEF LastAttempt
<1>5. l \in Family(o)' /\ l \in Ids /\ Live(l)'
  BY DEF LiveMakeups, Family
<1>6. CASE l = j
  <2>1. madeFor[i] = o /\ i \in LiveMakeups(o)
    BY <1>2, <1>5, <1>6 DEF LiveMakeups, Family, MovedOn
  <2>2. comp[o].attempts # <<>> /\ Leads(o, a, i)
    BY <1>2, <1>3, <2>1 DEF Known
  <2>3. PICK k \in Nat : \E f : Path(o, k, f) /\ f[0] = a /\ f[k] = i
    BY <2>2 DEF Leads
  <2>4. PICK f : Path(o, k, f) /\ f[0] = a /\ f[k] = i
    BY <2>3
  <2>5. Path(o, k, f)'
    BY <1>1, <1>2, <2>4, PathStays
  <2>6. /\ f \in [0..k -> Family(o)'] /\ f \in [0..k -> Family(o)]
        /\ \A m, n \in 0..k : f[m] = f[n] => m = n
        /\ \A n \in 0..(k - 1) : NextInLineage(f[n])' = {f[n + 1]}
    BY <2>4, <2>5 DEF Path
  <2> DEFINE g == [n \in 0..(k + 1) |-> IF n = k + 1 THEN j ELSE f[n]]
  <2>7. g[k + 1] = j /\ \A n \in 0..k : g[n] = f[n]
    OBVIOUS
  <2>8. g \in [0..(k + 1) -> Family(o)']
    <3>1. j \in Family(o)' /\ \A n \in 0..(k + 1) : n # k + 1 => n \in 0..k
      BY <1>2, <2>1
    <3> QED
      BY <2>6, <3>1
  <2> HIDE DEF g
  <2>9. ASSUME NEW m \in 0..(k + 1), NEW n \in 0..(k + 1), g[m] = g[n] PROVE m = n
    <3>1. \A x \in 0..(k + 1) : x = k + 1 \/ x \in 0..k
      OBVIOUS
    <3>2. \A x \in 0..k : g[x] \in Family(o)
      BY <2>6, <2>7
    <3> QED
      BY <1>2, <2>6, <2>7, <2>9, <3>1, <3>2
  <2>10. ASSUME NEW n \in 0..((k + 1) - 1) PROVE NextInLineage(g[n])' = {g[n + 1]}
    <3>1. CASE n = k
      <4>1. g[n] = i /\ g[n + 1] = j
        BY <2>4, <2>7, <3>1
      <4> QED
        BY <1>1, <4>1
    <3>2. CASE n # k
      <4>1. n \in 0..(k - 1) /\ n \in 0..k /\ n + 1 \in 0..k
        BY <3>2
      <4>2. g[n] = f[n] /\ g[n + 1] = f[n + 1]
        BY <2>7, <4>1
      <4> QED
        BY <2>6, <4>1, <4>2
    <3> QED
      BY <3>1, <3>2
  <2>11. Path(o, k + 1, g)'
    <3>1. \A m, n \in 0..(k + 1) : g[m] = g[n] => m = n
      BY <2>9
    <3>2. \A n \in 0..((k + 1) - 1) : NextInLineage(g[n])' = {g[n + 1]}
      BY <2>10
    <3> QED
      BY <2>8, <3>1, <3>2 DEF Path
  <2>12. g[0] = a /\ g[k + 1] = l /\ k + 1 \in Nat
    BY <1>6, <2>4, <2>7
  <2>13. Leads(o, a, l)'
    BY <2>11, <2>12 DEF Leads
  <2> QED
    BY <1>4, <2>2, <2>13 DEF Leads
<1>7. CASE l # j
  <2>1. l \in Family(o) /\ l # i
    BY <1>2, <1>5, <1>7 DEF MovedOn
  <2>2. l \in LiveMakeups(o)
    BY <1>5, <1>7, <2>1 DEF LiveMakeups, Live, MovedOn
  <2>3. comp[o].attempts # <<>> /\ Leads(o, a, l)
    BY <1>2, <1>3, <2>2 DEF Known
  <2>4. Leads(o, a, l)'
    BY <1>1, <1>2, <2>3, LeadsStay
  <2> QED
    BY <1>4, <2>3, <2>4 DEF Leads
<1> QED
  BY <1>6, <1>7

\* While no session changes, only a worker that takes up a booking has to look.
LEMMA StillKnown ==
  ASSUME MakeupInv, MakeupTypeInv', FamilyInv, session' = session, madeFor' = madeFor,
         \A o \in Originals : comp'[o].attempts = comp[o].attempts,
         \A q \in Requests : \/ duty'[q] = duty[q] \/ duty'[q].op # "schedule"
                             \/ duty'[q].for \in Originals /\ ~HasLiveMakeup(duty'[q].for)
  PROVE  FamilyInv'
<1>1. KeepsLinks /\ TypeInv' /\ \A i \in Ids : session[i] # Unborn => session'[i] # Unborn
  BY DEF KeepsLinks, Exists, MakeupTypeInv
<1>2. \A o : Family(o)' = Family(o)
  BY DEF Family
<1>3. ASSUME NEW o \in Originals
      PROVE  /\ BookedFamily(o)' /\ Known(o)' /\ (Traceable(o)' => Traceable(o))
             /\ LiveMakeups(o)' \subseteq LiveMakeups(o)
  BY <1>1, <1>2, KnownStays DEF FamilyInv, FamiliesAreBooked, LiveOnesAreKnown
<1>4. ASSUME NEW q \in Requests, duty'[q].op = "schedule", NEW o, o = duty'[q].for, Traceable(o)'
      PROVE  LiveMakeups(o)' = {}
  <2>2. o \in Originals
    BY <1>4, NoDutyTyped DEF MakeupTypeInv, ObligationTypes, DutyNamed
  <2>3. Traceable(o) /\ LiveMakeups(o)' \subseteq LiveMakeups(o)
    BY <1>3, <1>4, <2>2
  <2>4. LiveMakeups(o) = {}
    <3>1. CASE duty'[q] = duty[q]
      BY <1>4, <2>3, <3>1 DEF FamilyInv, BooksWhereNoneIs
    <3>2. CASE duty'[q] # duty[q]
      BY <1>4, <2>2, <2>3, <3>2, KnownIsFound
    <3> QED
      BY <3>1, <3>2
  <2> QED
    BY <2>3, <2>4
<1>5. BooksWhereNoneIs'
  <2> SUFFICES ASSUME NEW q \in Requests, duty'[q].op = "schedule", Traceable(duty[q].for)'
               PROVE  LiveMakeups(duty[q].for)' = {}
    BY DEF BooksWhereNoneIs
  <2>1. PICK o : o = duty'[q].for
    OBVIOUS
  <2>2. Traceable(o)'
    BY <2>1 DEF Traceable, Family
  <2>3. LiveMakeups(o)' = {}
    BY <1>4, <2>1, <2>2
  <2> QED
    BY <2>1, <2>3 DEF LiveMakeups, Family
<1> QED
  BY <1>3, <1>5 DEF FamilyInv, FamiliesAreBooked, LiveOnesAreKnown

\* The steps of a worker on duty that write no session.
LEMMA DutyKnown ==
  ASSUME MakeupInv, MakeupInv', FamilyInv, NEW p \in Requests,
         \/ Register(p) \/ Schedule(p) \/ Complete(p) \/ SaveObligation(p) \/ CommitObligation(p)
         \/ SaveMakeup(p) \/ FailDuty(p)
  PROVE  FamilyInv'
<1>1. duty \in [Requests -> Duty] /\ comp \in [Originals -> Obligation] /\ MakeupTypeInv'
  BY DEF MakeupInv, MakeupTypeInv, ObligationTypes
<1>2. session' = session /\ madeFor' = madeFor
  BY DEF Register, Schedule, Begin, Start, Complete, SaveObligation, CommitObligation, SaveMakeup, Save,
         FailDuty, RollBack, tables
<1>3. \A o \in Originals : comp'[o].attempts = comp[o].attempts
  <2>1. CASE CommitObligation(p)
    BY <1>1, <2>1 DEF CommitObligation, Obligation
  <2>2. CASE ~CommitObligation(p)
    BY <2>2 DEF Register, Schedule, Complete, SaveObligation, SaveMakeup, FailDuty
  <2> QED
    BY <2>1, <2>2
<1>4. ASSUME NEW q \in Requests
      PROVE  \/ duty'[q] = duty[q] \/ duty'[q].op # "schedule"
             \/ duty'[q].for \in Originals /\ ~HasLiveMakeup(duty'[q].for)
  <2>1. CASE Register(p) \/ Complete(p)
    BY <1>1, <2>1 DEF Register, Complete, Serve
  <2>2. CASE Schedule(p)
    <3>1. PICK o \in Originals : ~HasLiveMakeup(o) /\ Serve(p, "schedule", o)
      BY <2>2 DEF Schedule
    <3>2. q = p => duty'[q].for = o
      BY <1>1, <3>1 DEF Serve
    <3>3. q # p => duty'[q] = duty[q]
      BY <1>1, <3>1 DEF Serve
    <3> QED
      BY <3>1, <3>2, <3>3
  <2>3. CASE SaveObligation(p)
    BY <1>1, <2>3 DEF SaveObligation, Duty
  <2>4. CASE CommitObligation(p) \/ FailDuty(p)
    BY <1>1, <2>4, NoDutyTyped DEF CommitObligation, FailDuty
  <2>5. CASE SaveMakeup(p)
    BY <2>5 DEF SaveMakeup
  <2> QED
    BY <2>1, <2>2, <2>3, <2>4, <2>5
<1> QED
  BY <1>1, <1>2, <1>3, <1>4, StillKnown

\* A booking adds the one live session of its family.
LEMMA BookingKnown ==
  ASSUME ~HasRowLocks, MakeupInv, MakeupInv', FamilyInv, NEW p \in Requests, CommitMakeup(p)
  PROVE  FamilyInv'
<1>1. Commit(p) /\ duty[p].op = "schedule" /\ OnDuty(p) /\ TypeInv /\ TypeInv'
  BY DEF CommitMakeup, Doing, MakeupInv, MakeupTypeInv
<1>2. StepOf(p) /\ req[p].op = "create" /\ req[p].pc = "commit"
  BY <1>1 DEF StepOf, Continue, MakeupInv, MakeupTypeInv, ObligationTypes, DutyNamed, Commit
<1>4. reserved = p /\ CommitTx(p)
  BY <1>1, <1>2 DEF MakeupInv, HistoryInv, Serving, Commit
<1>5. PICK i \in Ids, o \in Originals : i = req[p].id /\ o = duty[p].for
  BY <1>1, <1>2, NoDutyTyped DEF MakeupInv, MakeupTypeInv, ObligationTypes, DutyNamed, TypeInv, Named
<1>6. PICK c \in Classes, slot \in Bookings :
        req[p].writes = {WriteTo(i, Booked(c, slot, "scheduled", "manual", None))}
  BY <1>1, <1>5 DEF OnDuty
<1>7. session[i] = Unborn /\ i \in ManualIds
  BY <1>1, <1>5 DEF OnDuty, Fresh
<1>8. /\ session'[i].movedFrom = None /\ session'[i].movedTo = None /\ session'[i] # Unborn
      /\ Live(i)' /\ Exists(i)'
      /\ \A j \in Ids \ {i} : session'[j] = session[j]
  <2> DEFINE row == Booked(c, slot, "scheduled", "manual", None)
  <2>1. row.movedFrom = None /\ row.movedTo = None /\ row # Unborn /\ row.status = "scheduled"
    BY DEF Booked, Unborn
  <2>2. Written(p) = {i} /\ \A w \in req[p].writes : w.row = row
    BY <1>6 DEF Written, WriteTo
  <2> HIDE DEF row
  <2>3. session'[i] = row /\ \A j \in Ids \ {i} : session'[j] = session[j]
    BY <1>1, <2>2, CommittedRow
  <2> QED
    BY <2>1, <2>3 DEF Live, Exists
<1>9. /\ madeFor'[i] = o /\ \A j \in Ids \ {i} : madeFor'[j] = madeFor[j]
      /\ \A x \in Originals \ {o} : comp'[x] = comp[x]
      /\ comp'[o].attempts = Append(comp[o].attempts, i)
      /\ comp[o].attempts \in Seq(Ids)
  BY <1>5 DEF CommitMakeup, MakeupInv, MakeupTypeInv, ObligationTypes, Obligation
<1>10. KeepsLinks /\ \A j \in Ids : session[j] # Unborn => session'[j] # Unborn
  BY <1>7, <1>8 DEF KeepsLinks, Exists
<1>11. \A x \in Originals : BookedFamily(x) /\ Known(x) /\ i \notin Family(x)
  BY <1>7 DEF FamilyInv, FamiliesAreBooked, LiveOnesAreKnown, BookedFamily
<1>12. Family(o)' = Family(o) \cup {i} /\ \A x \in Originals \ {o} : Family(x)' = Family(x)
  BY <1>9, <1>11 DEF Family
<1>13. ASSUME NEW x \in Originals, x # o PROVE BookedFamily(x)' /\ Known(x)'
  BY <1>1, <1>9, <1>10, <1>11, <1>12, <1>13, KnownStays
<1>14. BookedFamily(o)'
  <2>1. IsFiniteSet(Family(o)) /\ IsFiniteSet(Family(o) \cup {i})
    BY <1>11, FS_AddElement DEF BookedFamily
  <2>2. \A j \in Family(o) : j \in ManualIds /\ j \in Ids /\ session[j] # Unborn
    BY <1>11 DEF BookedFamily, Family
  <2> QED
    BY <1>7, <1>8, <1>12, <2>1, <2>2 DEF BookedFamily
<1>15. Known(o)'
  <2> SUFFICES ASSUME Traceable(o)', NEW l \in LiveMakeups(o)'
               PROVE  comp'[o].attempts # <<>> /\ Leads(o, LastAttempt(o), l)'
    BY DEF Known
  <2>1. Traceable(o)
    <3>1. \A j \in Family(o) : session[j] = Deleted => session'[j] = Deleted
      BY <1>8, <1>11 DEF Family
    <3>2. IsFiniteSet(Family(o)') /\ Family(o) \subseteq Family(o)'
      BY <1>12, <1>14 DEF BookedFamily
    <3> QED
      BY <3>1, <3>2, TraceableBefore
  <2>2. LiveMakeups(o) = {}
    BY <1>1, <1>5, <2>1 DEF FamilyInv, BooksWhereNoneIs
  <2>3. l = i
    BY <1>8, <1>12, <2>2 DEF LiveMakeups, Live, Family
  <2>4. comp'[o].attempts # <<>> /\ LastAttempt(o)' = i
    <3>1. /\ Len(comp'[o].attempts) = Len(comp[o].attempts) + 1
          /\ comp'[o].attempts[Len(comp[o].attempts) + 1] = i
      BY <1>9, AppendProperties
    <3>2. Len(comp[o].attempts) \in Nat
      BY <1>9, LenProperties
    <3>3. Len(<<>>) = 0
      OBVIOUS
    <3> QED
      BY <3>1, <3>2, <3>3 DEF LastAttempt
  <2> DEFINE f == [n \in 0..0 |-> i]
  <2>5. Path(o, 0, f)'
    BY <1>12 DEF Path
  <2>6. f[0] = i
    OBVIOUS
  <2> HIDE DEF f
  <2>7. Leads(o, i, l)'
    BY <2>3, <2>5, <2>6 DEF Leads
  <2> QED
    BY <2>4, <2>7 DEF Leads
<1>16. BooksWhereNoneIs'
  <2>1. duty' = [duty EXCEPT ![p] = NoDuty] /\ duty \in [Requests -> Duty]
    BY DEF CommitMakeup, MakeupInv, MakeupTypeInv, ObligationTypes
  <2>2. \A q \in Requests : duty'[q].op # "schedule"
    BY <1>4, <2>1, AloneOnDuty, NoDutyTyped
  <2> QED
    BY <2>2 DEF BooksWhereNoneIs
<1> QED
  BY <1>13, <1>14, <1>15, <1>16 DEF FamilyInv, FamiliesAreBooked, LiveOnesAreKnown

\* While somebody books a make-up scheduling writes no session.
LEMMA ElsewhereKnown ==
  ASSUME ~HasRowLocks, MakeupInv, MakeupInv', FamilyInv, NEW p \in Requests, Elsewhere(p)
  PROVE  FamilyInv'
<1>1. /\ StepOf(p) /\ duty[p] = NoDuty /\ comp' = comp /\ duty' = duty
      /\ TypeInv /\ HistoryInv /\ MakeupTypeInv' /\ TypeInv'
  BY StepsOfNext DEF Elsewhere, MakeupInv, MakeupTypeInv
<1>2. \A i \in Ids : session[i] # Unborn => session'[i] # Unborn
  BY <1>1, BornStays
<1>3. CASE UNCHANGED tables
  <2>1. session' = session
    BY <1>3 DEF tables
  <2>2. madeFor' = madeFor
    <3>1. \A i \in Ids : ~(~Exists(i) /\ Exists(i)')
      BY <2>1 DEF Exists
    <3>2. madeFor' = [i \in Ids |-> madeFor[i]]
      BY <3>1 DEF Elsewhere
    <3> QED
      BY <3>2 DEF MakeupInv, MakeupTypeInv, ObligationTypes
  <2> QED
    BY <1>1, <2>1, <2>2, StillKnown
<1>4. CASE ~UNCHANGED tables
  <2>1. \A q \in Requests : duty'[q].op # "schedule"
    <3> SUFFICES ASSUME NEW q \in Requests, duty[q].op = "schedule" PROVE FALSE
      BY <1>1
    <3>1. q # p
      BY <1>1, NoDutyTyped
    <3>2. q \in shared
      BY <1>1 DEF MakeupInv, OnDuty, HistoryInv, Serving
    <3> QED
      BY <1>1, <1>4, <3>1, <3>2, SharedBlocksWriters
  <2>2. ASSUME NEW o \in Originals PROVE BookedFamily(o)' /\ Known(o)'
    <3>0. BookedFamily(o) /\ Known(o)
      BY DEF FamilyInv, FamiliesAreBooked, LiveOnesAreKnown
    <3>1. CASE KeepsLinks /\ madeFor' = madeFor
      <4>1. Family(o)' = Family(o)
        BY <3>1 DEF Family
      <4> QED
        BY <1>1, <1>2, <3>0, <3>1, <4>1, KnownStays
    <3>2. CASE \E i, j : MovedOn(i, j)
      <4>1. PICK i, j : MovedOn(i, j)
        BY <3>2
      <4>2. BookedFamily(o)'
        BY <3>0, <4>1, MoveJoinsFamily
      <4>3. ASSUME Traceable(o)', NEW l \in LiveMakeups(o)'
            PROVE  comp'[o].attempts # <<>> /\ Leads(o, LastAttempt(o), l)'
        BY <1>1, <3>0, <4>1, <4>3, MoveIsKnown
      <4> QED
        BY <4>2, <4>3 DEF Known
    <3> QED
      BY <3>1, <3>2, ElsewhereWrites
  <2> QED
    BY <2>1, <2>2 DEF FamilyInv, FamiliesAreBooked, LiveOnesAreKnown, BooksWhereNoneIs
<1> QED
  BY <1>3, <1>4

LEMMA FamiliesStart ==
  ASSUME MakeupInit PROVE FamilyInv
<1>1. \A i \in Ids : madeFor[i] = None
  BY DEF MakeupInit
<1>2. \A o \in Originals : Family(o) = {} /\ LiveMakeups(o) = {}
  BY <1>1, OriginalsAreIds, NoneIsNoId DEF Family, LiveMakeups
<1>3. \A p \in Requests : duty[p].op = "none"
  BY NoDutyTyped DEF MakeupInit
<1> QED
  BY <1>2, <1>3, FS_EmptySet DEF FamilyInv, FamiliesAreBooked, BookedFamily, LiveOnesAreKnown, Known, BooksWhereNoneIs

LEMMA FamiliesKeep ==
  ASSUME ~HasRowLocks, MakeupInv, MakeupInv', FamilyInv, [MakeupNext]_makeupVars
  PROVE  FamilyInv'
<1>1. ASSUME UNCHANGED makeupVars PROVE FamilyInv'
  <2>1. session' = session /\ madeFor' = madeFor /\ comp' = comp /\ duty' = duty /\ MakeupTypeInv'
    BY <1>1 DEF makeupVars, vars, tables, MakeupInv
  <2> QED
    BY <2>1, StillKnown
<1> QED
  BY <1>1, DutyKnown, BookingKnown, ElsewhereKnown DEF MakeupNext

\* "At most one live make-up per obligation" (compensation README, section 4):
\* however bookings, moves, cancellations and deletions interleave, without row
\* locks an obligation never stands on two sessions while lineageOf can follow
\* its moves, and no more are registered than the cap allows.
THEOREM MakeupsStayOne == ASSUME ~HasRowLocks PROVE MakeupSpec => []MakeupsHold
<1>1. MakeupInit => MakeupInv /\ FamilyInv
  BY MakeupStarts, FamiliesStart
<1>2. MakeupInv /\ FamilyInv /\ [MakeupNext]_makeupVars => (MakeupInv /\ FamilyInv)'
  BY MakeupKeeps, FamiliesKeep
<1>3. MakeupInv /\ FamilyInv => MakeupsHold
  BY KnownIsOne DEF MakeupInv, MakeupsHold
<1> QED
  BY <1>1, <1>2, <1>3, PTL DEF MakeupSpec
=============================================================================
