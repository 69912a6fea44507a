----------------------------- MODULE MCScheduling -----------------------------
(***************************************************************************)
(* Scheduling for TLC.  Two bookings on two days: the first clashes with   *)
(* one recurrence by teacher, the second with the other by room and        *)
(* overlap and with the first by both.  The recurrences share the start,   *)
(* so switching between them keeps the generated ids and changes their     *)
(* content, and a generation writes one row or two.                        *)
(***************************************************************************)
EXTENDS Scheduling, TLC

MCBookings ==
  {[date |-> 1, from |-> 1, till |-> 2, room |-> "r2", teacher |-> "t1"],
   [date |-> 2, from |-> 1, till |-> 2, room |-> "r1", teacher |-> "t1"]}

MCOneBooking ==
  {[date |-> 1, from |-> 1, till |-> 2, room |-> "r1", teacher |-> "t1"]}

MCPlans ==
  {[from |-> 1, till |-> 2, room |-> "r1", teacher |-> "t1"],
   [from |-> 1, till |-> 3, room |-> "r1", teacher |-> "t2"]}

MCOnePlan == {[from |-> 1, till |-> 2, room |-> "r1", teacher |-> "t1"]}

Rooted == Classes \cup Ids \cup Students

MCSymmetry ==
  Permutations(Requests) \cup Permutations(ManualIds) \cup Permutations(Students)
=============================================================================
