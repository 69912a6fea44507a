------------------------------- MODULE MCMakeups ------------------------------
(* Makeups for TLC: one class; two slots so that a make-up can be moved.     *)
EXTENDS Makeups, TLC

MCSlots ==
  {[date |-> d, from |-> 1, till |-> 2, room |-> "r1", teacher |-> "t1"] : d \in 1..2}

MCPlans == {[from |-> 1, till |-> 2, room |-> "r1", teacher |-> "t1"]}

Rooted == Classes \cup Ids \cup Students \cup {<<"cp", o>> : o \in Originals}

MCSymmetry == Permutations(Requests) \cup Permutations(ManualIds \ Originals)
                \cup Permutations(Originals)
=============================================================================
