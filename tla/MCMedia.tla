------------------------------- MODULE MCMedia -------------------------------
(* Media for TLC: symmetric sets of requests, assets and owner columns. *)
EXTENDS Media, TLC

MCSymmetry ==
  Permutations(Requests) \cup Permutations(Assets) \cup Permutations(Owners)
=============================================================================
