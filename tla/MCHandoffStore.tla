--------------------------- MODULE MCHandoffStore ---------------------------
(* Three publish requests, two connectors and two clients that wait.       *)
EXTENDS HandoffStore, TLC

MCSymmetry ==
  Permutations(Requests) \cup Permutations(Receivers)
    \cup Permutations(Waiters)
=============================================================================
