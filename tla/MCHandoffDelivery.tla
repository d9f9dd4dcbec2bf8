------------------------- MODULE MCHandoffDelivery -------------------------
(* Connector runs of one adapter kind, which the registry tells apart by   *)
(* their tokens only.                                                      *)
EXTENDS HandoffDelivery, TLC

CONSTANT codex

MCKindOf == [p \in Pumps |-> codex]
MCSymmetry == Permutations(Requests) \cup Permutations(Pumps)
=============================================================================
