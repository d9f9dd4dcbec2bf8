--------------------------- MODULE MCManagedAgent ---------------------------
(* A page that connects, switches the model, cancels and disconnects.      *)
EXTENDS ManagedAgent

CONSTANTS r1, r2, r3, r4

MCAsked ==
  [r \in Requests |->
     CASE r = r1 -> [kind |-> "connect", revision |-> 0]
       [] r = r2 -> [kind |-> "cancel", revision |-> 1]
       [] r = r3 -> [kind |-> "revoke", revision |-> 0]
       [] r = r4 -> [kind |-> "switch", revision |-> 0]]
=============================================================================
