---------------------------- MODULE DeliveryGate ----------------------------
(***************************************************************************)
(* What a development session promises about writing agents, with none of  *)
(* the leases, tokens and deadlines that bring it about: at most one       *)
(* handoff is in the hands of an agent at a time, handoffs are offered in  *)
(* order and never twice, and a delivery that could not be proved keeps    *)
(* the gate shut until the user has reviewed the workspace.                *)
(* Code: the contract of packages/dev-server/src/external-handoff/         *)
(* active-registry.ts.                                                     *)
(***************************************************************************)
EXTENDS Naturals

CONSTANT MaxTask    \* bound: handoffs offered

VARIABLES
  gate,   \* "open", "busy" with a task, "shut" until reviewed, or "closed" for good
  task    \* the newest handoff offered to an agent, 0 if none was

gateVars == <<gate, task>>

GateInit == gate = "open" /\ task = 0

Offer ==
  /\ gate = "open"
  /\ gate' = "busy"
  /\ task' \in (task + 1)..MaxTask

Settle == gate = "busy" /\ gate' = "open" /\ UNCHANGED task

Lose == gate = "busy" /\ gate' = "shut" /\ UNCHANGED task

Review == gate = "shut" /\ gate' = "open" /\ UNCHANGED task

\* Everything is forgotten with the session.
CloseGate == gate # "closed" /\ gate' = "closed" /\ task' = 0

GateNext == Offer \/ Settle \/ Lose \/ Review \/ CloseGate

GateSpec == GateInit /\ [][GateNext]_gateVars
=============================================================================
