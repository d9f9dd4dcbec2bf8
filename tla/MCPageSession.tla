---------------------------- MODULE MCPageSession ----------------------------
(* PageSession for TLC: a page with the writing agent and questions, and   *)
(* one with the handoff, where two elements can be selected.               *)
EXTENDS PageSession

Pages ==
  {[extensions |-> {"ai", "ask"}, maxTargets |-> 1],
   [extensions |-> {"handoff"}, maxTargets |-> 2]}
=============================================================================
