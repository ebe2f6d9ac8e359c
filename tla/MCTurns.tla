------------------------------- MODULE MCTurns -------------------------------
(***************************************************************************)
(* One thread, two agents, and an operator who sends three commands.       *)
(***************************************************************************)
EXTENDS Turns

CONSTANTS claude, codex

MCInstances == {claude, codex}
MCAntigravity == {}
MCRequests == {}
MCTimes == 1..5
=============================================================================
