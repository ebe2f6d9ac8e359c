---------------------------- MODULE MCThreadLife ----------------------------
(***************************************************************************)
(* A thread that can be on claude or on antigravity, with two requests and *)
(* two time stamps.                                                        *)
(***************************************************************************)
EXTENDS ThreadLife

CONSTANTS claude, agy, r1, r2

MCInstances == {claude, agy}
MCAntigravity == {agy}
MCRequests == {r1, r2}
MCTimes == {1, 2}
=============================================================================
