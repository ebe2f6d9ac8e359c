----------------------------- MODULE MCToolCall -----------------------------
(***************************************************************************)
(* MCToolCall.cfg: a read and a write on one thread, and an operator who   *)
(* can send two commands.                                                  *)
(***************************************************************************)
EXTENDS ToolCall

CONSTANTS claude, read, write

MCInstances == {claude}
MCAntigravity == {}
MCRequests == {read, write}
MCTimes == {1}
MCMutating == {write}

MCModes == {"approval-required", "auto", "full-access"}
MCAnswers == {"acceptForSession", "decline"}
=============================================================================
