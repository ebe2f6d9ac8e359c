-------------------------------- MODULE MCChat --------------------------------
(***************************************************************************)
(* One thread, in one pane or in two.                                      *)
(***************************************************************************)
EXTENDS ChatSync

CONSTANTS claude, left, right, ask, msg

MCInstances == {claude}
MCOnePane == {left}
MCTwoPanes == {left, right}
MCNoPicks == {}
MCQuestions == {ask}
MCTimes == 1..3
MCPicks == {"full-access"}
=============================================================================
