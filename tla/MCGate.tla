------------------------------- MODULE MCGate -------------------------------
(***************************************************************************)
(* The smallest instance with both classes of request, both kinds of asker *)
(* and two threads: a read a goroutine awaits, and on another thread a     *)
(* mutating card that a provider raised and nobody awaits.                 *)
(***************************************************************************)
EXTENDS Gate

CONSTANTS read, card, t1, t2

MCRequests == {read, card}
MCThreads == {t1, t2}
MCOwner == [r \in MCRequests |-> IF r = read THEN t1 ELSE t2]
MCWaited == {read}

\* The gate tells apart only "accept for session" from the other answers, and
\* the two modes between "ask" and "full access" release the same cards.
MCAnswers == {"acceptForSession", "decline"}
MCModes == {"approval-required", "auto", "full-access"}
=============================================================================
