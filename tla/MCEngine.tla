------------------------------ MODULE MCEngine ------------------------------
(***************************************************************************)
(* One thread and the commands around one card: it is created, asks, and   *)
(* is answered from two devices.  A client tries to create another thread  *)
(* on antigravity under a mode antigravity lacks, which must leave nothing *)
(* behind.                                                                 *)
(***************************************************************************)
EXTENDS Engine

CONSTANTS claude, agy, r, t1, t2, create, ask, click, click2, wrong

MCInstances == {claude, agy}
MCAntigravity == {agy}
MCRequests == {r}
MCTimes == {1}
MCThreads == {t1, t2}
MCCommands == {create, ask, click, click2, wrong}

On(t, c) == [thread |-> t, cmd |-> c]
Create(i, mode) == [type |-> "create", instance |-> i, mode |-> mode]

MCCommandOf ==
    [id \in MCCommands |->
        CASE id = create -> On(t1, Create(claude, None))
          [] id = ask -> On(t1, [type |-> "sessionSet", change |-> Asking(r), at |-> 0])
          [] id \in {click, click2} -> On(t1, [type |-> "respond", request |-> r])
          [] id = wrong -> On(t2, Create(agy, "approval-required"))]
=============================================================================
