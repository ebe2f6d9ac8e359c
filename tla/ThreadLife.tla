----------------------------- MODULE ThreadLife -----------------------------
(***************************************************************************)
(* One thread as the engine's rules allow it to live: any command, from    *)
(* any device, provider or worker, in any order.  A step is one command    *)
(* decided and projected at once, which is what Engine shows its worker to *)
(* amount to.  The names are prefixed where the modules whose proofs use   *)
(* this one have their own.                                                *)
(***************************************************************************)
EXTENDS ThreadRules

VARIABLE lone   \* State.Threads[id], or NoThread

TLInit == lone = NoThread

\* process: a command is rejected, or its events are projected.
Handle(c) ==
    /\ Accepts(lone, c)
    /\ lone' = Apply(lone, Decide(lone, c))

\* A user deleted the conversation, log and all.
ForgetThread == lone' = NoThread

TLNext == (\E c \in Command : Handle(c)) \/ ForgetThread

TLSpec == TLInit /\ [][TLNext]_lone

-----------------------------------------------------------------------------
(***************************************************************************)
(* Properties.                                                             *)
(***************************************************************************)

\* The read model of a thread has its type.
TLTypeOK == lone \in Thread \cup {NoThread}

Lives == lone # NoThread

\* An archived conversation is at rest: no turn, no card, no plan on the table,
\* and no archiving half done.
ArchivedIsQuiet ==
    Lives /\ lone.archived =>
        /\ lone.status = "stopped" /\ ~lone.inFlight
        /\ lone.pending = {} /\ ~lone.plan /\ ~lone.archiving

\* A thread that says it waits on the user has something to wait for: otherwise
\* no click could ever take it out of `waiting'.
WaitingHasCard == Lives /\ lone.status = "waiting" => lone.pending # {}

\* The rules antigravity needs, whichever way a thread came to be on it: a mode
\* it supports, and never a second message merged into a running turn.
AntigravityIsHonest ==
    Lives /\ lone.instance \in Antigravity =>
        lone.mode \in AntigravityModes /\ ~lone.steered

\* A settled thread has no turn in flight; a leftover flag would refuse the next
\* message on antigravity and block an options restart elsewhere.
SettledHasNoTurn ==
    Lives /\ lone.status \in {"idle", "stopped"} /\ ~lone.deleted => ~lone.inFlight

\* The status tells the truth about the rest of the thread, whatever order
\* commands and late output came in.
StatusIsHonest == ArchivedIsQuiet /\ WaitingHasCard /\ SettledHasNoTurn

\* Whatever arrives late, an archived thread changes only by being resumed or
\* deleted.
ArchiveFreezes ==
    [][Lives /\ lone.archived =>
         lone' \in {NoThread, [lone EXCEPT !.deleted = TRUE],
                      [lone EXCEPT !.archived = FALSE, !.status = "idle"]}]_lone
=============================================================================
