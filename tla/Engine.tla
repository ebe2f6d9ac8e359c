------------------------------- MODULE Engine -------------------------------
(***************************************************************************)
(* The command loop of the event-sourced engine                            *)
(* (backend/internal/agentcore/orchestration/engine.go) over its SQLite    *)
(* log (backend/internal/store/agentevent.go).  One worker goroutine takes *)
(* commands off a bounded queue; each store call and each critical section *)
(* is a step of its own, because DELETE handlers change the log and the    *)
(* memory underneath it, and the process may die between any two.          *)
(*                                                                         *)
(* Left out: publishing to subscribers, which drops rather than blocks and *)
(* so never holds the loop up; the sidebar table the commit also writes.   *)
(***************************************************************************)
EXTENDS ThreadRules, FiniteSets

CONSTANTS Threads,
          Commands,      \* command ids; a retry reuses one
          CommandOf,     \* CommandOf[id]: the thread it names and the command
          QueueSize      \* capacity of the queue; a further Dispatch blocks

ASSUME EngineAssumption ==
    /\ CommandOf \in [Commands -> [thread : Threads, cmd : Command]]
    /\ QueueSize \in Nat \ {0}
    /\ None \notin Commands

VARIABLES
    queue,      \* Engine.queue: the ids of the envelopes waiting
    worker,     \* where process stands with the command it holds
    mem,        \* mem[t]: Engine.state.Threads[t]
    rows,       \* rows[t]: t's committed batches, in order (table agent_event)
    disk,       \* disk[t]: what Apply makes of rows[t] (DiskIsReplay)
    receipts,   \* ids with a row in agent_command_receipt
    erasing,    \* threads a DELETE handler has erased but not yet forgotten;
                \* at most one handler per thread is in between
    acked,      \* history: ids some caller was told had committed, not erased since
    torn        \* history: threads whose DELETE was overtaken by a write

vars == <<queue, worker, mem, rows, disk, receipts, erasing, acked, torn>>

Idle == [stage |-> "idle", id |-> None, events |-> <<>>]
Stage == {"idle", "look", "decide", "commit", "swap"}

Target(id) == CommandOf[id].thread
Cmd(id) == CommandOf[id].cmd

Init ==
    /\ queue = <<>> /\ worker = Idle
    /\ mem = [t \in Threads |-> NoThread]
    /\ rows = [t \in Threads |-> <<>>]
    /\ disk = [t \in Threads |-> NoThread]
    /\ receipts = {} /\ erasing = {} /\ acked = {} /\ torn = {}

-----------------------------------------------------------------------------

\* Mutant of Dispatch: one envelope too many.
DispatchOver(id) ==
    /\ Len(queue) <= QueueSize
    /\ queue' = Append(queue, id)
    /\ UNCHANGED <<worker, mem, rows, disk, receipts, erasing, acked, torn>>

\* Dispatch: any caller, any number of times.  A caller that stops waiting
\* leaves its envelope behind, so giving up is not a step here.
Dispatch(id) ==
    /\ Len(queue) < QueueSize
    /\ queue' = Append(queue, id)
    /\ UNCHANGED <<worker, mem, rows, disk, receipts, erasing, acked, torn>>

\* Run: the worker takes the next envelope.
Take ==
    /\ worker = Idle /\ queue # <<>>
    /\ worker' = [Idle EXCEPT !.stage = "look", !.id = Head(queue)]
    /\ queue' = Tail(queue)
    /\ UNCHANGED <<mem, rows, disk, receipts, erasing, acked, torn>>

\* Mutant of SeenCommand: the receipt is not looked up.
SeenCommandNever ==
    /\ worker.stage = "look"
    /\ worker' = [worker EXCEPT !.stage = "decide"]
    /\ UNCHANGED <<queue, mem, rows, disk, receipts, erasing, acked, torn>>

\* process, 1: a command with a receipt is answered with the events it had.
SeenCommand ==
    /\ worker.stage = "look"
    /\ IF worker.id \in receipts
         THEN worker' = Idle /\ acked' = acked \cup {worker.id}
         ELSE worker' = [worker EXCEPT !.stage = "decide"] /\ UNCHANGED acked
    /\ UNCHANGED <<queue, mem, rows, disk, receipts, erasing, torn>>

\* Mutants of Decided: the rejection is ignored; the reply precedes the commit.
DecidedAnyway ==
    LET es == Decide(mem[Target(worker.id)], Cmd(worker.id)) IN
    /\ worker.stage = "decide"
    /\ Cmd(worker.id).type \in {"create", "sessionSet"} \/ mem[Target(worker.id)] # NoThread
    /\ worker' = IF es = <<>> THEN Idle ELSE [worker EXCEPT !.stage = "commit", !.events = es]
    /\ UNCHANGED <<queue, mem, rows, disk, receipts, erasing, acked, torn>>

DecidedAndAcked ==
    LET t == mem[Target(worker.id)]
        c == Cmd(worker.id)
        goesOn == Accepts(t, c) /\ Decide(t, c) # <<>>
    IN  /\ worker.stage = "decide"
        /\ worker' = IF goesOn
                       THEN [worker EXCEPT !.stage = "commit", !.events = Decide(t, c)]
                       ELSE Idle
        /\ acked' = IF goesOn THEN acked \cup {worker.id} ELSE acked
        /\ UNCHANGED <<queue, mem, rows, disk, receipts, erasing, torn>>

\* process, 2: Decide on the state as it is now; a rejected command, or one that
\* comes to nothing, ends here and leaves no receipt.
Decided ==
    LET t == mem[Target(worker.id)]
        c == Cmd(worker.id)
        goesOn == Accepts(t, c) /\ Decide(t, c) # <<>>
    IN  /\ worker.stage = "decide"
        /\ worker' = IF goesOn
                       THEN [worker EXCEPT !.stage = "commit", !.events = Decide(t, c)]
                       ELSE Idle
        /\ UNCHANGED <<queue, mem, rows, disk, receipts, erasing, acked, torn>>

\* process, 3: the events and the receipt, in one transaction.
Commit ==
    LET t == Target(worker.id) IN
    /\ worker.stage = "commit"
    /\ rows' = [rows EXCEPT ![t] = Append(@, [id |-> worker.id, events |-> worker.events])]
    /\ disk' = [disk EXCEPT ![t] = Apply(@, worker.events)]
    /\ receipts' = receipts \cup {worker.id}
    /\ worker' = [worker EXCEPT !.stage = "swap"]
    /\ UNCHANGED <<queue, mem, erasing, acked, torn>>

\* Mutant of CommitFails: the state is swapped all the same.
CommitFailsUnnoticed ==
    /\ worker.stage = "commit"
    /\ worker' = [worker EXCEPT !.stage = "swap"]
    /\ UNCHANGED <<queue, mem, rows, disk, receipts, erasing, acked, torn>>

\* process, 3, when the store fails: the transaction rolls back.
CommitFails ==
    /\ worker.stage = "commit"
    /\ worker' = Idle
    /\ UNCHANGED <<queue, mem, rows, disk, receipts, erasing, acked, torn>>

\* process, 4: swap the state, then reply.  The thread may have been erased
\* since the commit; what a caller then holds is no acknowledgement any more.
Swap ==
    LET t == Target(worker.id) IN
    /\ worker.stage = "swap"
    /\ mem' = [mem EXCEPT ![t] = Apply(@, worker.events)]
    /\ acked' = IF worker.id \in receipts THEN acked \cup {worker.id} ELSE acked
    /\ worker' = Idle
    /\ UNCHANGED <<queue, rows, disk, receipts, erasing, torn>>

\* DeleteThread, the store half: rows and receipts go in one transaction.
Erase(t) ==
    /\ t \notin erasing
    /\ rows' = [rows EXCEPT ![t] = <<>>]
    /\ disk' = [disk EXCEPT ![t] = NoThread]
    /\ receipts' = {id \in receipts : Target(id) # t}
    /\ acked' = {id \in acked : Target(id) # t}
    /\ erasing' = erasing \cup {t}
    /\ UNCHANGED <<queue, worker, mem, torn>>

\* The worker has committed to t and not yet swapped.
Swapping(t) == worker.stage = "swap" /\ Target(worker.id) = t

\* DeleteThread, the engine half: ForgetThread.  If a write got in between the
\* halves, or is half done itself, memory and log part ways.
Forget(t) ==
    /\ t \in erasing
    /\ mem' = [mem EXCEPT ![t] = NoThread]
    /\ erasing' = erasing \ {t}
    /\ torn' = IF disk[t] # NoThread \/ Swapping(t) THEN torn \cup {t} ELSE torn
    /\ UNCHANGED <<queue, worker, rows, disk, receipts, acked>>

\* The process dies and boots: the log is replayed into an empty state.
Reboot ==
    /\ queue' = <<>> /\ worker' = Idle /\ erasing' = {}
    /\ mem' = disk
    /\ UNCHANGED <<rows, disk, receipts, acked, torn>>

WorkerStep == Take \/ SeenCommand \/ Decided \/ Commit \/ CommitFails \/ Swap

Next ==
    \/ \E id \in Commands : Dispatch(id)
    \/ WorkerStep
    \/ \E t \in Threads : Erase(t) \/ Forget(t)
    \/ Reboot

Spec == Init /\ [][Next]_vars

-----------------------------------------------------------------------------
(***************************************************************************)
(* Properties.                                                             *)
(***************************************************************************)

\* The loop's state has its type.
TypeOK ==
    /\ queue \in Seq(Commands) /\ Len(queue) <= QueueSize
    /\ worker.stage \in Stage
    /\ worker.stage = "idle" => worker = Idle
    /\ worker.stage # "idle" => worker.id \in Commands
    /\ mem \in [Threads -> Thread \cup {NoThread}]
    /\ disk \in [Threads -> Thread \cup {NoThread}]
    /\ DOMAIN rows = Threads
    /\ receipts \subseteq Commands /\ acked \subseteq Commands
    /\ erasing \subseteq Threads /\ torn \subseteq Threads

\* Replaying t's rows batch by batch, as boot does.
Replay(t) ==
    LET after[n \in 0..Len(rows[t])] ==
            IF n = 0 THEN NoThread ELSE Apply(after[n - 1], rows[t][n].events)
    IN  after[Len(rows[t])]

\* `disk' is the log's meaning: what a reboot would rebuild.
DiskIsReplay == \A t \in Threads : disk[t] = Replay(t)

\* Memory is what the log says, whatever was lost, retried, erased or restarted,
\* except while a commit waits for its swap or a DELETE is half done, and for
\* threads whose DELETE a write overtook.
MemoryMatchesLog ==
    \A t \in Threads \ (erasing \cup torn) : ~Swapping(t) => mem[t] = disk[t]

\* A command runs at most once however often it is sent: one batch per id, and
\* a batch exactly when there is a receipt.
RunsAtMostOnce ==
    \A t \in Threads :
        /\ \A i, j \in DOMAIN rows[t] : rows[t][i].id = rows[t][j].id => i = j
        /\ {rows[t][i].id : i \in DOMAIN rows[t]} = {id \in receipts : Target(id) = t}

\* What a caller was told has happened is in the log, so a crash cannot undo it;
\* only erasing the conversation can.
AckedIsDurable == acked \subseteq receipts

\* One answer per card: between two answers to a request in a thread's history
\* the card was raised again, so no second device's click is recorded twice.
AnswersFollowCards ==
    \A t \in Threads : \A i, j \in DOMAIN rows[t] :
        LET answer == Cmd(rows[t][i].id) IN
        /\ i < j
        /\ answer.type = "respond" /\ Cmd(rows[t][j].id) = answer
        => \E k \in i..j : /\ Cmd(rows[t][k].id).type = "sessionSet"
                           /\ Cmd(rows[t][k].id).change.add = answer.request

\* The log is one a boot can trust: it replays to what was committed, and no
\* card in it is answered twice.
LogIsSound == DiskIsReplay /\ AnswersFollowCards

\* ForgetThread's comment: `this re-establishes "State == Apply(log)"'.
StateIsTheLog ==
    \A t \in Threads \ erasing : ~Swapping(t) => mem[t] = disk[t]

\* A torn thread is counted as forgotten.
LiveThread(t) == IF t \in torn THEN NoThread ELSE mem[t]

Life(t) == INSTANCE ThreadLife WITH lone <- LiveThread(t)

\* Every thread in memory lives by ThreadLife's rules: the loop, with its store
\* calls, crashes and deletes in between, amounts to one command at a time.
ThreadsLive ==
    /\ \A t \in Threads : Life(t)!TLInit
    /\ [][\A t \in Threads : [Life(t)!TLNext]_(LiveThread(t))]_vars
=============================================================================
