--------------------------------- MODULE Turns ---------------------------------
(***************************************************************************)
(* The turns of one chat thread and the agent processes that run them:     *)
(* Reactor.react with ensureSession, which start and end a provider's      *)
(* session for the thread; the adapter, which queues what the process says *)
(* and says when it dies (provider/claude/adapter.go); and Ingestion, one  *)
(* Consume goroutine per instance, which looks at the thread first and     *)
(* dispatches a command for the event afterwards (workers.go).             *)
(*                                                                         *)
(* A command is decided, committed and projected in one step (Engine).     *)
(* Approvals are ToolCall's.  Of a session's options only that they may    *)
(* differ is kept; events that leave the thread's turn alone are left out. *)
(***************************************************************************)
EXTENDS ThreadRules

CONSTANTS ChannelSize,   \* room in an adapter's event channel
          MaxCommands    \* bound: commands the operator sends

\* An archive moves the clock on by one.
ASSUME TurnsAssumption ==
    /\ ChannelSize \in Nat \ {0} /\ MaxCommands \in Nat
    /\ 1..(MaxCommands + 1) \subseteq Times

VARIABLES
    thread,      \* State.Threads[id]
    inbox,       \* what the Reactor has yet to do, the rest of a reaction first
    bound,       \* ThreadDirectory: the instance the thread is bound to
    session,     \* session[i]: the adapter's session for the thread
    from,        \* from[i]: the cursor session[i] was started with
    turns,       \* turns[i]: how many turns session[i] has been given and not ended
    out,         \* out[i]: the adapter's event channel
    hand,        \* hand[i]: the command Consume is about to dispatch
    clock,       \* time, as far as archive cutoffs can tell
    commands,    \* how many commands the operator has sent
    lost         \* history: what became of the end of the turn in flight

vars == <<thread, inbox, bound, session, from, turns, out, hand, clock, commands, lost>>
processes == <<session, from, turns>>

-----------------------------------------------------------------------------

\* fresh: has not announced itself; condemned: told to stop, not known to have.
Stage == {"none", "fresh", "live", "condemned"}

\* What a process says: its session's id, the end of a turn, its own end.
Word == [type : {"started", "ended", "exited"}, at : Times]

\* Dropped by a full channel, swallowed by an archive, killed without a word.
Loss == {"no", "dropped", "swallowed", "silenced"}

\* What the Reactor has to do: what an event asks for, and (from begin on) the
\* rest of a reaction under way.
Intent ==
    [type : {"ensure"}, instance : Instances \cup {None}, send : BOOLEAN]
    \cup [type : {"begin"}, instance : Instances, cursor : Instances \cup {None}, send : BOOLEAN]
    \cup [type : {"send", "interrupt", "stop", "archive", "archiveComplete", "archiveFailed"}]
    \cup [type : {"settle"}, change : {Settling("idle", None), Stopping}]

\* Engine.Dispatch, seen from outside.
Dispatched(c) == IF Accepts(thread, c) THEN Apply(thread, Decide(thread, c)) ELSE thread
SessionSetting(change, at) == [type |-> "sessionSet", change |-> change, at |-> at]

HasSession(i) == session[i] # "none"
NoHand == [change |-> NoChange, at |-> 0]

Init ==
    /\ \E i \in Instances :
          thread = NewThread([type |-> "created", instance |-> i, mode |-> "auto"])
    /\ inbox = <<[type |-> "ensure", instance |-> None, send |-> FALSE]>>
    /\ bound = None
    /\ session = [i \in Instances |-> "none"] /\ from = [i \in Instances |-> None]
    /\ turns = [i \in Instances |-> 0]
    /\ out = [i \in Instances |-> <<>>] /\ hand = [i \in Instances |-> NoHand]
    /\ clock = 1 /\ commands = 0 /\ lost = "no"

-----------------------------------------------------------------------------
(***************************************************************************)
(* The operator.                                                           *)
(***************************************************************************)

Order(c, intents) ==
    /\ commands < MaxCommands
    /\ Accepts(thread, c)
    /\ commands' = commands + 1
    /\ thread' = Apply(thread, Decide(thread, c))
    /\ inbox' = inbox \o intents
    /\ UNCHANGED <<bound, processes, out, hand, clock>>

\* A message, to the thread's agent or to one picked in the composer.
TurnStart(i) ==
    /\ Order([type |-> "turnStart", instance |-> i],
             <<[type |-> "ensure", instance |-> i, send |-> TRUE]>>)
    /\ lost' = "no"

Interrupt == Order([type |-> "turnInterrupt"], <<[type |-> "interrupt"]>>) /\ UNCHANGED lost
Stop == Order([type |-> "sessionStop"], <<[type |-> "stop"]>>) /\ UNCHANGED lost
Resume == thread.archived /\ Order([type |-> "resume"], <<>>) /\ UNCHANGED lost
Archive ==
    /\ ~Closed(thread)
    /\ Order([type |-> "archive"], <<[type |-> "archive"]>>)
    /\ UNCHANGED lost

-----------------------------------------------------------------------------
(***************************************************************************)
(* The processes.                                                          *)
(***************************************************************************)

\* Mutant of Emit: the channel is taken to be endless.
EmitAlways(i, word) ==
    /\ out' = [out EXCEPT ![i] = Append(@, [type |-> word, at |-> clock])]
    /\ UNCHANGED lost

\* emit: never blocks; a full channel drops the event.
Emit(i, word) ==
    LET room == Len(out[i]) < ChannelSize IN
    /\ out' = IF room THEN [out EXCEPT ![i] = Append(@, [type |-> word, at |-> clock])] ELSE out
    /\ lost' = IF room \/ word = "started" \/ thread.instance # i THEN lost ELSE "dropped"

\* The process announces its conversation.
Announce(i) ==
    /\ session[i] = "fresh"
    /\ session' = [session EXCEPT ![i] = "live"]
    /\ Emit(i, "started")
    /\ UNCHANGED <<thread, inbox, bound, from, turns, hand, clock, commands>>

\* A turn is over, completed or aborted, and with it the messages that steered it.
EndTurn(i) ==
    /\ \E n \in 0..turns[i] : n < turns[i] /\ turns' = [turns EXCEPT ![i] = n]
    /\ Emit(i, "ended")
    /\ UNCHANGED <<thread, inbox, bound, session, from, hand, clock, commands>>

Ended(i) ==
    /\ session' = [session EXCEPT ![i] = "none"]
    /\ from' = [from EXCEPT ![i] = None]
    /\ turns' = [turns EXCEPT ![i] = 0]

\* Mutant of Die: every exit is taken for a stop somebody asked for.
DieSilently(i) ==
    /\ HasSession(i)
    /\ Ended(i)
    /\ UNCHANGED <<thread, inbox, bound, out, hand, clock, commands, lost>>

\* readLoop's end: the session is deleted, and the exit reported unless somebody
\* had asked for it.
Die(i) ==
    /\ HasSession(i)
    /\ Ended(i)
    /\ IF session[i] = "condemned"
         THEN /\ lost' = IF turns[i] > 0 THEN "silenced" ELSE lost
              /\ UNCHANGED out
         ELSE Emit(i, "exited")
    /\ UNCHANGED <<thread, inbox, bound, hand, clock, commands>>

-----------------------------------------------------------------------------
(***************************************************************************)
(* Ingestion.                                                              *)
(***************************************************************************)

\* What handle makes of a word of instance i.
Meaning(i, word) ==
    CASE word = "started" ->
            Settling(IF i \in Antigravity /\ ~thread.inFlight THEN "idle" ELSE "running", i)
      [] word = "ended" -> Settling("idle", None)
      [] word = "exited" -> Stopping

\* What handle drops: another provider's output, and output from before an archive.
Muffled(i, at) == thread.instance # i \/ Closed(thread) \/ at <= thread.cutoff

\* Consume takes an event, and handle looks at the thread.
Look(i) ==
    LET e == Head(out[i]) IN
    /\ out[i] # <<>> /\ hand[i] = NoHand
    /\ out' = [out EXCEPT ![i] = Tail(@)]
    /\ IF Muffled(i, e.at)
         THEN /\ lost' = IF thread.instance = i /\ thread.archiving /\ e.type # "started"
                           THEN "swallowed" ELSE lost
              /\ UNCHANGED hand
         ELSE /\ hand' = [hand EXCEPT ![i] = [change |-> Meaning(i, e.type), at |-> e.at]]
              /\ UNCHANGED lost
    /\ UNCHANGED <<thread, inbox, bound, processes, clock, commands>>

\* dispatchProvider, when whatever handle had to write before it is written.
Deliver(i) ==
    /\ hand[i] # NoHand
    /\ thread' = Dispatched(SessionSetting(hand[i].change, hand[i].at))
    /\ hand' = [hand EXCEPT ![i] = NoHand]
    /\ lost' = IF thread.archiving /\ hand[i].change.status # "running" THEN "swallowed" ELSE lost
    /\ UNCHANGED <<inbox, bound, processes, out, clock, commands>>

-----------------------------------------------------------------------------
(***************************************************************************)
(* The Reactor.                                                            *)
(***************************************************************************)

First(type) == inbox # <<>> /\ Head(inbox).type = type
Continue(next) == inbox' = <<next>> \o Tail(inbox)

\* reportError: whatever failed, the thread does not go on running.
Fail == Continue([type |-> "settle", change |-> Settling("idle", None)])

\* StopSession waits for the process to be gone, and then nothing it said is
\* still to come.
StopSession(i) == IF i # None /\ HasSession(i) THEN Ended(i) ELSE UNCHANGED processes

\* The stop failed or timed out: the process may or may not go yet, unannounced.
StopSessionFails(i) ==
    /\ i # None /\ HasSession(i)
    /\ \E s \in {session[i], "condemned"} : session' = [session EXCEPT ![i] = s]
    /\ UNCHANGED <<from, turns>>

\* The instance a message names, or the thread's.
Wanted(e) == IF e.instance = None THEN thread.instance ELSE e.instance

\* On with the turn: there is a session for it.
Proceed(e) == inbox' = (IF e.send THEN <<[type |-> "send"]>> ELSE <<>>) \o Tail(inbox)

StartWith(e, cursor) ==
    Continue([type |-> "begin", instance |-> Wanted(e), send |-> e.send, cursor |-> cursor])

\* Mutant of Ensure: the provider the thread leaves is not stopped.
EnsureBeside ==
    LET e == Head(inbox)
        id == Wanted(e)
    IN  /\ First("ensure")
        /\ IF bound = id /\ HasSession(id) THEN Proceed(e)
           ELSE StartWith(e, IF bound \in {None, id} THEN thread.cursor ELSE None)
        /\ UNCHANGED <<thread, bound, processes, out, hand, clock, commands, lost>>

\* ensureSession, up to the start: a live session of the wanted instance will do,
\* unless the message brings other options and the thread is not being steered, when
\* it is stopped and resumed if there was an earlier turn; a session of another
\* instance is stopped, and its cursor not used.  Any message may bring other options.
Ensure ==
    LET e == Head(inbox)
        id == Wanted(e)
        running == bound = id /\ HasSession(id)
    IN  /\ First("ensure")
        /\ \/ running /\ Proceed(e) /\ UNCHANGED processes
           \/ /\ running /\ ~thread.steered
              /\ StopSession(id)
              /\ \E cursor \in {None, thread.cursor} : StartWith(e, cursor)
           \/ /\ ~running
              /\ IF bound # id THEN StopSession(bound) ELSE UNCHANGED processes
              /\ StartWith(e, IF bound \in {None, id} THEN thread.cursor ELSE None)
           \/ /\ bound # id \/ (running /\ ~thread.steered)
              /\ StopSessionFails(bound) /\ Fail
        /\ UNCHANGED <<thread, bound, out, hand, clock, commands, lost>>

\* The instance does not start, or StartSession fails on the instance just bound.
BeginFails ==
    /\ First("begin")
    /\ bound' \in {bound, Head(inbox).instance}
    /\ Fail
    /\ UNCHANGED <<thread, processes, out, hand, clock, commands, lost>>

\* Bind, then StartSession.
Begin ==
    LET e == Head(inbox) IN
    /\ First("begin")
    /\ bound' = e.instance
    /\ session' = [session EXCEPT ![e.instance] = "fresh"]
    /\ from' = [from EXCEPT ![e.instance] = e.cursor]
    /\ turns' = [turns EXCEPT ![e.instance] = 0]
    /\ Proceed(e)
    /\ UNCHANGED <<thread, out, hand, clock, commands, lost>>

\* SendTurn: the process gets the message, or there is none to get it.
Send ==
    /\ First("send")
    /\ \/ /\ HasSession(bound)
          /\ turns' = [turns EXCEPT ![bound] = @ + 1]
          /\ inbox' = Tail(inbox)
       \/ Fail /\ UNCHANGED turns
    /\ UNCHANGED <<thread, bound, session, from, out, hand, clock, commands, lost>>

\* InterruptTurn only asks; the thread is settled whatever comes of it.
ReactInterrupt ==
    /\ First("interrupt") /\ Fail
    /\ UNCHANGED <<thread, bound, processes, out, hand, clock, commands, lost>>

\* A thread without a session is an error to stop, and ends idle.
ReactStop ==
    /\ First("stop")
    /\ \/ /\ bound # None /\ StopSession(bound)
          /\ Continue([type |-> "settle", change |-> Stopping])
       \/ bound = None /\ UNCHANGED processes /\ Fail
       \/ StopSessionFails(bound) /\ Fail
    /\ UNCHANGED <<thread, bound, out, hand, clock, commands, lost>>

\* Mutant of ReactArchive: the turn is interrupted and the session left to idle.
ReactArchiveLoosely ==
    /\ First("archive")
    /\ Continue([type |-> "archiveComplete"])
    /\ UNCHANGED <<thread, bound, processes, out, hand, clock, commands, lost>>

\* Within thirty seconds: interrupt, stop the session, and then complete.
ReactArchive ==
    /\ First("archive")
    /\ \/ StopSession(bound) /\ Continue([type |-> "archiveComplete"])
       \/ StopSessionFails(bound) /\ Continue([type |-> "archiveFailed"])
    /\ UNCHANGED <<thread, bound, out, hand, clock, commands, lost>>

\* The last command of a reaction.
Settle ==
    /\ First("settle")
    /\ thread' = Dispatched(SessionSetting(Head(inbox).change, 0))
    /\ inbox' = Tail(inbox)
    /\ UNCHANGED <<bound, processes, out, hand, clock, commands, lost>>

ArchiveFailed ==
    /\ First("archiveFailed")
    /\ thread' = Dispatched([type |-> "archiveFailed"])
    /\ inbox' = Tail(inbox)
    /\ UNCHANGED <<bound, processes, out, hand, clock, commands, lost>>

\* The cutoff is the time at which the Reactor dispatches it.
ArchiveComplete ==
    /\ First("archiveComplete")
    /\ thread' = Dispatched([type |-> "archiveComplete", cutoff |-> clock])
    /\ clock' = clock + 1
    /\ inbox' = Tail(inbox)
    /\ UNCHANGED <<bound, processes, out, hand, commands, lost>>

React ==
    \/ Ensure \/ Begin \/ BeginFails \/ Send \/ ReactInterrupt \/ ReactStop \/ ReactArchive
    \/ Settle \/ ArchiveFailed \/ ArchiveComplete

\* The program dies, and its processes with it; ReconcileOrphanedThreads closes
\* what its thread left open before the Reactor starts.
Reboot ==
    /\ inbox' = <<>> /\ bound' = None
    /\ session' = [i \in Instances |-> "none"] /\ from' = [i \in Instances |-> None]
    /\ turns' = [i \in Instances |-> 0]
    /\ out' = [i \in Instances |-> <<>>] /\ hand' = [i \in Instances |-> NoHand]
    /\ thread' = IF thread.archiving
                   THEN Dispatched([type |-> "archiveComplete", cutoff |-> clock])
                 ELSE IF thread.archived \/ thread.status \notin {"running", "waiting"} THEN thread
                 ELSE Dispatched(SessionSetting(Reconciling, 0))
    /\ clock' = IF thread.archiving THEN clock + 1 ELSE clock
    /\ UNCHANGED <<commands, lost>>

-----------------------------------------------------------------------------

Next ==
    \/ \E i \in Instances \cup {None} : TurnStart(i)
    \/ Interrupt \/ Stop \/ Archive \/ Resume
    \/ \E i \in Instances : Announce(i) \/ EndTurn(i) \/ Die(i) \/ Look(i) \/ Deliver(i)
    \/ React \/ Reboot

Spec == Init /\ [][Next]_vars

-----------------------------------------------------------------------------
(***************************************************************************)
(* Properties.                                                             *)
(***************************************************************************)

\* The thread, the inbox, the sessions and the events have their types.
TypeOK ==
    /\ thread \in Thread
    /\ inbox \in Seq(Intent)
    /\ bound \in Instances \cup {None}
    /\ session \in [Instances -> Stage]
    /\ from \in [Instances -> Instances \cup {None}]
    /\ turns \in [Instances -> Nat]
    /\ out \in [Instances -> Seq(Word)] /\ \A i \in Instances : Len(out[i]) <= ChannelSize
    /\ hand \in [Instances -> [change : SessionChanges \cup {NoChange}, at : Times \cup {0}]]
    /\ clock \in Times /\ commands \in 0..MaxCommands
    /\ lost \in Loss

\* What is still going to take the thread out of its turn.
Settles ==
    \/ turns[thread.instance] > 0
    \/ \E n \in DOMAIN inbox :
          \/ inbox[n].type \in {"send", "interrupt", "stop", "settle"}
          \/ inbox[n].type \in {"ensure", "begin"} /\ inbox[n].send
    \/ \E n \in DOMAIN out[thread.instance] :
          LET e == out[thread.instance][n] IN e.type # "started" /\ e.at > thread.cutoff
    \/ \E i \in Instances : hand[i] # NoHand /\ hand[i].change.status \in {"idle", "stopped"}

\* No turn that nobody ends: a thread shown in a turn has a process at work on
\* it, or something that will settle it is on its way, unless the word that
\* would have was dropped, swallowed by an archive that then failed, or never
\* said.  (A composer stuck on Stop, `with no way back', is what reportError and
\* the interrupt are written against.)
TurnsEnd == thread.inFlight /\ ~Closed(thread) => Settles \/ lost # "no"

\* One agent at a time: a process runs for the thread only on the instance it is
\* bound to, through every switch of agents and every failed start or stop.
OneSession == \A i \in Instances : HasSession(i) => bound = i

\* An archived thread has no process.
ArchivedHasNoProcess == thread.archived => \A i \in Instances : ~HasSession(i)

\* A session is started with a cursor of its own instance: engine.go, `a native
\* conversation belongs to one provider; never resume another CLI's ID.'
ResumesOwn == \A i \in Instances : from[i] \in {None, i}

\* Output from before an archive leaves the resumed thread alone, also when
\* handle had looked at it before.
ArchiveCutsOff ==
    [][\A i \in Instances : Deliver(i) /\ hand[i].at <= thread.cutoff => UNCHANGED thread]_vars
=============================================================================
