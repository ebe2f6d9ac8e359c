------------------------------- MODULE ToolCall -------------------------------
(***************************************************************************)
(* One chat thread, the tool calls its agent makes through DevDeck's own   *)
(* SSH tools, and the operator: service/ssh_tool.go (authorize),           *)
(* orchestration/toolprompt.go (Ask), the parts of Ingestion.handle and of *)
(* Reactor.react an approval passes through (workers.go), and the gate.    *)
(*                                                                         *)
(* A call's goroutine opens a card on the thread and parks on the gate;    *)
(* the operator's commands change the thread at once, and the Reactor, one *)
(* goroutine behind a queue, carries them to the gate later.               *)
(*                                                                         *)
(* A command is decided, committed and projected in one step: that is what *)
(* Engine shows the command loop to amount to.  The gate is reduced to     *)
(* what ApprovalPromise says of it.  Turns and the provider's own events   *)
(* are left out: the thread is in a turn throughout.                       *)
(***************************************************************************)
EXTENDS ThreadRules

CONSTANTS Mutating,      \* the calls (named by their request id) that change the host
          Modes,         \* the runtime modes the operator switches between
          Answers,       \* the decisions the operator gives
          MaxCommands    \* bound: commands the operator sends

ASSUME ToolCallAssumption ==
    /\ Mutating \subseteq Requests
    /\ Modes \subseteq RuntimeMode /\ Answers \subseteq Decision
    /\ None \notin Decision
    /\ MaxCommands \in Nat

VARIABLES
    thread,      \* State.Threads[id]
    inbox,       \* the intents the Reactor has yet to react to
    gate,        \* gate[r]: "absent", "open", or the decision on record
    granted,     \* Gate.sessionAccepted
    call,        \* call[r]: where the goroutine of call r stands
    decision,    \* decision[r]: what Ask is about to return
    commands,    \* how many commands the operator has sent
    clicked,     \* history: the answer the engine accepted for r's card
    inForce,     \* history: the modes the thread has had since r read its mode
    lagging,     \* history: the modes then committed but not yet reacted to
    lost         \* history: what kept r's card from being opened or closed

vars == <<thread, inbox, gate, granted, call, decision, commands,
          clicked, inForce, lagging, lost>>
history == <<clicked, inForce, lagging, lost>>

-----------------------------------------------------------------------------

\* none -> (authorize) ran, or: look -> open -> card -> await -> parked ->
\* close -> retire -> ran or refused.
Stage == {"none", "look", "open", "card", "await", "parked", "close", "retire", "ran", "refused"}

\* Between authorize and its return.
Underway(r) == call[r] \notin {"none", "ran", "refused"}

Loss == {"no", "cutShort", "noCard", "fenced", "reboot"}

\* What the Reactor has to react to.  The last three are the ends of a longer
\* reaction, which the Reactor finishes before it takes the next intent.
Intent ==
    [type : {"respond"}, request : Requests, decision : Decision]
    \cup [type : {"mode"}, mode : RuntimeMode]
    \cup [type : {"interrupt", "stop", "archive"}]
    \cup [type : {"settle"}, change : {Settling("idle", None), Stopping}]
    \cup [type : {"archiveComplete", "archiveFailed"}]

\* Engine.Dispatch, seen from outside.
Dispatched(c) == IF Accepts(thread, c) THEN Apply(thread, Decide(thread, c)) ELSE thread
SessionSetting(change) == [type |-> "sessionSet", change |-> change, at |-> 0]

Init ==
    /\ \E i \in Instances, m \in Modes :
          /\ i \in Antigravity => m \in AntigravityModes
          /\ thread = [NewThread([type |-> "created", instance |-> i, mode |-> m])
                         EXCEPT !.status = "running", !.inFlight = TRUE]
    /\ inbox = <<>> /\ granted = FALSE /\ commands = 0
    /\ gate = [r \in Requests |-> "absent"]
    /\ call = [r \in Requests |-> "none"]
    /\ decision = [r \in Requests |-> None]
    /\ clicked = [r \in Requests |-> None]
    /\ inForce = [r \in Requests |-> {}] /\ lagging = [r \in Requests |-> {}]
    /\ lost = [r \in Requests |-> "no"]

-----------------------------------------------------------------------------
(***************************************************************************)
(* A tool call.                                                            *)
(***************************************************************************)

Goes(r, stage) == call' = [call EXCEPT ![r] = stage]

\* authorize: run at once, or ask.
Authorize(r) ==
    LET unprompted == \/ AllowsUnprompted(thread.mode, r \in Mutating)
                      \/ r \in Mutating /\ SessionShortcutApplies(thread.mode) /\ granted
    IN  /\ call[r] = "none"
        /\ Goes(r, IF unprompted THEN "ran" ELSE "look")
        /\ inForce' = [inForce EXCEPT ![r] = {thread.mode}]
        /\ lagging' = [lagging EXCEPT ![r] =
                         {inbox[i].mode : i \in {j \in DOMAIN inbox : inbox[j].type = "mode"}}]
        /\ UNCHANGED <<thread, inbox, gate, granted, decision, commands, clicked, lost>>

\* Ask injects RequestOpened, and handle first looks at the thread: on a closed
\* one the event is dropped, without an error.
Look(r) ==
    /\ call[r] = "look"
    /\ Goes(r, IF Closed(thread) THEN "await" ELSE "open")
    /\ lost' = [lost EXCEPT ![r] = IF Closed(thread) THEN "noCard" ELSE @]
    /\ UNCHANGED <<thread, inbox, gate, granted, decision, commands, clicked, inForce, lagging>>

\* handle: Broker.Open, once the thread's buffered text is flushed.
OpenOnGate(r) ==
    /\ call[r] = "open"
    /\ gate' = [gate EXCEPT ![r] = "open"]
    /\ Goes(r, "card")
    /\ UNCHANGED <<thread, inbox, granted, decision, commands, history>>

\* handle: the activity, then the session-set that puts the card on the thread.
OpenCard(r) ==
    /\ call[r] = "card"
    /\ thread' = Dispatched(SessionSetting(Asking(r)))
    /\ Goes(r, "await")
    /\ lost' = [lost EXCEPT ![r] = IF Closed(thread) THEN "noCard" ELSE @]
    /\ UNCHANGED <<inbox, gate, granted, decision, commands, clicked, inForce, lagging>>

\* The caller goes away while Ask is injecting: Dispatch returns its context's
\* error, whether or not the engine still runs the command, and Ask returns.
CutShort(r) ==
    /\ call[r] \in {"open", "card"}
    /\ thread' \in {thread, Dispatched(SessionSetting(Asking(r)))}
    /\ call[r] = "open" => thread' = thread
    /\ Goes(r, "refused")
    /\ lost' = [lost EXCEPT ![r] = "cutShort"]
    /\ UNCHANGED <<inbox, gate, granted, decision, commands, clicked, inForce, lagging>>

\* AwaitClass: take the decision that is there, or park.
Await(r) ==
    /\ call[r] = "await"
    /\ IF gate[r] \in Decision
         THEN /\ decision' = [decision EXCEPT ![r] = gate[r]]
              /\ gate' = [gate EXCEPT ![r] = "absent"]
              /\ Goes(r, "close")
         ELSE /\ gate' = [gate EXCEPT ![r] = "open"]
              /\ Goes(r, "parked")
              /\ UNCHANGED decision
    /\ UNCHANGED <<thread, inbox, granted, commands, history>>

\* AwaitClass returns with d, dropping the entry.
Leave(r, d) ==
    /\ decision' = [decision EXCEPT ![r] = d]
    /\ gate' = [gate EXCEPT ![r] = "absent"]
    /\ Goes(r, "close")
    /\ UNCHANGED <<thread, inbox, granted, commands, history>>

Wake(r) == call[r] = "parked" /\ gate[r] \in Decision /\ Leave(r, gate[r])

\* Mutant of TimeOut: the end of the context is passed on as a decision.
TimeOutRaw(r) == call[r] = "parked" /\ Leave(r, "gaveUp")

\* The caller's context or the approval window ends; Ask makes it a decline.
TimeOut(r) == call[r] = "parked" /\ Leave(r, "decline")

\* Ask returns, and authorize with it.
Return(r) == Goes(r, IF decision[r] \in Approvals THEN "ran" ELSE "refused")

\* Ask injects RequestResolved, and handle looks at the thread again.
CloseLook(r) ==
    /\ call[r] = "close"
    /\ IF Closed(thread)
         THEN Return(r) /\ lost' = [lost EXCEPT ![r] = "fenced"]
         ELSE Goes(r, "retire") /\ UNCHANGED lost
    /\ UNCHANGED <<thread, inbox, gate, granted, decision, commands, clicked, inForce, lagging>>

\* Mutant of Retire: the activity is appended, the card is not removed.
RetireActivityOnly(r) ==
    /\ call[r] = "retire"
    /\ Return(r)
    /\ UNCHANGED <<thread, inbox, gate, granted, decision, commands, history>>

\* handle: the activity, then the session-set that takes the card off.
Retire(r) ==
    /\ call[r] = "retire"
    /\ thread' = Dispatched(SessionSetting(Resolving(r)))
    /\ Return(r)
    /\ UNCHANGED <<inbox, gate, granted, decision, commands, history>>

-----------------------------------------------------------------------------
(***************************************************************************)
(* The operator.                                                           *)
(***************************************************************************)

\* A command the engine accepts, and the intents its events hand the Reactor.
Order(c, intents) ==
    /\ commands < MaxCommands
    /\ Accepts(thread, c)
    /\ commands' = commands + 1
    /\ thread' = Apply(thread, Decide(thread, c))
    /\ inbox' = inbox \o intents

Click(r, d) ==
    /\ Order([type |-> "respond", request |-> r],
             <<[type |-> "respond", request |-> r, decision |-> d]>>)
    /\ clicked' = [clicked EXCEPT ![r] = d]
    /\ UNCHANGED <<gate, granted, call, decision, inForce, lagging, lost>>

SwitchMode(m) ==
    /\ Order([type |-> "runtimeModeSet", mode |-> m], <<[type |-> "mode", mode |-> m]>>)
    /\ inForce' = [r \in Requests |-> IF Underway(r) THEN inForce[r] \cup {m} ELSE inForce[r]]
    /\ UNCHANGED <<gate, granted, call, decision, clicked, lagging, lost>>

Interrupt ==
    /\ Order([type |-> "turnInterrupt"], <<[type |-> "interrupt"]>>)
    /\ UNCHANGED <<gate, granted, call, decision, history>>

Stop ==
    /\ Order([type |-> "sessionStop"], <<[type |-> "stop"]>>)
    /\ UNCHANGED <<gate, granted, call, decision, history>>

Archive ==
    /\ Order([type |-> "archive"], IF Closed(thread) THEN <<>> ELSE <<[type |-> "archive"]>>)
    /\ UNCHANGED <<gate, granted, call, decision, history>>

Resume ==
    /\ Order([type |-> "resume"], <<>>)
    /\ UNCHANGED <<gate, granted, call, decision, history>>

-----------------------------------------------------------------------------
(***************************************************************************)
(* The Reactor.                                                            *)
(***************************************************************************)

First(type) == inbox # <<>> /\ Head(inbox).type = type

\* CancelThread.
Cancel ==
    /\ gate' = [r \in Requests |-> IF gate[r] = "open" THEN "decline" ELSE gate[r]]
    /\ granted' = FALSE

\* A reaction that goes on with `next'.
Continue(next) == inbox' = <<next>> \o Tail(inbox)

ReactRespond ==
    LET r == Head(inbox).request
        d == Head(inbox).decision
    IN  /\ First("respond")
        /\ inbox' = Tail(inbox)
        /\ IF gate[r] = "open"
             THEN /\ gate' = [gate EXCEPT ![r] = d]
                  /\ granted' = (granted \/ d = "acceptForSession")
             ELSE UNCHANGED <<gate, granted>>
        /\ UNCHANGED <<thread, call, decision, commands, history>>

\* Mutant of ReactMode: the class of the waiting call is not consulted.
ReactModeToAll ==
    /\ First("mode")
    /\ inbox' = Tail(inbox)
    /\ gate' = [r \in Requests |->
                  IF gate[r] = "open" /\ AllowsUnprompted(Head(inbox).mode, FALSE)
                    THEN "accept" ELSE gate[r]]
    /\ UNCHANGED <<thread, granted, call, decision, commands, history>>

\* ReleasePending, which takes a call that has not parked for a mutating one.
\* Pushing the mode to the provider changes nothing here.
ReactMode ==
    /\ First("mode")
    /\ inbox' = Tail(inbox)
    /\ gate' = [r \in Requests |->
                  IF gate[r] = "open"
                     /\ AllowsUnprompted(Head(inbox).mode, call[r] # "parked" \/ r \in Mutating)
                    THEN "accept" ELSE gate[r]]
    /\ UNCHANGED <<thread, granted, call, decision, commands, history>>

\* Mutant of ReactInterrupt: the parked calls are left to the provider.
ReactInterruptOnly ==
    /\ First("interrupt")
    /\ Continue([type |-> "settle", change |-> Settling("idle", None)])
    /\ UNCHANGED <<thread, gate, granted, call, decision, commands, history>>

\* Cancel first, tell the provider, settle the thread whatever it said.
ReactInterrupt ==
    /\ First("interrupt") /\ Cancel
    /\ Continue([type |-> "settle", change |-> Settling("idle", None)])
    /\ UNCHANGED <<thread, call, decision, commands, history>>

\* The same for a stop; reportError settles the thread when the stop failed.
ReactStop ==
    /\ First("stop") /\ Cancel
    /\ \E change \in {Settling("idle", None), Stopping} :
          Continue([type |-> "settle", change |-> change])
    /\ UNCHANGED <<thread, call, decision, commands, history>>

\* Ending the session works, or the provider refuses.
ReactArchive ==
    /\ First("archive") /\ Cancel
    /\ \E end \in {"archiveComplete", "archiveFailed"} : Continue([type |-> end])
    /\ UNCHANGED <<thread, call, decision, commands, history>>

\* The last command of a reaction.
ReactEnd ==
    /\ inbox # <<>>
    /\ \/ First("settle") /\ thread' = Dispatched(SessionSetting(Head(inbox).change))
       \/ First("archiveFailed") /\ thread' = Dispatched([type |-> "archiveFailed"])
       \/ First("archiveComplete")
             /\ \E now \in Times : thread' = Dispatched([type |-> "archiveComplete", cutoff |-> now])
    /\ inbox' = Tail(inbox)
    /\ UNCHANGED <<gate, granted, call, decision, commands, history>>

React == ReactRespond \/ ReactMode \/ ReactInterrupt \/ ReactStop \/ ReactArchive \/ ReactEnd

\* What ReconcileOrphanedThreads does to the thread at boot.
Reconciled ==
    IF thread.archiving
      THEN {Dispatched([type |-> "archiveComplete", cutoff |-> now]) : now \in Times}
    ELSE IF thread.archived \/ thread.status \notin {"running", "waiting"} THEN {thread}
    ELSE {Dispatched(SessionSetting(Reconciling))}

\* The process dies with its calls, its gate and what the Reactor had not got
\* to, and boots; nothing else runs until the thread is reconciled.
Reboot ==
    /\ thread' \in Reconciled
    /\ inbox' = <<>> /\ granted' = FALSE
    /\ gate' = [r \in Requests |-> "absent"]
    /\ call' = [r \in Requests |-> IF Underway(r) THEN "refused" ELSE call[r]]
    /\ lost' = [r \in Requests |-> IF Underway(r) THEN "reboot" ELSE lost[r]]
    /\ UNCHANGED <<decision, commands, clicked, inForce, lagging>>

-----------------------------------------------------------------------------

CallStep(r) == Look(r) \/ OpenOnGate(r) \/ OpenCard(r) \/ Await(r) \/ Wake(r) \/ CloseLook(r) \/ Retire(r)

Next ==
    \/ \E r \in Requests :
          Authorize(r) \/ CallStep(r) \/ CutShort(r) \/ TimeOut(r) \/ (\E d \in Answers : Click(r, d))
    \/ \E m \in Modes : SwitchMode(m)
    \/ Interrupt \/ Stop \/ Archive \/ Resume
    \/ React \/ Reboot

\* The Reactor's goroutine runs, and one whose channel has a decision wakes; the
\* operator and the caller owe nothing.
Fairness == WF_vars(React) /\ \A r \in Requests : WF_vars(Wake(r))

Spec == Init /\ [][Next]_vars /\ Fairness

-----------------------------------------------------------------------------
(***************************************************************************)
(* Properties.                                                             *)
(***************************************************************************)

\* The thread, the Reactor's inbox and the calls have their types.
TypeOK ==
    /\ thread \in Thread
    /\ inbox \in Seq(Intent) /\ commands \in 0..MaxCommands
    /\ gate \in [Requests -> {"absent", "open"} \cup Decision]
    /\ granted \in BOOLEAN
    /\ call \in [Requests -> Stage]
    /\ decision \in [Requests -> Decision \cup {None}]
    /\ clicked \in [Requests -> Decision \cup {None}]
    /\ inForce \in [Requests -> SUBSET RuntimeMode]
    /\ lagging \in [Requests -> SUBSET RuntimeMode]
    /\ lost \in [Requests -> Loss]

\* No card without a caller: a card on the thread belongs to a call that will
\* take it off (Ask's `on every exit path'), unless an archive swallowed the
\* closing event, the caller left as the card went up, or the process died.
CardsHaveCallers ==
    \A r \in thread.pending : call[r] \in {"await", "parked", "close", "retire"} \/ lost[r] # "no"

\* No caller without a card: a parked call the operator has not answered shows
\* on the thread, where it can be answered, unless an archive overtook it.
ParkedCallsShow ==
    \A r \in Requests :
        call[r] = "parked" /\ gate[r] = "open" /\ clicked[r] = None
        => r \in thread.pending \/ lost[r] = "noCard" \/ Closed(thread)

\* The thread's cards and the calls parked on the gate belong together.
CardsMatchCalls == CardsHaveCallers /\ ParkedCallsShow

\* What can let call r run: a click on its card, a mode among `modes' that does
\* not ask, or an `accept for session' under a mode in force that honours one.
Licensed(r, modes) ==
    \/ clicked[r] \in Approvals
    \/ \E m \in modes : AllowsUnprompted(m, r \in Mutating)
    \/ /\ \E m \in inForce[r] : SessionShortcutApplies(m)
       /\ \E q \in Requests : clicked[q] = "acceptForSession"

\* A call that ran was let through by the operator, by what they clicked or by
\* a mode they chose, through every interleaving of calls, clicks, interrupts,
\* archives and reboots.  The modes that count include those still waiting for
\* the Reactor when the call was made, which releases by the mode of its event.
RunsAreLicensed ==
    \A r \in Requests : call[r] = "ran" => Licensed(r, inForce[r] \cup lagging[r])

\* Stop is a way out: once the operator has interrupted, whoever is parked on
\* an approval gets away, whatever the provider does.
InterruptFrees ==
    \A r \in Requests :
        (call[r] = "parked" /\ \E i \in DOMAIN inbox : inbox[i].type = "interrupt")
        ~> call[r] # "parked"
=============================================================================
