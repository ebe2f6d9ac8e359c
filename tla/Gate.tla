-------------------------------- MODULE Gate --------------------------------
(***************************************************************************)
(* approval.Gate (backend/internal/agentcore/approval/gate.go): the        *)
(* rendezvous between a tool call parked on a human and the answer that    *)
(* arrives from somewhere else.                                            *)
(*                                                                         *)
(* Every public method takes the mutex, sweeps expired tombstones, changes *)
(* the maps, unlocks, and only THEN sends on the per-entry channels.  Each *)
(* critical section is one action here, and each send after the unlock is  *)
(* an action of its own, so that whatever another goroutine can do in      *)
(* between is a behaviour of this module.                                  *)
(***************************************************************************)
EXTENDS Permission

CONSTANTS Requests,     \* approval request ids
          Threads,      \* agent-chat threads
          Owner,        \* Owner[r]: the thread a request was raised on
          Waited,       \* the requests a goroutine awaits (the "tool-" ids);
                        \* the others are the provider's own
          Mutating,     \* the awaited requests whose action changes the host
          Answers,      \* the decisions people give
          Modes,        \* the runtime modes they switch to
          NoDecision

ASSUME GateAssumption ==
    /\ Owner \in [Requests -> Threads]
    /\ Waited \subseteq Requests
    /\ Mutating \subseteq Waited
    /\ Answers \subseteq Decision /\ Modes \subseteq RuntimeMode
    /\ NoDecision \notin Decision \cup {"gaveUp"}

VARIABLES
    entries,          \* Gate.entries: the gateEntry of every request
    sessionAccepted,  \* Gate.sessionAccepted
    sending,          \* sending[r]: a decision unlocked but not yet sent on e.ch
    channel,          \* channel[r]: what e.ch (buffer of one) holds
    waiter,           \* waiter[r]: where the goroutine that asked stands
    outcome,          \* outcome[r]: what AwaitClass has returned
    ctxEnded,         \* the requests whose waiter's context is done
    callbacks,        \* abandoned requests CancelThread has yet to pass to OnCancel
    verdict,          \* history: the decision on record and who made it
    cancelled         \* history: requests raised before their thread's last cancel

vars == <<entries, sessionAccepted, sending, channel, waiter, outcome,
          ctxEnded, callbacks, verdict, cancelled>>

-----------------------------------------------------------------------------

\* gateEntry.  "absent" stands for a missing key; `expired' for a decidedAt
\* older than tombstoneTTL.
Entry == [state : {"absent", "open", "decided"}, mutating : BOOLEAN,
          decision : Decision \cup {NoDecision}, expired : BOOLEAN]

NoEntry == [state |-> "absent", mutating |-> TRUE,
            decision |-> NoDecision, expired |-> FALSE]

\* Mutant of Opened: a fresh entry takes the harmless class.
OpenedAsRead(e) ==
    IF e.state = "absent" THEN [NoEntry EXCEPT !.state = "open", !.mutating = FALSE] ELSE e

\* openLocked: an existing entry is kept, a fresh one assumes the worst class.
Opened(e) == IF e.state = "absent" THEN [NoEntry EXCEPT !.state = "open"] ELSE e

\* The entry after a decision; the entry stays behind as a tombstone.
Decided(e, d) ==
    [e EXCEPT !.state = "decided", !.decision = d, !.expired = FALSE]

\* sweepLocked, the first thing every critical section does.
Swept(es) ==
    [r \in Requests |->
        IF es[r].state = "decided" /\ es[r].expired THEN NoEntry ELSE es[r]]

\* A goroutine that asks goes none -> coming (its card is open) -> parked ->
\* leaving -> done.  "unawaited": the card is open and nobody will park on it.
WaiterState == {"none", "unawaited", "coming", "parked", "leaving", "done"}

\* Who put a decision on record.
Source == {"nobody", "human", "cancel", "release"}
Verdict == [by : Source, decision : Decision \cup {NoDecision}, mode : RuntimeMode \cup {NoDecision}]
NoVerdict == [by |-> "nobody", decision |-> NoDecision, mode |-> NoDecision]

-----------------------------------------------------------------------------

Init ==
    /\ entries = [r \in Requests |-> NoEntry]
    /\ sessionAccepted = {}
    /\ sending = [r \in Requests |-> NoDecision]
    /\ channel = [r \in Requests |-> NoDecision]
    /\ waiter = [r \in Requests |-> "none"]
    /\ outcome = [r \in Requests |-> NoDecision]
    /\ ctxEnded = {}
    /\ callbacks = {}
    /\ verdict = [r \in Requests |-> NoVerdict]
    /\ cancelled = {}

\* Open: Ingestion registers a card.  Request ids are minted once, so a card is
\* opened once.
Open(r) ==
    /\ waiter[r] = "none"
    /\ entries' = [Swept(entries) EXCEPT ![r] = Opened(@)]
    /\ waiter' = [waiter EXCEPT ![r] = IF r \in Waited THEN "coming" ELSE "unawaited"]
    /\ UNCHANGED <<sessionAccepted, sending, channel, outcome, ctxEnded,
                   callbacks, verdict, cancelled>>

\* The decisions of one critical section: every request of S gets d, on behalf
\* of `by'; the sends follow once the mutex is free.
Decide(es, S, d, by, mode) ==
    /\ entries' = [r \in Requests |-> IF r \in S THEN Decided(es[r], d) ELSE es[r]]
    /\ sending' = [r \in Requests |-> IF r \in S THEN d ELSE sending[r]]
    /\ verdict' = [r \in Requests |->
                     IF r \in S THEN [by |-> by, decision |-> d, mode |-> mode] ELSE verdict[r]]

\* Resolve on a request that is unknown or was already decided: ErrUnknownRequest.
ResolveUnknown(r) ==
    /\ Swept(entries)[r].state # "open"
    /\ entries' = Swept(entries)
    /\ UNCHANGED <<sessionAccepted, sending, channel, waiter, outcome, ctxEnded,
                   callbacks, verdict, cancelled>>

\* Resolve: the human's decision.
Resolve(r, d) ==
    /\ Swept(entries)[r].state = "open"
    /\ Decide(Swept(entries), {r}, d, "human", NoDecision)
    /\ sessionAccepted' = sessionAccepted \cup
                             (IF d = "acceptForSession" THEN {Owner[r]} ELSE {})
    /\ UNCHANGED <<channel, waiter, outcome, ctxEnded, callbacks, cancelled>>

\* Mutant of OpenOn: tombstones count as open.
OpenOrDecidedOn(es, t) == {r \in Requests : Owner[r] = t /\ es[r].state # "absent"}

\* The requests of thread t a sweep leaves undecided.
OpenOn(es, t) == {r \in Requests : Owner[r] = t /\ es[r].state = "open"}

\* Mutant of CancelThread: the session grant outlives the cancel.
CancelThreadKeepsGrant(t) ==
    LET es == Swept(entries) IN
    /\ Decide(es, OpenOn(es, t), "decline", "cancel", NoDecision)
    /\ cancelled' = cancelled \cup {r \in Requests : Owner[r] = t /\ waiter[r] # "none"}
    /\ callbacks' = callbacks \cup OpenOn(es, t)
    /\ UNCHANGED <<sessionAccepted, channel, waiter, outcome, ctxEnded>>

\* CancelThread: decline everything still open and withdraw the session grant.
CancelThread(t) ==
    LET es == Swept(entries) IN
    /\ Decide(es, OpenOn(es, t), "decline", "cancel", NoDecision)
    /\ sessionAccepted' = sessionAccepted \ {t}
    /\ cancelled' = cancelled \cup {r \in Requests : Owner[r] = t /\ waiter[r] # "none"}
    /\ callbacks' = callbacks \cup OpenOn(es, t)
    /\ UNCHANGED <<channel, waiter, outcome, ctxEnded>>

\* ClearSession: only the grant, and no sweep.
ClearSession(t) ==
    /\ sessionAccepted' = sessionAccepted \ {t}
    /\ UNCHANGED <<entries, sending, channel, waiter, outcome, ctxEnded,
                   callbacks, verdict, cancelled>>

\* ReleasePending: accept what the new mode would not have gated.
ReleasePending(t, mode) ==
    LET es == Swept(entries)
        released == {r \in OpenOn(es, t) : AllowsUnprompted(mode, es[r].mutating)}
    IN  /\ Decide(es, released, "accept", "release", mode)
        /\ UNCHANGED <<sessionAccepted, channel, waiter, outcome, ctxEnded, callbacks, cancelled>>

\* The send after the unlock.  The channel has room: an entry is decided once.
Send(r) ==
    /\ sending[r] # NoDecision
    /\ channel' = [channel EXCEPT ![r] = sending[r]]
    /\ sending' = [sending EXCEPT ![r] = NoDecision]
    /\ UNCHANGED <<entries, sessionAccepted, waiter, outcome, ctxEnded,
                   callbacks, verdict, cancelled>>

\* CancelThread's last loop: OnCancel, after the sends.
OnCancel(r) ==
    /\ r \in callbacks /\ sending[r] = NoDecision
    /\ callbacks' = callbacks \ {r}
    /\ UNCHANGED <<entries, sessionAccepted, sending, channel, waiter, outcome,
                   ctxEnded, verdict, cancelled>>

\* AwaitClass, first critical section, when the decision came first.
AwaitDecided(r) ==
    /\ waiter[r] = "coming"
    /\ Swept(entries)[r].state = "decided"
    /\ outcome' = [outcome EXCEPT ![r] = entries[r].decision]
    /\ entries' = [Swept(entries) EXCEPT ![r] = NoEntry]
    /\ waiter' = [waiter EXCEPT ![r] = "done"]
    /\ UNCHANGED <<sessionAccepted, sending, channel, ctxEnded, callbacks, verdict, cancelled>>

\* Mutant of AwaitPark: it parks without opening a request no card opened.
AwaitParkUnopened(r) ==
    LET es == Swept(entries) IN
    /\ r \in Waited /\ waiter[r] \in {"none", "coming"}
    /\ es[r].state # "decided"
    /\ entries' = [es EXCEPT ![r].mutating = (r \in Mutating)]
    /\ waiter' = [waiter EXCEPT ![r] = "parked"]
    /\ UNCHANGED <<sessionAccepted, sending, channel, outcome, ctxEnded,
                   callbacks, verdict, cancelled>>

\* AwaitClass, first critical section, when it has to block.  It opens the
\* request if no card did (Await alone, or a card Ingestion dropped), and
\* replaces the assumed class by the real one.  A fresh entry has a channel of
\* its own, which nothing sent on an earlier one can reach.
AwaitPark(r) ==
    LET e == Swept(entries)[r]
        Fresh(f) == IF e.state = "absent" THEN [f EXCEPT ![r] = NoDecision] ELSE f
    IN  /\ r \in Waited /\ waiter[r] \in {"none", "coming"}
        /\ e.state # "decided"
        /\ entries' = [Swept(entries) EXCEPT ![r] = [Opened(e) EXCEPT !.mutating = (r \in Mutating)]]
        /\ sending' = Fresh(sending) /\ channel' = Fresh(channel)
        /\ waiter' = [waiter EXCEPT ![r] = "parked"]
        /\ UNCHANGED <<sessionAccepted, outcome, ctxEnded, callbacks, verdict, cancelled>>

\* AwaitClass, the select: `case d := <-ch'.
Receive(r) ==
    /\ waiter[r] = "parked" /\ channel[r] # NoDecision
    /\ outcome' = [outcome EXCEPT ![r] = channel[r]]
    /\ channel' = [channel EXCEPT ![r] = NoDecision]
    /\ waiter' = [waiter EXCEPT ![r] = "leaving"]
    /\ UNCHANGED <<entries, sessionAccepted, sending, ctxEnded, callbacks, verdict, cancelled>>

\* Mutant of GiveUp: the entry keeps "gave up" as if it were a decision.
GiveUpRecorded(r) ==
    /\ waiter[r] = "parked" /\ r \in ctxEnded
    /\ outcome' = [outcome EXCEPT ![r] = "gaveUp"]
    /\ waiter' = [waiter EXCEPT ![r] = "leaving"]
    /\ entries' = [entries EXCEPT ![r].decision = "gaveUp"]
    /\ UNCHANGED <<sessionAccepted, sending, channel, ctxEnded, callbacks, verdict, cancelled>>

\* AwaitClass, the select: `case <-ctx.Done()'.  When both cases are ready the
\* select picks either.
GiveUp(r) ==
    /\ waiter[r] = "parked" /\ r \in ctxEnded
    /\ outcome' = [outcome EXCEPT ![r] = "gaveUp"]
    /\ waiter' = [waiter EXCEPT ![r] = "leaving"]
    /\ UNCHANGED <<entries, sessionAccepted, sending, channel, ctxEnded,
                   callbacks, verdict, cancelled>>

\* Mutant of Leave: the entry is not dropped.
LeaveEntry(r) ==
    /\ waiter[r] = "leaving"
    /\ waiter' = [waiter EXCEPT ![r] = "done"]
    /\ UNCHANGED <<entries, sessionAccepted, sending, channel, outcome, ctxEnded,
                   callbacks, verdict, cancelled>>

\* AwaitClass, second critical section: dropLocked on every exit path.
Leave(r) ==
    /\ waiter[r] = "leaving"
    /\ entries' = [entries EXCEPT ![r] = NoEntry]
    /\ waiter' = [waiter EXCEPT ![r] = "done"]
    /\ UNCHANGED <<sessionAccepted, sending, channel, outcome, ctxEnded,
                   callbacks, verdict, cancelled>>

\* The environment ends a caller's context (the approval window, a closed
\* connection).
EndContext(r) ==
    /\ waiter[r] \in {"coming", "parked"}
    /\ ctxEnded' = ctxEnded \cup {r}
    /\ UNCHANGED <<entries, sessionAccepted, sending, channel, waiter, outcome,
                   callbacks, verdict, cancelled>>

\* tombstoneTTL (two minutes) runs out on a decision nobody collected.  It is
\* taken to outlast the two steps the source sizes it for: the send that
\* follows the unlock, and the asker's way from Open to AwaitClass.
Expire(r) ==
    /\ entries[r].state = "decided" /\ ~entries[r].expired
    /\ sending[r] = NoDecision /\ waiter[r] # "coming"
    /\ entries' = [entries EXCEPT ![r].expired = TRUE]
    /\ UNCHANGED <<sessionAccepted, sending, channel, waiter, outcome, ctxEnded,
                   callbacks, verdict, cancelled>>

\* What the gate's own goroutines do once they have begun.
Progress(r) == Send(r) \/ AwaitDecided(r) \/ Receive(r) \/ GiveUp(r) \/ Leave(r)

Next ==
    \/ \E r \in Requests :
          \/ Open(r) \/ ResolveUnknown(r)
          \/ \E d \in Answers : Resolve(r, d)
          \/ Send(r) \/ OnCancel(r)
          \/ AwaitDecided(r) \/ AwaitPark(r) \/ Receive(r) \/ GiveUp(r) \/ Leave(r)
          \/ EndContext(r) \/ Expire(r)
    \/ \E t \in Threads :
          \/ CancelThread(t) \/ ClearSession(t)
          \/ \E mode \in Modes : ReleasePending(t, mode)

\* The Go scheduler runs every runnable goroutine; people owe the gate nothing.
Fairness == \A r \in Requests : WF_vars(Progress(r))

SafeSpec == Init /\ [][Next]_vars
Spec == SafeSpec /\ Fairness

-----------------------------------------------------------------------------
(***************************************************************************)
(* Properties.                                                             *)
(***************************************************************************)

\* The gate's maps, channels and waiters have their types.
TypeOK ==
    /\ entries \in [Requests -> Entry]
    /\ sessionAccepted \subseteq Threads
    /\ sending \in [Requests -> Decision \cup {NoDecision}]
    /\ channel \in [Requests -> Decision \cup {NoDecision}]
    /\ waiter \in [Requests -> WaiterState]
    /\ outcome \in [Requests -> Decision \cup {NoDecision, "gaveUp"}]
    /\ ctxEnded \subseteq Requests
    /\ callbacks \subseteq Requests
    /\ verdict \in [Requests -> Verdict]
    /\ cancelled \subseteq Requests

\* A parked tool call can always be freed: either its request is still open in
\* the map, where Resolve, CancelThread and ReleasePending find it, or the
\* decision on record is on its way down, or already in, its own channel.
\* (The waiter "stranded until its context expires" of gate.go's comment.)
ParkedIsReachable ==
    \A r \in Requests : waiter[r] = "parked" =>
        IF verdict[r].by = "nobody"
        THEN entries[r].state = "open"
        ELSE verdict[r].decision \in {sending[r], channel[r]}

\* ReleasePending never accepts on the operator's behalf what the mode they
\* picked still gates, judged by the action's true class and not by the class
\* the entry happened to carry; a provider's card counts as mutating.
ReleaseObeysMatrix ==
    \A r \in Requests : verdict[r].by = "release" =>
        AllowsUnprompted(verdict[r].mode, r \in Mutating \/ r \notin Waited)

\* A standing "accept for session" always rests on a human's answer to a
\* request raised since the thread was last cancelled: neither a grant from
\* before an interrupt nor a late answer to a card from before it lets a later
\* mutation through.
GrantStands ==
    \A t \in sessionAccepted : \E r \in Requests \ cancelled :
        /\ Owner[r] = t
        /\ verdict[r].by = "human" /\ verdict[r].decision = "acceptForSession"

\* OnCancel, which tells the provider the request was cancelled, is only ever
\* owed for a request nobody answered: a click that won the race against an
\* interrupt is not followed by a contradicting cancel.
CancelNeverContradicts == \A r \in callbacks : verdict[r].by = "cancel"

\* The refinement mapping into ApprovalPromise.
AskerOf(r) ==
    IF waiter[r] \in {"leaving", "done"} THEN outcome[r]
    ELSE IF waiter[r] = "parked" THEN "blocked" ELSE "absent"

Promise == INSTANCE ApprovalPromise WITH
    Askers <- Waited,
    registered <- {r \in Requests : waiter[r] \notin {"none", "done"}},
    answer <- [r \in Requests |-> verdict[r].decision],
    asker <- [r \in Requests |-> AskerOf(r)]

\* The gate keeps the promise: at most one answer per request, the asker leaves
\* with that answer or because its own context ended, a withdrawn request is
\* never answered, and (under Fairness) an answer always frees its asker.
KeepsPromise == Promise!Spec
=============================================================================
