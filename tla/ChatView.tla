------------------------------- MODULE ChatView -------------------------------
(***************************************************************************)
(* What a browser makes of a thread's events: reduceAgentEvents            *)
(* (frontend/src/features/agent-chat/eventReducer.ts), a batch at a time,  *)
(* and CoalesceReplay (backend orchestration/replay.go), which rewrites    *)
(* the events a reconnecting browser is sent.                              *)
(*                                                                         *)
(* An event is ThreadRules'; one that appends activity also has a body.    *)
(* A turnStartRequested stands for itself and the message-sent before it.  *)
(* On the wire it carries its place in the log, the seq.                   *)
(*                                                                         *)
(* Left out of a view: the interaction mode, sub-agents, context size and  *)
(* usage stamps, titles, times, the rows of tool calls, plans and notices, *)
(* and of a row everything but its identity, kind and text.                *)
(***************************************************************************)
EXTENDS ThreadRules

CONSTANTS Items,      \* ids the provider gives messages
          Questions   \* the requests that ask the user something; the rest ask for approval

ASSUME ViewAssumption == Questions \subseteq Requests

\* What an activityAppended event carries: a delta of streamed text, whose text
\* is the numbers of the deltas in it (one, until replay merges them), or an
\* event of the provider, forwarded whole.
Activity ==
    [kind : {"delta"}, item : Items, first : Nat, sequence : Nat, text : Seq(Nat)]
    \cup [kind : {"opened", "resolved"}, request : Requests]
    \cup [kind : {"error", "reactorError"}]

Delta(i, n) == [kind |-> "delta", item |-> i, first |-> n, sequence |-> n, text |-> <<n>>]

\* isForwardedProviderEvent.
Forwarded(e) == e.type = "activityAppended" /\ e.body.kind \notin {"delta", "reactorError"}
IsDelta(e) == e.type = "activityAppended" /\ e.body.kind = "delta"

\* A row of the transcript, put at its end; it goes by its event.
Row(v, seq, kind) ==
    [v EXCEPT !.items = Append(@, [id |-> seq, kind |-> kind, text |-> <<>>, last |-> 0])]

EmptyView ==
    [items |-> <<>>, status |-> "idle", archived |-> FALSE, archiving |-> FALSE,
     mode |-> "approval-required", lastSeq |-> 0, hasGap |-> FALSE, approvals |-> {}, userInputs |-> {}]

Cards(v) == v.approvals \cup v.userInputs

-----------------------------------------------------------------------------
(***************************************************************************)
(* The reducer's helpers.                                                  *)
(***************************************************************************)

Places(v, id) == {k \in DOMAIN v.items : v.items[k].id = id}
Held(v, id) == Places(v, id) # {}
First(ks) == CHOOSE k \in ks : \A j \in ks : k <= j
Place(v, id) == First(Places(v, id))

\* applyDelta.  The first delta of an item never counts as a gap.
ApplyDelta(v, d) ==
    IF ~Held(v, d.item)
    THEN [v EXCEPT !.items = Append(@, [id |-> d.item, kind |-> "assistant", text |-> d.text,
                                        last |-> d.sequence])]
    ELSE LET k == Place(v, d.item)
             existing == v.items[k]
         IN  [v EXCEPT !.items[k] = [existing EXCEPT !.text = @ \o d.text, !.last = d.sequence],
                       !.hasGap = @ \/ d.first > existing.last + 1]

\* Mutant of SettleAfterPending: the client waits for a status that never comes.
NeverSettles(v) == v

\* settleAfterPending: nothing pending any more, so no longer waiting.
SettleAfterPending(v) ==
    [v EXCEPT !.status = IF @ = "waiting" /\ Cards(v) = {} THEN "running" ELSE @]

\* openPendingApproval, openPendingUserInput.
OpenPending(v, r) ==
    IF r \in Questions THEN [v EXCEPT !.userInputs = @ \cup {r}]
    ELSE [v EXCEPT !.approvals = @ \cup {r}]

\* closePendingApproval, closePendingUserInput, and what always follows them.
ClosePending(v, r) ==
    SettleAfterPending([v EXCEPT !.approvals = @ \ {r}, !.userInputs = @ \ {r}])

\* An error ends the turn.  The Reactor's own kind leaves an archiving thread alone.
Failed(v, seq, settles) ==
    [Row(v, seq, "error") EXCEPT !.status = IF @ = "running" /\ settles THEN "idle" ELSE @]

\* thread.session-set.  A pendingRequestAdd and a clearPending go unread.
SessionSeen(v, change) ==
    LET moved == IF change.status = None THEN v ELSE [v EXCEPT !.status = change.status]
    IN  IF change.remove = None THEN moved ELSE ClosePending(moved, change.remove)

Answered(v, seq, r) ==
    ClosePending(IF r \in Questions THEN Row(v, seq, "question") ELSE v, r)

ArchiveSeen(v) ==
    [v EXCEPT !.archiving = FALSE, !.archived = TRUE, !.status = "stopped",
              !.approvals = {}, !.userInputs = {}]

\* The branches for an appended activity (applyForwarded among them).
ActivitySeen(v, seq, b) ==
    CASE b.kind = "delta" -> ApplyDelta(v, b)
      [] b.kind = "reactorError" -> Failed(v, seq, ~v.archiving)
      [] b.kind = "error" -> Failed(v, seq, TRUE)
      [] b.kind = "opened" -> OpenPending(v, b.request)
      [] b.kind = "resolved" -> ClosePending(v, b.request)

\* One turn of the loop.  Late provider state does not move an archived thread.
FoldOne(v, ev) ==
    LET e == ev.event IN
    CASE e.type = "archiveRequested" -> [v EXCEPT !.archiving = TRUE]
      [] e.type = "archiveFailed" -> [v EXCEPT !.archiving = FALSE]
      [] e.type = "archived" -> ArchiveSeen(v)
      [] e.type = "resumed" -> [v EXCEPT !.archived = FALSE, !.status = "idle"]
      [] e.type = "created" ->
            [v EXCEPT !.mode = IF e.mode \in RuntimeMode THEN e.mode ELSE "approval-required"]
      [] e.type = "runtimeModeSet" ->
            [v EXCEPT !.mode = IF e.mode \in RuntimeMode THEN e.mode ELSE @]
      [] e.type = "responseRequested" -> Answered(v, ev.seq, e.request)
      [] e.type = "turnStartRequested" ->
            [Row(v, ev.seq, "user") EXCEPT !.status = IF v.archived THEN @ ELSE "running"]
      [] e.type = "sessionSet" /\ ~v.archived -> SessionSeen(v, e.change)
      [] e.type = "activityAppended" /\ ~(v.archived /\ Forwarded(e)) ->
            ActivitySeen(v, ev.seq, e.body)
      [] OTHER -> v

\* reduceAgentEvents: the loop over a batch, in which what the view had seen is skipped.
ReduceAgentEvents(v, events) ==
    LET after[k \in 0..Len(events)] ==
            IF k = 0 THEN v
            ELSE IF events[k].seq <= v.lastSeq THEN after[k - 1]
            ELSE [FoldOne(after[k - 1], events[k]) EXCEPT !.lastSeq = events[k].seq]
    IN  after[Len(events)]

-----------------------------------------------------------------------------
(***************************************************************************)
(* CoalesceReplay: each run of consecutive deltas of one item, contiguous  *)
(* in their numbers, becomes one event in the place of its last.           *)
(***************************************************************************)

Continues(ev, run) ==
    /\ IsDelta(run.event) /\ IsDelta(ev.event)
    /\ ev.event.body.item = run.event.body.item
    /\ ev.event.body.sequence = run.event.body.sequence + 1

\* Mutant of Merged: the run's first event carries it.
MergedAtFirst(run, ev) ==
    [run EXCEPT !.event.body.sequence = ev.event.body.sequence,
                !.event.body.text = @ \o ev.event.body.text]

Merged(run, ev) ==
    [ev EXCEPT !.event.body.first = run.event.body.first,
               !.event.body.text = run.event.body.text \o @]

\* What is out after ev: one event more, or a longer run.
Extended(out, ev) ==
    IF out # <<>> /\ Continues(ev, out[Len(out)])
    THEN [out EXCEPT ![Len(out)] = Merged(@, ev)]
    ELSE Append(out, ev)

CoalesceReplay(events) ==
    LET out[k \in 0..Len(events)] ==
            IF k = 0 THEN <<>> ELSE Extended(out[k - 1], events[k])
    IN  out[Len(events)]
=============================================================================
