------------------------------- MODULE ChatSync -------------------------------
(***************************************************************************)
(* How browsers follow one chat thread and act on it: the panes that show  *)
(* it (frontend/src/features/agent-chat/useAgentChatSocket.ts), the view   *)
(* they share (useDevDeckStore's applyAgentEvents), the socket's handler   *)
(* (backend/internal/handler/agent_ws.go), the engine's subscriptions, and *)
(* what Ingestion and the Reactor put on the thread meanwhile.             *)
(*                                                                         *)
(* A command is decided, committed, projected and published in one step    *)
(* (Engine).  Of the frames under way on a socket the pane lets go of, any *)
(* first ones still reach the handler it had, which reads on beside the    *)
(* next socket's.  A place in the log stands for the seq; error frames,    *)
(* which only raise a banner, and the words for a socket that never opened *)
(* are left out.                                                           *)
(***************************************************************************)
EXTENDS ChatView, FiniteSets

CONSTANTS Panes,        \* chat panes of one browser on the thread
          BufferSize,   \* batches a subscription holds (256)
          ChunkSize,    \* events in a replay frame (400)
          Picks,        \* modes the user picks
          MaxWords,     \* bound: what the provider says
          MaxSent,      \* bound: commands the user sends
          MaxTroubles   \* bound: sockets that die, restarts, reloads

ASSUME SyncAssumption ==
    /\ {BufferSize, ChunkSize} \subseteq Nat \ {0}
    /\ Picks \subseteq RuntimeMode
    /\ 1 \in Times
    /\ {MaxWords, MaxSent, MaxTroubles} \subseteq Nat

VARIABLES
    thread,      \* State.Threads[id]
    log,         \* its rows of agent_event
    hand,        \* the commands an event handler has yet to dispatch
    clock,       \* time, as far as archive cutoffs can tell
    conn,        \* conn[p]: p's socket, its handler and what is between them
    orphans,     \* handlers of sockets a pane has let go of, and what still reaches them
    outbox,      \* outbox[p]: outboxRef
    stopAt,      \* stopAt[p]: abortedAtSeq
    view,        \* agentThreads[threadKey]
    words, sent, troubles,   \* how often each bounded thing has happened
    executed,    \* history: the commands the engine had from each pane, as they came
    overflowed,  \* history: a full subscription lost a batch since the page was loaded
    strayed      \* history: panes that lost a command

vars == <<thread, log, hand, clock, conn, orphans, outbox, stopAt, view,
          words, sent, troubles, executed, overflowed, strayed>>
counts == <<words, sent, troubles>>
browser == <<outbox, stopAt, view>>
history == <<executed, overflowed, strayed>>

-----------------------------------------------------------------------------

\* A batch of the log, first place to last, and the wire events it is sent as.
Wire(lo, hi) == [k \in 1..(hi - lo + 1) |-> [seq |-> lo + k - 1, event |-> log[lo + k - 1]]]

\* draft: not connected on purpose, the thread does not exist yet.
Offline(sock) ==
    [sock |-> sock, handler |-> "none", since |-> 0, sub |-> <<>>, down |-> <<>>, up |-> <<>>]

Numbered(c) == [number |-> sent + 1, command |-> c]

\* Mutant of Subscribed: the handler subscribes when its replay is done.
SubscribedLate(c) == c.handler = "live"

Subscribed(c) == c.handler \in {"subscribed", "replayed", "live"}

\* Mutant of Publish: a full subscription is waited for by growing.
PublishAll(cs, n) ==
    [p \in Panes |-> IF Subscribed(cs[p]) /\ n > 0
                     THEN [cs[p] EXCEPT !.sub = Append(@, <<Len(log) + 1, Len(log) + n>>)]
                     ELSE cs[p]]

\* publish: n new rows, as a batch to every subscription with room.  (It gets every
\* thread's batches, so that its room is not this thread's alone.)
Publish(cs, n) ==
    [p \in Panes |-> IF Subscribed(cs[p]) /\ n > 0 /\ Len(cs[p].sub) < BufferSize
                     THEN [cs[p] EXCEPT !.sub = Append(@, <<Len(log) + 1, Len(log) + n>>)]
                     ELSE cs[p]]

Full(cs) == \E p \in Panes : Subscribed(cs[p]) /\ Len(cs[p].sub) >= BufferSize

\* The events a command comes to.  Only an activity has a body.
Events(c) ==
    IF ~Accepts(thread, c) THEN <<>>
    ELSE IF c.type = "activityAppend" /\ ~Fenced(thread, c)
         THEN <<[type |-> "activityAppended", body |-> c.body]>>
         ELSE Decide(thread, c)

\* Engine.Dispatch, the sockets being cs.
Dispatch(c, cs) ==
    LET es == Events(c) IN
    /\ thread' = Apply(thread, es)
    /\ log' = log \o es
    /\ conn' = Publish(cs, Len(es))
    /\ overflowed' = (overflowed \/ (es # <<>> /\ Full(cs)))

-----------------------------------------------------------------------------
(***************************************************************************)
(* The handler: HandleWS, then its two loops.                              *)
(***************************************************************************)

Serving(p, stage) == conn[p].handler = stage

\* Subscribe before the snapshot.
Subscribe(p) ==
    /\ Serving(p, "hello")
    /\ conn' = [conn EXCEPT ![p].handler = "subscribed"]
    /\ UNCHANGED <<thread, log, hand, clock, orphans, counts, browser, history>>

\* writeReplay: coalesced, cut into frames.
WriteReplay(missed) ==
    LET s == CoalesceReplay(missed)
        last(k) == IF k * ChunkSize < Len(s) THEN k * ChunkSize ELSE Len(s)
    IN  [k \in 1..((Len(s) + ChunkSize - 1) \div ChunkSize) |->
            SubSeq(s, (k - 1) * ChunkSize + 1, last(k))]

Replay(p) ==
    /\ Serving(p, "subscribed")
    /\ conn' = [conn EXCEPT ![p].down = WriteReplay(Wire(conn[p].since + 1, Len(log))),
                            ![p].handler = "replayed"]
    /\ UNCHANGED <<thread, log, hand, clock, orphans, counts, browser, history>>

\* autoCreateThread, if there is no thread (its receipt absorbs a second one); the
\* loops start.
AutoCreate(p) ==
    /\ Serving(p, "replayed")
    /\ \E i \in Instances :
        Dispatch([type |-> "create", instance |-> i, mode |-> None],
                 [conn EXCEPT ![p].handler = "live"])
    /\ UNCHANGED <<hand, clock, orphans, counts, browser, executed, strayed>>

Record(p, n) == executed' = [executed EXCEPT ![p] = Append(@, n)]

\* readLoop, handleCommand.
HandleCommand(p) ==
    /\ Serving(p, "live")
    /\ conn[p].up # <<>>
    /\ Dispatch(Head(conn[p].up).command, [conn EXCEPT ![p].up = Tail(@)])
    /\ Record(p, Head(conn[p].up).number)
    /\ UNCHANGED <<hand, clock, orphans, counts, browser, strayed>>

\* The same two of a handler whose pane has let go of its socket.  What it writes,
\* its replay and its subscription's batches, reaches nobody.
LateCreate(o) ==
    /\ thread = NoThread
    /\ \E i \in Instances : Dispatch([type |-> "create", instance |-> i, mode |-> None], conn)
    /\ orphans' = {x \in orphans : x.up # <<>>}
    /\ UNCHANGED <<hand, clock, counts, browser, executed, strayed>>

LateCommand(o) ==
    /\ thread # NoThread /\ o.up # <<>>
    /\ Dispatch(Head(o.up).command, conn)
    /\ Record(o.pane, Head(o.up).number)
    /\ orphans' = {x \in (orphans \ {o}) \cup {[o EXCEPT !.up = Tail(@)]} : x.up # <<>>}
    /\ UNCHANGED <<hand, clock, counts, browser, strayed>>

-----------------------------------------------------------------------------
(***************************************************************************)
(* The browser.                                                            *)
(***************************************************************************)

\* Mutant of Connect: the outbox is sent and kept.
ConnectKeepsOutbox(p) ==
    /\ conn[p].sock = "down"
    /\ conn' = [conn EXCEPT ![p] = [Offline("open") EXCEPT !.handler = "hello",
                                    !.since = view.lastSeq, !.up = outbox[p]]]
    /\ UNCHANGED <<thread, log, hand, clock, orphans, counts, browser, history>>

\* openSocket and onopen: hello from what the view has now, then the outbox.
Connect(p) ==
    /\ conn[p].sock = "down"
    /\ conn' = [conn EXCEPT ![p] = [Offline("open") EXCEPT !.handler = "hello",
                                    !.since = view.lastSeq, !.up = outbox[p]]]
    /\ outbox' = [outbox EXCEPT ![p] = <<>>]
    /\ UNCHANGED <<thread, log, hand, clock, orphans, counts, stopAt, view, history>>

\* onmessage, applyAgentEvents: a frame of the replay.
Receive(p) ==
    /\ conn[p].down # <<>>
    /\ view' = ReduceAgentEvents(view, Head(conn[p].down))
    /\ conn' = [conn EXCEPT ![p].down = Tail(@)]
    /\ UNCHANGED <<thread, log, hand, clock, orphans, counts, outbox, stopAt, history>>

\* writeLoop's next batch, applied likewise.
Forward(p) ==
    /\ Serving(p, "live") /\ conn[p].down = <<>>
    /\ conn[p].sub # <<>>
    /\ LET batch == Head(conn[p].sub) IN view' = ReduceAgentEvents(view, Wire(batch[1], batch[2]))
    /\ conn' = [conn EXCEPT ![p].sub = Tail(@)]
    /\ UNCHANGED <<thread, log, hand, clock, orphans, counts, outbox, stopAt, history>>

\* useAgentThreads finds the thread: the draft connects.
Discover(p) ==
    /\ conn[p].sock = "draft"
    /\ thread # NoThread
    /\ conn' = [conn EXCEPT ![p] = Offline("down")]
    /\ UNCHANGED <<thread, log, hand, clock, orphans, counts, browser, history>>

\* Mutant of ShownStatus: Stop is believed until the next message is sent.
ShownStatusStopped(p) == IF stopAt[p] # None /\ view.status = "running" THEN "idle" ELSE view.status

\* abortPending: after Stop a pane shows idle until anything arrives.
ShownStatus(p) ==
    IF stopAt[p] # None /\ view.lastSeq <= stopAt[p] /\ view.status = "running"
    THEN "idle" ELSE view.status

\* dispatch: over the socket, or into the outbox.  A message or a mode connects a
\* draft (hasSentThisSession).
Issue(p, c) ==
    /\ sent < MaxSent
    /\ sent' = sent + 1
    /\ IF conn[p].sock = "open"
       THEN /\ conn' = [conn EXCEPT ![p].up = Append(@, Numbered(c))]
            /\ UNCHANGED outbox
       ELSE /\ outbox' = [outbox EXCEPT ![p] = Append(@, Numbered(c))]
            /\ conn' = [conn EXCEPT ![p].sock = IF c.type \in {"turnStart", "runtimeModeSet"}
                                                THEN "down" ELSE @]
    /\ UNCHANGED <<thread, log, hand, clock, orphans, view, words, troubles, history>>

Composing == ~view.archived /\ ~view.archiving

SendTurn(p) ==
    /\ Composing
    /\ Issue(p, [type |-> "turnStart", instance |-> None])
    /\ stopAt' = [stopAt EXCEPT ![p] = None]

AbortTurn(p) ==
    /\ Composing
    /\ ShownStatus(p) \in {"running", "waiting"}
    /\ Issue(p, [type |-> "turnInterrupt"])
    /\ stopAt' = [stopAt EXCEPT ![p] = view.lastSeq]

SetRuntimeMode(p) ==
    /\ Composing
    /\ \E m \in Picks \ {view.mode} : Issue(p, [type |-> "runtimeModeSet", mode |-> m])
    /\ UNCHANGED stopAt

\* respondToApproval, respondToUserInput.
Respond(p) ==
    /\ Composing
    /\ \E r \in Cards(view) : Issue(p, [type |-> "respond", request |-> r])
    /\ UNCHANGED stopAt

ArchiveSession(p) ==
    /\ Composing /\ view.lastSeq > 0
    /\ Issue(p, [type |-> "archive"])
    /\ UNCHANGED stopAt

ResumeSession(p) ==
    /\ view.archived /\ conn[p].sock = "open"
    /\ Issue(p, [type |-> "resume"])
    /\ UNCHANGED stopAt

-----------------------------------------------------------------------------
(***************************************************************************)
(* The other side of the thread.  Ingestion's handler and the Reactor's    *)
(* reportError dispatch what they have one command at a time, and give up  *)
(* at the first that is refused.                                           *)
(***************************************************************************)

Append1(body) == [type |-> "activityAppend", at |-> clock, body |-> body]
Set1(change) == [type |-> "sessionSet", at |-> clock, change |-> change]
Opened(r) == [kind |-> "opened", request |-> r]
Resolved(r) == [kind |-> "resolved", request |-> r]

\* How many deltas of item i there have been.
Spoken(i) == Cardinality({k \in DOMAIN log : IsDelta(log[k]) /\ log[k].body.item = i})
Logged(b) == \E k \in DOMAIN log : log[k].type = "activityAppended" /\ log[k].body = b

Say(commands) ==
    /\ hand = <<>>
    /\ words < MaxWords
    /\ words' = words + 1
    /\ hand' = commands
    /\ UNCHANGED <<thread, log, clock, conn, orphans, sent, troubles, browser, history>>

Working == thread # NoThread /\ thread.inFlight /\ ~Closed(thread)

Speak == Working /\ \E i \in Items : Say(<<Append1(Delta(i, Spoken(i) + 1))>>)

\* A provider gives every request an id of its own.
Unused(r) == ~Logged(Opened(r)) /\ r \notin thread.pending

\* Mutant of AskUser: the status first, the card after it.
AskUserStatusFirst ==
    Working /\ \E r \in Requests :
        Unused(r) /\ Say(<<Set1(Asking(r)), Append1(Opened(r))>>)

\* RequestOpened, UserInputRequested: the card, and the status last.
AskUser ==
    Working /\ \E r \in Requests :
        Unused(r) /\ Say(<<Append1(Opened(r)), Set1(Asking(r))>>)

\* RequestResolved, UserInputResolved: nobody answered.
RetireCard ==
    thread # NoThread /\ \E r \in thread.pending :
        Say(<<Append1(Resolved(r)), Set1(Resolving(r))>>)

EndTurn == Working /\ Say(<<Set1(Settling("idle", None))>>)

\* A turn that fails, as the provider or as the Reactor tells it.
FailTurn ==
    /\ Working
    /\ \E k \in {"error", "reactorError"} :
        Say(<<Append1([kind |-> k]), Set1(Settling("idle", None))>>)

SessionExit == Working /\ Say(<<Set1(Stopping)>>)

Ingest ==
    /\ hand # <<>>
    /\ hand' = IF Accepts(thread, Head(hand)) THEN Tail(hand) ELSE <<>>
    /\ Dispatch(Head(hand), conn)
    /\ UNCHANGED <<clock, orphans, counts, browser, executed, strayed>>

\* The Reactor ends an archiving thread's session, or fails to.
FinishArchive ==
    /\ thread # NoThread /\ thread.archiving
    /\ clock + 1 \in Times
    /\ \/ /\ Dispatch([type |-> "archiveComplete", cutoff |-> clock], conn)
          /\ clock' = clock + 1
       \/ /\ Dispatch([type |-> "archiveFailed"], conn)
          /\ UNCHANGED clock
    /\ UNCHANGED <<hand, orphans, counts, browser, executed, strayed>>

-----------------------------------------------------------------------------
(***************************************************************************)
(* Trouble.                                                                *)
(***************************************************************************)

Trouble == troubles < MaxTroubles /\ troubles' = troubles + 1

\* The panes ps let go of their sockets.  Nothing recalls what went out on them: the
\* first n[p] frames under way from p still reach its handler, the rest are lost, as
\* is what was yet to be sent of the panes unsent.  A handler with no frames to come
\* matters while there is no thread.
LetGo(ps, unsent) ==
    \E n \in [ps -> 0..MaxSent] :
        /\ \A p \in ps : n[p] <= Len(conn[p].up)
        /\ LET kept == {[pane |-> p, up |-> SubSeq(conn[p].up, 1, n[p])] :
                            p \in {q \in ps : conn[q].sock = "open"}}
           IN  orphans' = orphans \cup {o \in kept : o.up # <<>> \/ thread = NoThread}
        /\ strayed' = strayed \cup {p \in ps : n[p] < Len(conn[p].up)}
                              \cup {p \in unsent : outbox[p] # <<>>}

\* The socket closes under the pane; onclose plans the next try.
Die(p) ==
    /\ Trouble
    /\ conn[p].sock = "open"
    /\ LetGo({p}, {})
    /\ conn' = [conn EXCEPT ![p] = Offline("down")]
    /\ UNCHANGED <<thread, log, hand, clock, words, sent, browser, executed, overflowed>>

\* The pane's machine is another object than before: the old socket is closed, a new
\* one opened without waiting for it, and the outbox emptied.
Retarget(p) ==
    /\ Trouble
    /\ conn[p].sock # "draft"
    /\ LetGo({p}, {p})
    /\ conn' = [conn EXCEPT ![p] = Offline("down")]
    /\ outbox' = [outbox EXCEPT ![p] = <<>>]
    /\ UNCHANGED <<thread, log, hand, clock, words, sent, stopAt, view, executed, overflowed>>

\* The page is loaded again: the view is not persisted.
Reload ==
    /\ Trouble
    /\ LetGo(Panes, Panes)
    /\ conn' = [p \in Panes |-> IF conn[p].sock = "draft" THEN conn[p] ELSE Offline("down")]
    /\ outbox' = [p \in Panes |-> <<>>]
    /\ stopAt' = [p \in Panes |-> None]
    /\ view' = EmptyView
    /\ overflowed' = FALSE
    /\ UNCHANGED <<thread, log, hand, clock, words, sent, executed>>

\* The server restarts and reconciles (ReconcileOrphanedThreads).
Reboot ==
    /\ Trouble
    /\ hand' = <<>>
    /\ LET cs == [p \in Panes |-> IF conn[p].sock = "open" THEN Offline("down") ELSE conn[p]]
       IN  IF thread # NoThread /\ thread.archiving
           THEN /\ clock + 1 \in Times /\ clock' = clock + 1
                /\ Dispatch([type |-> "archiveComplete", cutoff |-> clock], cs)
           ELSE /\ UNCHANGED clock
                /\ IF thread # NoThread /\ ~thread.archived /\ thread.status \in {"running", "waiting"}
                   THEN Dispatch([type |-> "sessionSet", at |-> 0, change |-> Reconciling], cs)
                   ELSE conn' = cs /\ UNCHANGED <<thread, log, overflowed>>
    /\ orphans' = {}
    /\ strayed' = strayed \cup {p \in Panes : conn[p].up # <<>>}
                          \cup {o.pane : o \in {x \in orphans : x.up # <<>>}}
    /\ UNCHANGED <<words, sent, browser, executed>>

-----------------------------------------------------------------------------

\* A pane starts as a draft: the thread does not exist, or the pane does not know
\* yet that another device has created it.
Init ==
    /\ log = <<>> \/ \E i \in Instances :
            log = Decide(NoThread, [type |-> "create", instance |-> i, mode |-> None])
    /\ thread = Apply(NoThread, log)
    /\ hand = <<>> /\ clock = 1
    /\ conn = [p \in Panes |-> Offline("draft")] /\ orphans = {}
    /\ outbox = [p \in Panes |-> <<>>]
    /\ stopAt = [p \in Panes |-> None]
    /\ view = EmptyView
    /\ words = 0 /\ sent = 0 /\ troubles = 0
    /\ executed = [p \in Panes |-> <<>>] /\ overflowed = FALSE /\ strayed = {}

\* What the user does with a pane.
Use(p) ==
    \/ SendTurn(p) \/ AbortTurn(p) \/ SetRuntimeMode(p) \/ Respond(p)
    \/ ArchiveSession(p) \/ ResumeSession(p)

\* What its socket and handler do by themselves.
Follow(p) ==
    \/ Subscribe(p) \/ Replay(p) \/ AutoCreate(p) \/ Forward(p) \/ HandleCommand(p)
    \/ Connect(p) \/ Receive(p) \/ Discover(p)

Provider ==
    \/ Speak \/ AskUser \/ RetireCard \/ EndTurn \/ FailTurn \/ SessionExit

Next ==
    \/ \E p \in Panes : Use(p) \/ Follow(p) \/ Die(p) \/ Retarget(p)
    \/ \E o \in orphans : LateCreate(o) \/ LateCommand(o)
    \/ Provider \/ Ingest \/ FinishArchive \/ Reload \/ Reboot

Spec == Init /\ [][Next]_vars

\* Whether Follow(p) can happen.
UnderWay(p) ==
    \/ conn[p].sock = "down"
    \/ conn[p].handler \in {"hello", "subscribed", "replayed"}
    \/ conn[p].handler = "live" /\ (conn[p].down \o conn[p].sub \o conn[p].up # <<>>)
    \/ conn[p].sock = "draft" /\ thread # NoThread

\* Sockets reconnect, and what is under way arrives; users, providers and trouble
\* owe nothing.
Fairness == \A p \in Panes : []<>~UnderWay(p) \/ []<><<Follow(p)>>_vars

FairSpec == Spec /\ Fairness

-----------------------------------------------------------------------------
(***************************************************************************)
(* Properties.                                                             *)
(***************************************************************************)

NoEmptyFrame(p) == \A k \in DOMAIN conn[p].down : conn[p].down[k] # <<>>

\* Type invariant: every piece of state has the shape the code gives it, a
\* subscription never holds more than its buffer, and no frame is empty
\* (agent_ws.go: `a client already at head must see silence').
TypeOK ==
    /\ thread \in Thread \cup {NoThread}
    /\ clock \in Times
    /\ \A p \in Panes :
        /\ conn[p].sock \in {"draft", "down", "open"}
        /\ conn[p].handler \in {"none", "hello", "subscribed", "replayed", "live"}
        /\ conn[p].handler # "none" <=> conn[p].sock = "open"
        /\ Len(conn[p].sub) <= BufferSize
        /\ NoEmptyFrame(p)
        /\ stopAt[p] \in 0..Len(log) \cup {None}
        /\ conn[p].sock = "open" => outbox[p] = <<>>
    /\ \A o \in orphans : o.pane \in Panes
    /\ view.status \in Status /\ view.mode \in RuntimeMode
    /\ view.lastSeq \in 0..Len(log)
    /\ Cards(view) \subseteq Requests

\* Whatever reconnects, replays, merges and duplicates it went through, a view is
\* what folding the log's first lastSeq events one by one makes of them: nothing
\* is skipped and nothing is folded twice, unless a full subscription lost a batch
\* since the page was loaded (eventReducer.ts, replay.go, HandleWS).
ViewIsPrefix ==
    overflowed \/
    view = ReduceAgentEvents(EmptyView, Wire(1, view.lastSeq))

\* The reducer is `safe to re-apply an overlapping tail' of a replay: nothing the
\* provider said once is in the transcript twice, however many panes share the view
\* (eventReducer.ts, reduceAgentEvents).
ToldOnce ==
    \A k \in DOMAIN view.items : LET text == view.items[k].text IN
        \A i, j \in DOMAIN text : text[i] = text[j] => i = j

\* An archive failed: a card fenced off while it lasted is nowhere, and the status
\* that follows it, dispatched after the failure, is in.
ArchiveFell == \E k \in DOMAIN log : log[k].type = "archiveFailed"

\* A view that waits has a card to wait for: the panel painted on `waiting' is
\* never empty, also between the frames (workers.go, Ingestion.handle: status last),
\* unless an archive failed between the card and the status.
WaitingShowsCard ==
    overflowed \/ ArchiveFell \/ (view.status = "waiting" => Cards(view) # {})

\* An error since which nothing has set the thread's status.
SetsStatus(e) ==
    \/ e.type \in {"turnStartRequested", "archived", "resumed"}
    \/ e.type = "sessionSet" /\ e.change.status # None
ErrorStands ==
    \E k \in DOMAIN log :
        /\ log[k].type = "activityAppended" /\ log[k].body.kind \in {"error", "reactorError"}
        /\ \A j \in (k + 1)..Len(log) : ~SetsStatus(log[j])

\* A browser that has seen everything agrees with the server: same mode, same
\* archive state, a card for every request the server waits for; and the same
\* status, but for an error shown before the server has settled and for a card the
\* server no longer has (the client half of the projector, settleAfterPending).
AgreesWithServer ==
    ~overflowed /\ hand = <<>> /\ view.lastSeq = Len(log) /\ thread # NoThread =>
        /\ view.mode = thread.mode
        /\ view.archived = thread.archived /\ view.archiving = thread.archiving
        /\ {r \in thread.pending : Logged(Opened(r)) /\ ~Logged(Resolved(r))} \subseteq Cards(view)
        /\ Cards(view) = thread.pending /\ ~ErrorStands => view.status = thread.status

\* A command of a pane reaches the engine at most once, through outboxes, reconnects
\* and handlers of old sockets that read on (outboxRef: `this queue never mints a new
\* one for the same user action'); and one that comes after a newer command was under
\* way on a socket the pane had let go of (dispatch, onopen, readLoop).
CommandsInOrder ==
    [][\A p \in Panes : executed'[p] # executed[p] =>
        LET n == executed'[p][Len(executed'[p])]
            earlier == {executed[p][k] : k \in DOMAIN executed[p]}
        IN  /\ n \notin earlier
            /\ \/ \A m \in earlier : m < n
               \/ \E o \in orphans : o.pane = p /\ o.up # <<>> /\ Head(o.up).number = n]_vars

\* The commands of p that may still reach the engine.
Unheard(p) ==
    {conn[p].up[k].command : k \in DOMAIN conn[p].up}
        \cup {outbox[p][k].command : k \in DOMAIN outbox[p]}
        \cup UNION {{o.up[k].command : k \in DOMAIN o.up} : o \in {x \in orphans : x.pane = p}}

\* A pane that shows idle because Stop was pressed, while the thread runs, has its
\* interrupt still to be heard or news on the way, or has lost a command with a
\* socket: the override ends by itself (abortPending: `It expires itself'), unless
\* a full subscription lost a batch.
IdleIsExcused ==
    overflowed \/ \A p \in Panes : ShownStatus(p) # view.status =>
        \/ \E c \in Unheard(p) : c.type = "turnInterrupt"
        \/ view.lastSeq < Len(log)
        \/ p \in strayed

\* The browser catches up: when sockets stop dying, it has seen the whole log, and
\* nothing is left unsent (exact replay from the last seq; Subscribe before the
\* snapshot), unless a full subscription lost a batch.
CatchesUp == <>[](overflowed \/ (view.lastSeq = Len(log) /\ \A p \in Panes : outbox[p] = <<>>))
=============================================================================
