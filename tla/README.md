# DevDeck in TLA+

DevDeck is a self-hosted workbench: a Go backend (a *hub* and any number of
*runtimes*) and a React front end for worktrees, terminals, SSH hosts and chats
with coding agents (claude, codex, opencode, pi, antigravity). These modules
model three parts of it.

The first is its **agent core**, `backend/internal/agentcore`: the event-sourced
engine behind every chat, the approval gate that stands between an agent and a
host, the workers that connect both to the agents' processes, the deletion of a
conversation, and, at the other end of the WebSocket, how a browser follows a
conversation (`features/agent-chat`). An error here runs a command nobody
allowed, leaves a conversation that cannot be moved, or shows one that never
took place.

The second is the **file tab** of the front end (`features/terminal`,
`features/data/queries.ts`): an editor that saves itself while agents, shells and
checkouts write the same file. An error here loses typing.

The third is the **terminal registry** (`backend/internal/terminal`): shells that
outlive the sockets that show them. An error here repeats or loses output, leaves a
terminal that never answers, or a shell nobody can find.

Paths below are relative to the repository; line numbers are in `PROJECT.json`.

## 1. The system

### Parts, state, operations

| part | source | state | operations |
|---|---|---|---|
| permission matrix | `agentcore/provider/provider.go` | none | does a mode let an action run unprompted |
| approval gate | `agentcore/approval/gate.go` | entries by request, session-wide grants, a channel per request | Open, AwaitClass, Resolve, CancelThread, ReleasePending, sweep |
| decider and projector | `agentcore/orchestration/engine.go` (`Decide`, `applyOne`) | none (pure) | command to events, event to read model |
| engine loop and log | `engine.go` (`Run`, `process`), `store/agentevent.go`, `handler/agent_thread.go` | queue, in-memory `State`, event rows, receipts | Dispatch, process, DeleteThread, boot replay |
| ingestion | `orchestration/workers.go` (`Ingestion`) | text buffers | Consume (one goroutine per provider instance), Inject, handle |
| reactor | `workers.go` (`Reactor`) | thread directory, session options | one reaction per committed intent event |
| tool prompter, SSH tools | `orchestration/toolprompt.go`, `service/ssh_tool.go` | none of their own | authorize, Ask |
| provider adapters | `agentcore/provider/*` | sessions, processes, event channels | StartSession, SendTurn, InterruptTurn, StopSession, read loop |
| agent WebSocket, replay, reducer | `handler/agent_ws.go`, `orchestration/replay.go`, `features/agent-chat/{useAgentChatSocket,eventReducer}.ts` | subscriptions, outbox, the shared view with its last sequence number | hello, live events, replay, command frames, reconnect |
| file tab | `features/terminal/{fileBuffer,useFileAutoSave}.ts`, `FileEditor.tsx`, `ExpandedTerminal.tsx`, `features/data/queries.ts`, `service/worktree_file.go` | buffer, debounce, query cache, writes in flight, close prompt | type, auto-save, save, revert, close, leave, reopen |
| terminal registry | `terminal/{registry,pty,server}.go`, `features/terminal/Terminal.tsx` | the session per id; each session's ring buffer, queued replay and attached socket | spawn, attach, pump, detach, discard, kill |
| pane layout | `features/terminal/paneTree.ts`, `features/tabs/tileTree.ts` | tree of panes and tabs (a value) | split, move, close |
| authentication | `service/auth.go` | tokens, attempt counters | login, lockout, step-up |
| SSH pool and forwards | `sshmgr/pool.go`, `forward.go` | shared connections | acquire, evict, reconnect |
| telegram bridge | `telegram/bridge.go` | paired chats, cards | relay of cards and answers |
| hub and runtime synchronisation | `service/sync.go`, `store/projectsync.go`, `service/machinehealth.go` | project copies, machine health | push, pull, bind |

The rest (machine clients, the editor front end, self-update, the database
explorer, CRUD handlers, ...) is listed in `PROJECT.json` with the reason it is
left aside.

### How they interact

```
  operator --WebSocket--> Engine.Dispatch --queue--> worker: Decide, commit, swap
                                                        |  publish
       +------------------------------------------------+
       v                                                v
  browsers                                      Reactor (one goroutine)
                                                   |           |
                             Resolve/CancelThread/ |           | StartSession, SendTurn,
                             ReleasePending        v           v InterruptTurn, StopSession
  SSH tool call: authorize -> Ask --------------> Gate       adapter, agent process
                               | Inject                        | event channel (lossy)
                               +---------> Ingestion.handle <--+ Consume
                                                |
                                                +--> Engine.Dispatch (session-set, activity, plan)
```

A thread's status is written by three parties that do not wait for one another:
the operator's commands, which commit at once; the Reactor, which carries them
out later and settles the thread; and Ingestion, which reports what the process
said some time ago. Approvals cross all of them.

### What is hard, and what makes each part correct

* **Gate.** A decision is recorded under the mutex and sent after it; answers,
  cancels and mode releases race with the goroutine that is still on its way to
  wait. Correct: a parked call can always be freed, by the one decision on
  record; nothing is released that the mode still gates; session grants fall with
  an interrupt; cancels never contradict an answer.
* **Decider and projector.** Commands and late provider output in any order,
  archive cycles, moves between agents. Correct: archived threads are frozen, a
  waiting thread has a card, antigravity's restrictions hold by every route.
* **Engine loop.** Retries, callers that give up, failing commits, crashes
  between two steps, DELETE handlers outside the queue. Correct: memory follows
  the log, a command runs at most once, an acknowledgement survives.
* **Tool calls.** The call, the card, the gate and the Reactor's queue are four
  clocks. Correct: cards and callers belong together, nothing runs that the
  operator did not let through, an interrupt is always a way out.
* **Turns.** Processes die, stops fail, channels overflow, the operator changes
  agents. Correct: no turn nobody ends, one process at a time, none behind an
  archive, no conversation resumed by another agent.
* **WebSocket and replay.** Subscribe before snapshot, dropped batches, coalesced
  and chunked replay, commands given while nothing is connected. Correct: the
  browser's view is the projection of a prefix of the log and catches up; commands
  arrive at most once, and in order but for those still on a socket the pane has let go
  of; what the pane claims on its own ends by itself.
* **File tab.** A debounce, four ways to send a write, one fetch at a time, and a
  file other programs write. Correct: typing is never nowhere, no old fetch undoes
  a save, typing reaches the disk unasked, and a conflict is a real one.
* **Terminals.** A lookup and a spawn that are two steps, a pump that writes outside
  its lock, sockets that replace one another, shells that end meanwhile. Correct: a
  socket is sent its stream once and in order; a running shell can be found; no
  socket waits on a pump that runs.
* **Authentication, SSH pool, synchronisation, pane layout** (not
  modelled). See the plan.

Every hazard found while reading is in `PROJECT.json` under `hazards`, with the
properties that cover it.

## 2. The modules

| module | models | notes |
|---|---|---|
| `Permission` | modes, decisions, `AllowsUnprompted`, the session shortcut | operators only |
| `Gate` | `approval.Gate` | one action per critical section, one per send or callback after the unlock |
| `ApprovalPromise` | what the gate owes its callers | abstract: five actions per request |
| `ThreadRules` | `Decide`, `Apply`, `applyOne` for one thread | operators only |
| `ThreadLife` | one thread under any sequence of commands | the abstract specification of the engine |
| `Engine` | the worker, the log, receipts, DELETE, reboot | each store call and critical section a step |
| `ToolCall` | authorize, Ask, the card's events, the Reactor's approval side | composes `ThreadRules` with the gate's promise |
| `Turns` | ensureSession, turns, stops, archives, adapters, Ingestion | composes `ThreadRules` with the processes |
| `ChatView` | the client's reducer and `CoalesceReplay` | operators only, over `ThreadRules`' events |
| `ChatSync` | panes, sockets, the WebSocket handler, the engine's subscriptions | composes `ThreadRules` and `ChatView` |
| `FileBuffer` | `fileBuffer.ts` | operators only |
| `FileTab` | one open file: tab, auto-save, query, writes, close prompt | uses `FileBuffer` |
| `Terminals` | the shells of one session id, their pumps, the registry, the sockets' handlers | |
| `MC*` | instances for TLC | |
| `*Proofs` | the TLAPS proofs | |

Two refinements hold this together. `Gate` implements `ApprovalPromise`, so
`ToolCall` may reduce the gate to one cell per request. `Engine` implements
`ThreadLife` for every thread, so `ToolCall`, `Turns` and `ChatSync` may treat a
dispatched command as one step.

### Correspondence with the code

**Gate.** `entries`, `sessionAccepted` are the maps; an absent record is a missing
key, `expired` a `decidedAt` older than the tombstone's life. `sending[r]` is a
decision a method has unlocked and not yet put in `e.ch`; `channel[r]` is `e.ch`.
`waiter[r]` is the program counter of the goroutine in `AwaitClass`: `coming`
between Open and AwaitClass, `parked` in the select, `leaving` before
`dropLocked`. Every method sweeps first (`Swept`). A tombstone is taken to outlive
the two hand-overs its comment sizes it for (`Expire`'s guard): two minutes
against microseconds. `verdict` and `cancelled` are history.

**ThreadRules.** A thread's record has the fields the two functions read back.
`cursor` is reduced to the instance whose conversation `ResumeCursor` names.
Message text, plans' and activities' text, the interaction mode, the overview and
the turn counter are left out: no guard modelled here depends on them, except the
options restart's `Turns > 1`, which `Turns` leaves open. A command's `at` is
`providerEventAt`. A `session-set` ranges over the payloads the program
dispatches (`SessionChanges`), not over all JSON.

**Engine.** `worker` holds the command in `process` and how far it is: receipt
look-up, Decide, commit (one transaction, which may fail), swap and reply. `rows`
is the thread's part of the log as batches, `disk` what replaying them gives
(`DiskIsReplay` checks that), `receipts` the receipt table. `Erase` and `Forget`
are the two halves of `DELETE /agent/threads/{id}`; at most one handler is between
them per thread. A caller that times out leaves its envelope in the queue, so
giving up needs no action. `torn` is history: the threads whose DELETE was
overtaken (see findings).

**ToolCall.** `call[r]` is the goroutine of one SSH tool call, from `authorize`
through `Ask` to its return; `handle` is split where it reads the thread, opens
the gate, and dispatches. The Reactor's `inbox` holds the intents of committed
events in order; a reaction that dispatches at its end puts that end back at the
head, so that calls and commands interleave with it. `authorize`'s two reads (mode,
grant) are one step; an injection's own timeout and a command that commits after
its injector gave up on a closed thread are left out. The thread is in a turn
throughout, and starts in a mode `create` accepts for its agent.

**Turns.** `session[i]` is the adapter's entry for the thread, `turns[i]` the
messages its process has yet to answer, `out[i]` the adapter's channel, which drops
when full, and `hand[i]` the command `handle` has decided on and not yet
dispatched. `handle` reads the thread two or three times at its top; that is one
look here, and the dispatch is a later step. `ensureSession` is split into what it
does before the start (`Ensure`) and the start (`Begin`), each of which may fail.
Any message may bring other options than the session runs under, and restart it
unless the thread is steered; whether that restart resumes the conversation (an
earlier turn exists) is left open. A stop that fails leaves the session as it was, or `condemned`: told to stop, and to
die without a word. The process model is claude's; `clock` advances at archives
only, which is all a cutoff can tell apart.

**ChatView.** A `view` is `AgentThreadView` reduced to what tells two folds apart:
status, archive state, mode, cards, and of the transcript the identity, kind and
text of its rows. `FoldOne` is one turn of the reducer's loop. A delta's text is
the numbers of the deltas in it, so that a lost, repeated or misplaced piece
shows. `CoalesceReplay` is the server's.

**ChatSync.** `conn[p]` is pane p's socket and everything between it and the
engine: the handler's stage (`hello`, `subscribed`, `replayed`, `live`: Subscribe
comes before the snapshot), its subscription `sub` (batches; a full one drops), the
replay frames `down` and the command frames `up`. `view` is shared by the panes, as
in the store; `outbox`, `stopAt` (`abortedAtSeq`) are a pane's own. `hand` is what
Ingestion's handler or reportError has yet to dispatch: a card and the status that
waits for it are two commands, so that everything can come in between. `Die`,
`Retarget` (the machine record becomes another object), `Reload` and `Reboot` are
the troubles. A socket the pane lets go of is not recalled: of the command frames under
way on it any first ones still reach the handler it had (`LetGo`), which reads on in
`orphans` beside the next socket's handler, creates the thread if nobody has
(`LateCreate`) and dispatches what it reads (`LateCommand`), whatever has been sent
since; the rest are lost, and the pane is `strayed`. What such a handler writes, its
replay included, reaches nobody, so that its earlier stages are not told apart; a
restart ends it. The thread either does not exist at first or another device has just
created it. `executed` (the numbers of a pane's commands, as they came to the engine),
`overflowed`, `strayed` are history.

**FileTab.** `buffer` is the committed `FileBuffer`; the editor renders `Synced`, the
buffer after the cache's content is folded in, and `Draft`, `Dirty`, `Conflicted`
derive from that as in the component. `cache` and `read` are TanStack Query's data
and its one fetch; a write's answer cancels the fetch and asks for another. `put`
has one place per kind of writer, as only the auto-save hook keeps its writes
apart; a write is `sent`, `applied` on disk, `landed` (answered, its refetch out)
and `done`. A flush that finds a write under way is `queued` behind it, or `left`
when its instance is gone. Auto-save is taken to be on. `owed`, `refused` and
`lost` are history: the newest typing until it has been on disk or was given up.

**Terminals.** `shells` holds every `ptySession` of the id in the order they were
started, `registered` is the registry's entry. Output is counted in reads of the PTY:
`read` is what the reader has handed over, `flushed` what has entered the ring buffer,
`evicted` what has left it. `pump` is where the pump is: in its select (`run`), writing
outside the lock what it took (`write`, with `to` and `frames`), or about to tell of
the end (`lastWrite`, `tell`). A nudge is no state: a queued replay is what it stands
for. `conns` are the sockets with their handlers (`spawning`, `attaching`, `reading`,
`gone`); that attachPTY looks up, spawns and attaches in three steps is what makes the
two races below. Writes get through whole or the socket is closed: the deadline of a
chunk decides. `overwritten`, `ousted` and a socket's `since` are history.

## 3. The runs

| run | instance | distinct states | shows |
|---|---|---|---|
| `gate` | a tool call and a provider's card, on two threads | 11,600 | TypeOK, ParkedIsReachable, ReleaseObeysMatrix, GrantStands, CancelNeverContradicts, KeepsPromise (with liveness) |
| `thread_life` | all commands, two instances (one antigravity), two requests, two times | 20,900 | StatusIsHonest, AntigravityIsHonest, ArchiveFreezes |
| `engine` | one thread with a card answered twice, one create that must be refused | 40,100 | LogIsSound, MemoryMatchesLog, RunsAtMostOnce, AckedIsDurable, ThreadsLive |
| `tool_call` | a read and a write, two operator commands | 425,000 | CardsMatchCalls, RunsAreLicensed, InterruptFrees (liveness) |
| `turns` | two agents, three commands, channels of one | 962,500 | TurnsEnd, OneSession, ArchivedHasNoProcess, ArchiveCutsOff |
| `chat` | one pane, one question, two commands, two words of the provider, one trouble | 893,500 | ViewIsPrefix, WaitingShowsCard, AgreesWithServer, CommandsInOrder, IdleIsExcused, CatchesUp (liveness) |
| `file_tab` | two texts of the operator, one of others, four acts, one trouble | 480,900 | DraftIsSafe, NoStaleRead, EditsReachDisk (liveness) |
| `terminals` | two shells, two sockets, two reads, a ring buffer of one | 447,100 | StreamIsExact, LiveIsRegistered, WaitsEnd (liveness) |
| `engine_delete`, `turns_resume`, `chat_panes`, `file_conflict` | | | each refutes a sentence of the repository (section 5) |

Every property of a passing run has a mutant in `PROJECT.json`: a plausible bug
in one definition, written beside it, under which TLC finds the property
violated.

**Bounds, and why they are enough.** Requests: two, on two threads, so that a cancel or
a release of one thread must leave the other alone. Two requests of one thread, which
share its grant and its cancels, were explored with the same properties (11,400
states), and so were three, two of them on one thread (421,000); the theorems hold for
any number. Engine: one queue slot, because a command's place in the
queue has no effect but its order, and five command ids, each of which can be sent
any number of times; the set contains a retry, a rejection, two answers to one
card and a re-creation. `MaxCommands` (ToolCall, Turns) bounds what the operator
sends, not what processes, callers, timeouts or reboots do; the shortest
counterexamples to the refuted sentences need two or three commands, and so do the
mutants. `ChannelSize = 1` makes dropping possible at once; channels of two were
also explored for two commands. Chat: a buffer and a chunk of two, so that both
overflow and both split a replay, two words, so that there is a run to merge, and two
commands and one trouble, so that the second can overtake the first, left behind on a
dead socket. Two cards at once (an approval and a question) were explored with the same
properties (1,754,700 states), and three commands and three troubles without a provider
for safety (976,200); the invariants and CommandsInOrder are theorems for any number of
either (section 4).
File tab: two texts are a draft and a newer one; a safety exploration with six
acts and two troubles covered eleven million states without an error before it was
stopped. Terminals: two shells are the one that ends and its successor, two sockets
the one that is replaced and its replacement; with a ring buffer of one read the second
read evicts. Three sockets and one shell were explored for safety. `MCAnswers` and
`MCModes` keep one member of each class the code tells apart.

**Deadlock.** The check is off where the bounds, or people, let the system stop:
the gate's run (a request is asked once, and when all have left nothing happens any
more), and the terminal, chat and file tab runs (a user who has done all the bound
allows).
Everywhere else a reboot is always possible, and the check is on.

**Fairness.** Gate: each goroutine's own steps are weakly fair (the Go scheduler
runs what can run); people, contexts and tombstones owe nothing. ToolCall: the same
for the Reactor and the calls, nothing for operator or caller, so InterruptFrees
rests on no answer, no timeout and no provider. ChatSync: a pane that can connect,
send, receive or replay does so again and again (`openSocket`'s retries, the
handler's loops). FileTab: an armed debounce fires, a fetch and a write get on;
nothing is asked of the operator, of other writers or of luck. Terminals: a pump runs,
and no write of its takes for ever (`connWriteTimeout`); processes, handlers and
browsers owe nothing. The last three write weak fairness out
(`[]<>~enabled \/ []<><<A>>_vars`), with the enabling condition as a definition. Engine, ThreadLife and Turns state safety only.

## 4. The proofs

All theorems hold for any sets of requests, threads, instances, commands, items,
panes, times and texts and any bounds, under the modules' ASSUMEs: instances,
requests, ids, decisions, texts, buffers and writes are distinct from the null values,
times are positive and, in `ChatSync`, there is a first one; in `Turns` there are
enough of them to stamp every archive the bound on commands allows; queues and
subscriptions have room for one; what the operator types is not what others write.
The ASSUMEs are evaluated by TLC in the passing runs. One theorem has a hypothesis of
its own, because without it the statement is false: `ViewsArePrefixes` is about a
thread that one pane shows (finding 3 is what happens with two).

Every safety property the passing runs check is proved, and every one of the
inductive invariants was first checked by TLC as an invariant of its module's run (but
for the quantifier over types in the Engine's `Shape`, which TLC cannot evaluate).
ChatSync's `OrderInv` was checked on three commands and three troubles. The proofs all go the same way: a named invariant `IInv` whose
parts say what each actor relies on, one lemma for each action that it is kept, and the
properties as consequences.

**Induction over data.** The log, the replayed batch and the replay's output are folded
by recursive functions. The induction theorems of the library take an operator as a
parameter, which no backend can instantiate; `Least` and `Induction` in
`ThreadRulesProofs` say the same of a set (a subset of Nat that has 0 and is closed
under successor is Nat), from `NatLessThanWellFounded` and `WFMin`. That a recursive
function exists at all is the first thing shown with them (`ReducingExists`,
`ReplayOf`).

* **GateProofs.** `GateTypeOK`, `ParkedCallsAreReachable`, `ReleasesObeyTheMatrix`,
  `SessionGrantsStand`, `CancelsNeverContradict`, from one inductive invariant.
  None of the properties is inductive alone: `EntryInv` ties a request's entry to
  its verdict and its waiter (an open entry has no verdict and a class at least as
  strict as the truth; an asker on its way finds its entry), `VerdictInv` ties the
  verdict to what is being sent, in the channel or handed out. One lemma per
  action; the three deciding methods share `DecideKeeps`. `GateImplementsPromise`
  maps every step to a step of `ApprovalPromise` or a stutter.
* **ThreadRulesProofs.** `Sound` is the conjunction of a thread's
  type and its invariants; the lemmas show, event by event, that projecting keeps
  it (`HandleSound`, `OverSound`), which cards a command's events raise and settle
  (`CardsAreRaised`, `AnswersSettle`), and what the runs of events the other proofs
  fold are. For `ThreadLife`: `ThreadTypeOK`, `StatusesAreHonest`,
  `AntigravityThreadsAreHonest`, and the action property `ArchivedThreadsAreFrozen`.
* **EngineProofs.** `EngineTypeOK`, `MemoryFollowsTheLog`, `CommandsRunAtMostOnce`,
  `AcksAreDurable`, `LogsAreSound`, and `ThreadsLiveByTheRules`, the refinement of
  `ThreadLife`.
  The crux is what happens when a DELETE cuts in between Decide and the swap:
  `InHand` says the events in the worker's hand still fit the thread they will be
  applied to, or come to nothing; `Coupled` says memory and log agree or one of
  them is empty; `Follows` says that for a thread no write overtook only a DELETE
  half done makes a difference. `LogsAreSound` is about the rows: a batch more is one
  turn more of the replay, and `CardsReraised`, which makes it inductive, adds to
  `AnswersFollowCards` that a card pending on disk was raised after the last answer to
  it.
* **FileTabProofs.** `FileTabTypeOK`, `DraftsAreSafe`, `ReadsAreFresh`. That typing
  is never nowhere is not inductive, because what the editor shows depends on the
  cache it is about to fold in. `DraftInv` adds: what a mounted tab owes is never
  what the cache has (`CacheInv`), so that what is on screen is an unsaved edit of
  the buffer and survives whatever is folded in (`ScreenShows`, from
  `SyncKeepsEdits`, the rule of `fileBuffer.ts`); nobody types while the close
  prompt's own write is out, which therefore carries the newest text (`PromptInv`,
  `SavingInv`); and a text queued behind a departed hook's write has that write
  before it (`LeftInv`). `FreshRead` strengthens NoStaleRead: of the writes under
  way only those the server has carried out are an excuse for an old fetch.
* **ToolCallProofs.** `ToolCallTyped`, `CardsAndCallsMatch`, `NoCallRunsUnlicensed`.
  The card, the gate and the caller of a request are written by three parties; neither
  property is inductive, because each speaks of two of them at a time. `CardAgrees` adds
  that a card goes up once and is answered once; `GateAgrees` that a caller still
  waiting has its request on the gate, and that it is decided once an archive is about to
  complete (the Reactor cancels first); `LicenceAgrees` moves the licence forward from
  the run to the moment a decision reaches the gate, and says that a mode change still
  in the inbox is among the modes that count for every call under way; `InboxAgrees`
  that a queued answer is the one the operator gave, and that at most one archive is on
  its way, under a closed thread. `DecidingKeeps` serves every reaction that decides
  open requests. The proof gives a little more than the run checks: closing a thread is
  not by itself an excuse for a parked call without a card.
* **TurnsProofs.** `TurnsTyped`, `OneAgentAtATime`, `ArchivedThreadsAreQuiet`,
  `NoTurnIsForgotten`, and the action property `ArchiveCutsOffOutput`. They hang
  together through the shape of the Reactor's inbox (`Ordered`, `HeadFits`): only its
  head can be the rest of a reaction, an archive is the last thing in it, a message for
  an agent the thread has since left is followed by another message, and what the head
  takes for granted about the session (none, before a start or at the end of an archive)
  still holds. `ClockAhead` keeps every cutoff before the next archive's stamp.
* **TerminalsProofs.** `TerminalsTyped`, `OutputIsExact`, `LiveShellsAreFound`. `Fed`
  says of every socket that is up that what it was sent, what the pump is writing to it
  outside its lock and what is queued for it are together its stream, or a prefix if
  another socket took its place; `Places`, that nobody writes to a socket before it is
  attached, or for another shell. `ReadsJoin` and its neighbours are the facts about
  runs of reads that evictions and flushes need.

* **ChatSyncProofs.** `ChatTyped`, `ViewsArePrefixes`, `PanelsFollowTheLog`,
  `WaitingHasCards`, `ViewsAgreeWithServer`, `OnlyLateCommandsAreOvertaken`,
  `IdlePanesAreExcused`. The reference is `At(l, n)`: the first n events of the log
  folded one by one.
  The first half of the module is about the two loops. A frame is a chain of wire
  events, each standing for a stretch of the log (itself, or the run of deltas merged
  into it); folding a chain onto `At(l, n)` gives `At` where the chain ends, and what
  overlaps with the view is skipped. That a merged run does what its deltas do one by one
  is where one pane matters: it holds if the view has none of the run, or all. For the
  panels a run may also be half seen, since deltas touch the transcript only
  (`SameCore`), so that `PanelsFollowTheLog` needs no hypothesis on panes.
  The second half is about the system. `Streamed`: what the browser has, the frames on
  the way and the subscription join without a hole, up to the end of the log, at every
  stage of the handler. `World`: the thread and the fold of the whole log tell the same
  story (`Match`, with the two discrepancies a late card and an early answer make), and
  every prefix of the log is fit to be shown (`Shows`). `Handy`: a status in a
  handler's hand still has its card before it, unless it was fenced off, and then an
  archive is under way or has failed. `Stopped` is the excuse of Stop: its interrupt is
  under way, waiting or on an old socket, or a command was lost.
  The order of the commands has an invariant of its own, `OrderInv`: what waits in a pane
  was sent later than all of its commands that ran or are on old sockets, and what is
  on an old socket has not run and is on no other. It is kept by four kinds of step
  (`OrderLetGo`, `OrderIssued`, `OrderHeard`, `OrderLate`), and the action property
  follows from it.

Only model-checked: liveness, which the provers do not reach. That is the fairness half
of KeepsPromise, InterruptFrees, CatchesUp, EditsReachDisk and WaitsEnd. (`ToldOnce`,
`StateIsTheLog`, and the properties of the other two violation runs are refuted.)

Three lessons of the ChatSync proofs went back into the model, where its bounds had
hidden them. `ErrorStands` let any session-set end an error, also one that says nothing
of the status, so that AgreesWithServer asked too much. A request counted as new if no
card had been logged for it; one whose card was fenced off by an archive that then failed,
and whose status came through, could have been asked again while it was pending. It is
`Unused` only if it is not pending either: the CLI gives every control request an id of
its own. And IdleIsExcused needs the exception ViewIsPrefix has, a full subscription: the
news that would end the override may be what it dropped. (Of the model's form, the
reducer and the replay are recursive functions now, and the deltas of an item are
counted as a set, as tlapm can reason about both.)

## 5. Findings

Four sentences of the repository that the code does not keep; each has a run whose
counterexample shows it, and an entry in `PROJECT.json`.

1. **`engine_delete`.** DELETE erases the log and then forgets the thread, outside
   the queue. A re-creation that commits in between is forgotten in memory and
   present in the log: commands fail until the next restart. (engine.go:801-803,
   agent_thread.go:76-79)
2. **`turns_resume`.** `handle` checks the instance and dispatches later, and Decide
   does not check again: the old agent's conversation id can land on a thread that
   has just moved to another agent, which is later started with it.
   (engine.go:455-457, workers.go:161)
3. **`chat_panes`.** The reducer skips what it has by the event's seq, but a
   replayed run of deltas is one event with the run's last seq. A pane that opens or
   reconnects while another pane of the thread is fed live is sent a run the shared
   view already has the start of, and the start is shown twice. (eventReducer.ts:6,
   828-830; one pane alone is safe, `ViewIsPrefix`)
4. **`file_conflict`.** An operator who types, is auto-saved, and types on before the
   write is answered is told that the file changed on disk, although nobody else
   wrote it. Auto-save then stands down, the pass queued behind the write included;
   `Reload from disk` would discard the newer typing, and leaving the workspace drops
   it. (fileBuffer.ts:81-84)

Seen on the way and only noted.

*Agent core.* An archive that fails leaves a thread whose turn ended meanwhile shown
as running until the operator presses Stop (`TurnsEnd` names the exception). A
session that exits leaves its own cards pending. While a thread is archiving, the event
that closes a tool card is dropped; if the archive then fails the card stays with nobody
behind it, although toolprompt.go:32-35 says Ask closes it on every exit path
(`CardsHaveCallers` names the exception). Boot reconciliation skips an idle
thread with a leftover card. A card opened just after a mode release stays up
although the new mode would not have asked. The Reactor releases cards by the mode
of the event it is reacting to: a switch to full access that was taken back while
it was busy still accepts a card raised afterwards, although main.go:2114-2119
says a switch takes effect on the very next tool call (`RunsAreLicensed` counts such
a mode as a licence). `Never under a turn` (workers.go:1237) has a gap: the late end
of an earlier turn or process, or a failed first start, settles the thread while a newer
message is being worked on, and the next message with other options restarts the
process under it.

*Chat.* A batch dropped for a full subscription is never asked for again once a
later one has moved `lastSeq` past it (engine.go:837). The reducer does not read
`clearPending`, so a card the boot reconciliation cleared stays up. The outbox is
emptied when the machine record is refetched as another object
(useAgentChatSocket.ts:283-285); an interrupt on a dying socket is lost. One that is
not lost may come late: nothing recalls the frames on a socket that was replaced
(useAgentChatSocket.ts:393-405), and its handler reads on beside the next one
(agent_ws.go:194-214), so that a message can be dispatched after the Stop that followed
it and start the turn that was to be stopped (`CommandsInOrder` says that nothing else
is overtaken). A card
fenced off while archiving, followed by a failed archive, can leave a view waiting
without a card (`WaitingShowsCard`'s exception).

*File tab and panes.* Ctrl+S followed by the debounce, or a save from the close
prompt, puts two PUTs on the way, and the older may land last, although
useFileAutoSave.ts:89-91 keeps the hook's own apart. Typing back to the original
while an auto-save is under way brings the undone text back. Leaving a conflicted
tab, or dragging it into a split, drops the draft without a word. A failed auto-save
is not tried again before the next edit or blur. A write under way can re-create a
file that is being deleted. `handleCloseConfirmSave` (ExpandedTerminal.tsx:577) and
`handleUntitledSaved` write a layout they took before awaiting the save: a terminal
tab opened meanwhile is dropped, one that exited comes back, and `nextTerminalSeq`,
`never reused' by paneTree.ts, is rolled back. Save As onto a path that is open in
another leaf shows it twice.

*Terminals.* Two sockets that look the session up before either has started a shell
start one each (pty.go:89); the one that registers first runs on unregistered, so that
neither `kill` nor `killByWorktree` finds it, and its socket's `detach` does not clear
its place (`overwritten` in LiveIsRegistered). A socket that looks a session up just
before its pump ends, and attaches after, is sent nothing and keeps answering pings: the
terminal shows that it is attaching until somebody reconnects it. A window that another
one replaced on the same session stays connected and silent. If `cmd.Wait` returns before
the reader has drained the PTY, closing it can cut off the last output. When the notice
of the end is lost the client reconnects, and starts a fresh shell.

## 6. Not modelled

Within the modelled parts: a full buffer on the Reactor's own subscription (its
inbox misses nothing; browsers' subscriptions do drop); what a session's options are
and whether a restart for them resumes; interaction modes; buffered text;
provider-side cards beyond their place in a browser's view; the exchange with the
host that an authorised tool performs. The per-thread sidebar table is left out of
the commit. Adapters other than claude's, where stopping may only unsubscribe, are
not told apart. Outside `Engine` a dispatched command never fails to commit. The gate's
tombstones are not swept early (`Expire`). A tool card's closing injection neither fails
nor times out by itself. In the chat there is one thread key; one event handler at a time
has commands to dispatch (`hand` is shared by Ingestion and reportError); the provider
speaks, asks and ends turns only under a turn; creating the thread on connecting does not
fail; sub-agents, plans, usage, tool rows, banners, and the composer's drafts and
attachments are left out. Left out in the terminals: input and resizes, the reaper
(`graceTTL` is zero), what the notices say. In the file tab: deleting, Save As, untitled
tabs, several files under one prompt, and a second departed hook's write while the first
one's is out.

The pane layout itself is pure functions over a value, unit-tested; what can go
wrong is that a handler uses an old layout after an await (section 5), which is in
the plan. Parts left for later or out of reach are listed in `PROJECT.json`: the
database explorer, CRUD handlers, invoices, completions and their like keep no state
with interesting interleavings, and most of the front end's lines render it.

## 7. Plan

Done, in this order: Gate and ApprovalPromise; ThreadRules, ThreadLife and Engine;
ToolCall; Turns, with restarts for other options; ChatView and ChatSync; FileBuffer
and FileTab; Terminals; the proofs of every one of them: all the safety properties of
the passing runs.

Next:

1. `Layout`: the tabs of a workspace and the terminal sessions behind them, with the
   handlers that write a layout after an await; a session without a tab is ended, a
   sequence number never comes back.
2. `Lockout`: attempt counting of `service/auth.go`.
3. `Pool`: dial sharing and eviction of SSH connections.
4. `ProjectSync`: two copies of a project and lost or repeated pushes.

Runs: one passing run per module, violations only where a sentence of the
repository is refuted.
