---------------------------- MODULE ThreadRules ----------------------------
(***************************************************************************)
(* The two pure functions of the event-sourced engine                      *)
(* (backend/internal/agentcore/orchestration/engine.go), for one thread:   *)
(* Decide, which turns a command into events or rejects it, and applyOne,  *)
(* the projector.                                                          *)
(*                                                                         *)
(* Left out of a thread's record: what neither function ever reads back    *)
(* (Overview, CurrentTurn, ContextTokens, UpdatedAt, the interaction mode, *)
(* the turn counter) and the text of messages, plans and activities.       *)
(***************************************************************************)
EXTENDS Permission, Naturals, Sequences

CONSTANTS Instances,     \* provider instances, "<kind>:<name>"
          Antigravity,   \* those of kind antigravity
          Requests,      \* ids of approval and user-input requests
          Times,         \* time stamps
          None,          \* an empty string or a nil
          NoThread       \* no entry in State.Threads

Status == {"idle", "running", "waiting", "stopped"}

\* A created thread's mode is whatever the client sent, valid or not.
ThreadMode == RuntimeMode \cup {"unknown"}

\* Thread.  cursor: the instance whose conversation ResumeCursor names; cutoff:
\* ProviderEventCutoff, a time stamp, 0 when the thread was never archived.
Thread ==
    [status : Status, instance : Instances, mode : ThreadMode,
     pending : SUBSET Requests, inFlight : BOOLEAN, steered : BOOLEAN,
     cursor : Instances \cup {None}, plan : BOOLEAN,
     archiving : BOOLEAN, archived : BOOLEAN, cutoff : Times \cup {0}, deleted : BOOLEAN]

ASSUME RulesAssumption ==
    /\ Antigravity \subseteq Instances
    /\ None \notin Instances \cup Requests \cup ThreadMode \cup Status
    /\ Times \subseteq Nat \ {0}
    /\ NoThread \notin Thread

-----------------------------------------------------------------------------
(***************************************************************************)
(* Commands and events.  `at' is providerEventAt: when the provider        *)
(* produced what a command reports, 0 for a command from anyone else.      *)
(***************************************************************************)

\* What a session-set may say (its JSON payload; absent fields are None).
SessionChange ==
    [status : Status \cup {None}, cursor : Instances \cup {None},
     add : Requests \cup {None}, remove : Requests \cup {None}, clear : BOOLEAN]

NoChange == [status |-> None, cursor |-> None, add |-> None, remove |-> None, clear |-> FALSE]

\* The session-sets the program dispatches: SessionStarted or the end of a turn;
\* a card opened; a card resolved; a session over; boot reconciliation.
Settling(s, i) == [NoChange EXCEPT !.status = s, !.cursor = i]
Asking(r) == [NoChange EXCEPT !.status = "waiting", !.add = r]
Resolving(r) == [NoChange EXCEPT !.remove = r]
Stopping == [NoChange EXCEPT !.status = "stopped"]
Reconciling == [NoChange EXCEPT !.status = "idle", !.clear = TRUE]

SessionChanges ==
    {Settling(s, i) : s \in {"running", "idle"}, i \in Instances \cup {None}}
    \cup {Asking(r) : r \in Requests} \cup {Resolving(r) : r \in Requests}
    \cup {Stopping, Reconciling}

\* Mutant of WorkCommands: the mode of an archived thread can still be set.
WorkCommandsButMode == {"turnStart", "respond", "sessionStop", "turnInterrupt"}

\* Commands a closed (archiving or archived) thread rejects.
WorkCommands == {"turnStart", "respond", "runtimeModeSet", "sessionStop", "turnInterrupt"}

\* Commands of the archive family.
LifecycleCommands == {"archive", "resume", "archiveComplete", "archiveFailed"}

Command ==
    [type : {"create"}, instance : Instances, mode : ThreadMode \cup {None}]
    \cup [type : {"turnStart"}, instance : Instances \cup {None}]
    \cup [type : {"respond"}, request : Requests]
    \cup [type : {"runtimeModeSet"}, mode : ThreadMode]
    \cup [type : {"archiveComplete"}, cutoff : Times]
    \cup [type : {"sessionSet"}, change : SessionChanges, at : Times \cup {0}]
    \cup [type : {"activityAppend", "planPropose"}, at : Times \cup {0}]
    \cup [type : {"turnInterrupt", "sessionStop", "archive", "resume", "archiveFailed", "delete"}]

Event ==
    [type : {"created"}, instance : Instances, mode : ThreadMode \cup {None}]
    \cup [type : {"turnStartRequested"}, instance : Instances \cup {None}]
    \cup [type : {"responseRequested"}, request : Requests]
    \cup [type : {"runtimeModeSet"}, mode : ThreadMode]
    \cup [type : {"archived"}, cutoff : Times]
    \cup [type : {"sessionSet"}, change : SessionChanges]
    \cup [type : {"activityAppended", "planProposed", "turnInterruptRequested",
                  "sessionStopRequested", "archiveRequested", "archiveFailed",
                  "resumed", "lifecycleUnchanged", "deleted"}]

-----------------------------------------------------------------------------
(***************************************************************************)
(* Decide.                                                                 *)
(***************************************************************************)

Closed(t) == t # NoThread /\ (t.archiving \/ t.archived)
Live(t) == t # NoThread /\ ~t.deleted

\* Mutant of Fenced: the cutoff is forgotten with the archive.
FencedWhileClosed(t, c) ==
    /\ c.type \in {"sessionSet", "activityAppend", "planPropose"}
    /\ c.at # 0
    /\ Closed(t)

\* Output of a provider that ran before the thread was archived, or as it was.
Fenced(t, c) ==
    /\ c.type \in {"sessionSet", "activityAppend", "planPropose"}
    /\ c.at # 0
    /\ Closed(t) \/ (t # NoThread /\ c.at <= t.cutoff)

\* The modes an antigravity thread can run under.
AntigravityModes == {"auto", "full-access"}

\* The instance a turn runs on: the one it names, or else the thread's.
TurnInstance(t, c) == IF c.instance = None THEN t.instance ELSE c.instance

\* The switch on the command's type: does Decide accept c?  (A fenced command is
\* accepted and comes to nothing.)
Accepts(t, c) ==
    \/ Fenced(t, c)
    \/ /\ c.type \in WorkCommands => ~Closed(t)
       /\ c.type = "create" =>
             /\ t = NoThread
             /\ c.instance \in Antigravity => c.mode \in AntigravityModes \cup {None}
       /\ c.type = "turnStart" =>
             /\ Live(t)
             /\ t.inFlight => {TurnInstance(t, c), t.instance} \cap Antigravity = {}
       /\ c.type = "respond" => t # NoThread /\ c.request \in t.pending
       /\ c.type = "runtimeModeSet" =>
             /\ Live(t) /\ c.mode \in RuntimeMode
             /\ t.instance \in Antigravity => c.mode \in AntigravityModes
       /\ c.type \in LifecycleCommands => Live(t)
       /\ c.type = "archiveComplete" => t.archived \/ t.archiving
       /\ c.type = "resume" => ~t.archiving

\* Mutant of Rehomed: the mode stays behind.
NeverRehomed(t, c) == FALSE

\* A turn that moves the thread to an antigravity instance brings the mode along.
Rehomed(t, c) ==
    /\ TurnInstance(t, c) \in Antigravity
    /\ TurnInstance(t, c) # t.instance
    /\ t.mode \notin AntigravityModes

\* The events of an accepted command.
Decide(t, c) ==
    IF Fenced(t, c) THEN <<>> ELSE
    CASE c.type = "create" ->
            <<[type |-> "created", instance |-> c.instance,
               mode |-> IF c.instance \in Antigravity /\ c.mode = None THEN "auto" ELSE c.mode]>>
      [] c.type = "turnStart" ->
            LET start == [type |-> "turnStartRequested", instance |-> c.instance] IN
            IF Rehomed(t, c) THEN <<[type |-> "runtimeModeSet", mode |-> "auto"], start>>
            ELSE <<start>>
      [] c.type = "respond" -> <<[type |-> "responseRequested", request |-> c.request]>>
      [] c.type = "runtimeModeSet" -> <<[type |-> "runtimeModeSet", mode |-> c.mode]>>
      [] c.type = "archive" ->
            <<[type |-> IF Closed(t) THEN "lifecycleUnchanged" ELSE "archiveRequested"]>>
      [] c.type = "archiveComplete" ->
            IF t.archived THEN <<>> ELSE <<[type |-> "archived", cutoff |-> c.cutoff]>>
      [] c.type = "resume" ->
            <<[type |-> IF t.archived THEN "resumed" ELSE "lifecycleUnchanged"]>>
      [] c.type = "sessionSet" -> <<[type |-> "sessionSet", change |-> c.change]>>
      [] c.type = "activityAppend" -> <<[type |-> "activityAppended"]>>
      [] c.type = "planPropose" -> <<[type |-> "planProposed"]>>
      [] c.type = "turnInterrupt" -> <<[type |-> "turnInterruptRequested"]>>
      [] c.type = "sessionStop" -> <<[type |-> "sessionStopRequested"]>>
      [] c.type = "archiveFailed" -> <<[type |-> "archiveFailed"]>>
      [] c.type = "delete" -> <<[type |-> "deleted"]>>

-----------------------------------------------------------------------------
(***************************************************************************)
(* applyOne.                                                               *)
(***************************************************************************)

\* EvtThreadCreated: a fresh thread, whatever was there before.
NewThread(e) ==
    [status |-> "idle", instance |-> e.instance,
     mode |-> IF e.mode # None THEN e.mode
              ELSE IF e.instance \in Antigravity THEN "auto" ELSE "approval-required",
     pending |-> {}, inFlight |-> FALSE, steered |-> FALSE, cursor |-> None,
     plan |-> FALSE, archiving |-> FALSE, archived |-> FALSE, cutoff |-> 0, deleted |-> FALSE]

\* Mutants of Unblocked: the wait does not end; the request stays answerable.
UnblockedStillWaiting(t, r) == [t EXCEPT !.pending = @ \ {r}]
UnblockedStillPending(t, r) ==
    [t EXCEPT !.status = IF @ = "waiting" /\ t.pending \subseteq {r} THEN "running" ELSE @]

\* A request leaves the pending set; the last one out ends the wait.
Unblocked(t, r) ==
    [t EXCEPT !.pending = @ \ {r},
              !.status = IF @ = "waiting" /\ t.pending \subseteq {r} THEN "running" ELSE @]

\* Mutant of SessionSet: the status is assigned even when the payload has none.
SessionSetBlindly(t, change) ==
    LET settled == [t EXCEPT !.status = change.status,
                             !.inFlight = IF change.status \in {"idle", "stopped"}
                                            THEN FALSE ELSE @]
    IN  [settled EXCEPT !.pending = IF change.clear THEN {} ELSE @]

\* EvtThreadSessionSet, field by field in the projector's order.
SessionSet(t, change) ==
    LET settled == IF change.status = None THEN t
                   ELSE [t EXCEPT !.status = change.status,
                                  !.inFlight = IF change.status \in {"idle", "stopped"}
                                                 THEN FALSE ELSE @]
        resumable == IF change.cursor = None THEN settled
                     ELSE [settled EXCEPT !.cursor = change.cursor]
        asked == IF change.add = None THEN resumable
                 ELSE [resumable EXCEPT !.pending = @ \cup {change.add}, !.status = "waiting"]
        answered == IF change.remove = None THEN asked ELSE Unblocked(asked, change.remove)
    IN  IF change.clear THEN [answered EXCEPT !.pending = {}] ELSE answered

TurnStarted(t, e) ==
    LET moved == e.instance # None /\ e.instance # t.instance IN
    [t EXCEPT !.instance = IF moved THEN e.instance ELSE @,
              !.cursor = IF moved THEN None ELSE @,
              !.steered = t.inFlight, !.inFlight = TRUE,
              !.status = "running", !.plan = FALSE]

Archived(t, e) ==
    [t EXCEPT !.archiving = FALSE, !.archived = TRUE, !.cutoff = e.cutoff,
              !.status = "stopped", !.inFlight = FALSE, !.pending = {}, !.plan = FALSE]

\* What an archived thread's projection ignores.
Muted == {"sessionSet", "activityAppended", "turnStartRequested", "planProposed"}

ApplyOne(t, e) ==
    IF e.type = "created" THEN NewThread(e)
    ELSE IF t = NoThread \/ (t.archived /\ e.type \in Muted) THEN t
    ELSE CASE e.type = "archiveRequested" -> [t EXCEPT !.archiving = TRUE]
           [] e.type = "archiveFailed" -> [t EXCEPT !.archiving = FALSE]
           [] e.type = "archived" -> Archived(t, e)
           [] e.type = "resumed" -> [t EXCEPT !.archived = FALSE, !.status = "idle"]
           [] e.type = "turnStartRequested" -> TurnStarted(t, e)
           [] e.type = "planProposed" -> [t EXCEPT !.plan = TRUE]
           [] e.type = "responseRequested" -> Unblocked(t, e.request)
           [] e.type = "runtimeModeSet" -> [t EXCEPT !.mode = e.mode]
           [] e.type = "sessionSet" -> SessionSet(t, e.change)
           [] e.type = "deleted" -> [t EXCEPT !.deleted = TRUE, !.status = "stopped"]
           [] OTHER -> t

\* Apply over the events of one command: there are at most two.
Apply(t, es) ==
    CASE Len(es) = 0 -> t
      [] Len(es) = 1 -> ApplyOne(t, es[1])
      [] Len(es) = 2 -> ApplyOne(ApplyOne(t, es[1]), es[2])
=============================================================================
