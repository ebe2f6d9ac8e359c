---------------------------- MODULE ToolCallProofs ----------------------------
(***************************************************************************)
(* Proofs about ToolCall, for any calls, modes and bounds.                 *)
(*                                                                         *)
(* The card, the gate and the caller of a request are written by three     *)
(* parties, and Agree says for one request what they rely on: a card goes  *)
(* up once, so that it is answered once; a caller without a card has its   *)
(* gate decided before an archive can complete; whatever will let a call   *)
(* run has a licence from the moment it reaches the gate.                  *)
(***************************************************************************)
EXTENDS ToolCall, ThreadRulesProofs

\* Before the card.
Before == {"none", "look", "open", "card"}

\* An archive that has cancelled what was parked is about to complete.
Ending == inbox # <<>> /\ inbox[1].type = "archiveComplete"

\* The modes that count for r.
Known(r) == inForce[r] \cup lagging[r]

CardAgrees(r) ==
    /\ call[r] \in Before => r \notin thread.pending /\ clicked[r] = None
    /\ clicked[r] # None => r \notin thread.pending
    /\ r \in thread.pending => call[r] \in {"await", "parked", "close", "retire"} \/ lost[r] # "no"

\* A call that waits for its card to be answered.
Waiting(r) == call[r] \in {"await", "parked"} /\ lost[r] # "noCard"

GateAgrees(r) ==
    /\ call[r] \in {"none", "look", "open"} => gate[r] = "absent"
    /\ call[r] \in {"card", "parked"} \/ Waiting(r) => gate[r] # "absent"
    /\ Waiting(r) /\ gate[r] \notin Decision /\ clicked[r] = None => r \in thread.pending
    /\ Waiting(r) /\ Ending => gate[r] \in Decision

\* A call at `stage' runs, or will by what the gate or its caller holds.
Favours(stage, g, d) ==
    \/ stage \notin {"none", "ran", "refused"} /\ g \in Approvals
    \/ stage \in {"close", "retire"} /\ d \in Approvals
    \/ stage = "ran"

Favoured(r) == Favours(call[r], gate[r], decision[r])

LicenceAgrees(r) ==
    /\ Favoured(r) => Licensed(r, Known(r))
    /\ Underway(r) => \A n \in DOMAIN inbox : inbox[n].type = "mode" => inbox[n].mode \in Known(r)

Archives == {"archive", "archiveComplete", "archiveFailed"}

InboxAgrees ==
    /\ \A n \in DOMAIN inbox :
          /\ inbox[n].type = "respond" => clicked[inbox[n].request] = inbox[n].decision
          /\ inbox[n].type \in Archives =>
                /\ thread.archiving
                /\ \A m \in DOMAIN inbox : inbox[m].type \in Archives => m = n
          /\ inbox[n].type = "archiveComplete" => n = 1

GrantStands == granted => \E q \in Requests : clicked[q] = "acceptForSession"

IInv ==
    /\ TypeOK /\ Sound(thread) /\ thread.mode \in RuntimeMode
    /\ InboxAgrees /\ GrantStands
    /\ \A r \in Requests : CardAgrees(r) /\ GateAgrees(r) /\ LicenceAgrees(r)

-----------------------------------------------------------------------------
(***************************************************************************)
(* What the commands do to the thread.                                     *)
(***************************************************************************)

LEMMA ThreadIs ==
    ASSUME IInv
    PROVE  /\ Sound(thread) /\ thread \in Thread /\ thread # NoThread
           /\ thread.archived => thread.pending = {} /\ ~thread.archiving
BY RulesAssumption DEF IInv, Sound

\* What a session-set leaves alone.
SameLife(t, u) == u.mode = t.mode /\ u.archiving = t.archiving /\ u.archived = t.archived

LEMMA SettingEffect ==
    ASSUME NEW t \in Thread, NEW s \in {"running", "idle"}, NEW i \in Instances \cup {None}
    PROVE  LET u == SessionSet(t, Settling(s, i)) IN SameLife(t, u) /\ u.pending = t.pending
<1> DEFINE change == Settling(s, i)
           w == [t EXCEPT !.status = s, !.inFlight = IF s \in {"idle", "stopped"} THEN FALSE ELSE @]
<1>1. /\ change.status = s /\ change.cursor = i /\ change.add = None
      /\ change.remove = None /\ change.clear = FALSE /\ s # None
  BY RulesAssumption DEF NoChange, Settling, Status
<1> HIDE DEF change
<1>2. SessionSet(t, change) = IF i = None THEN w ELSE [w EXCEPT !.cursor = i]
  BY <1>1 DEF SessionSet
<1>3. w \in Thread /\ SameLife(t, w) /\ w.pending = t.pending
  BY DEF Thread, Status, SameLife
<1> HIDE DEF w
<1>4. LET v == [w EXCEPT !.cursor = i] IN SameLife(w, v) /\ v.pending = w.pending
  BY <1>3 DEF Thread, SameLife
<1> QED BY <1>2, <1>3, <1>4 DEF SameLife, change

LEMMA StoppingEffect ==
    ASSUME NEW t \in Thread
    PROVE  LET u == SessionSet(t, Stopping) IN SameLife(t, u) /\ u.pending = t.pending
<1>1. /\ Stopping.status = "stopped" /\ Stopping.cursor = None /\ Stopping.add = None
      /\ Stopping.remove = None /\ Stopping.clear = FALSE /\ "stopped" # None
  BY RulesAssumption DEF NoChange, Stopping, Status
<1>2. SessionSet(t, Stopping) = [t EXCEPT !.status = "stopped", !.inFlight = FALSE]
  BY <1>1 DEF SessionSet
<1> QED BY <1>2 DEF Thread, SameLife

LEMMA AskingEffect ==
    ASSUME NEW t \in Thread, NEW r \in Requests
    PROVE  LET u == SessionSet(t, Asking(r)) IN SameLife(t, u) /\ u.pending = t.pending \cup {r}
<1> DEFINE change == Asking(r)
           w == [t EXCEPT !.status = "waiting",
                          !.inFlight = IF "waiting" \in {"idle", "stopped"} THEN FALSE ELSE @]
<1>1. /\ change.status = "waiting" /\ change.cursor = None /\ change.add = r /\ r # None
      /\ change.remove = None /\ change.clear = FALSE /\ "waiting" # None
  BY RulesAssumption DEF NoChange, Asking, Status
<1> HIDE DEF change
<1>2. SessionSet(t, change) = [w EXCEPT !.pending = @ \cup {r}, !.status = "waiting"]
  BY <1>1 DEF SessionSet
<1>3. w \in Thread /\ SameLife(t, w) /\ w.pending = t.pending
  BY DEF Thread, Status, SameLife
<1> HIDE DEF w
<1>4. LET v == [w EXCEPT !.pending = @ \cup {r}, !.status = "waiting"] IN
      SameLife(w, v) /\ v.pending = w.pending \cup {r}
  BY <1>3 DEF Thread, SameLife
<1> QED BY <1>2, <1>3, <1>4 DEF SameLife, change

LEMMA ResolvingEffect ==
    ASSUME NEW t \in Thread, NEW r \in Requests
    PROVE  LET u == SessionSet(t, Resolving(r)) IN SameLife(t, u) /\ u.pending = t.pending \ {r}
<1> DEFINE change == Resolving(r)
<1>1. /\ change.status = None /\ change.cursor = None /\ change.add = None /\ r # None
      /\ change.remove = r /\ change.clear = FALSE
  BY RulesAssumption DEF NoChange, Resolving
<1> HIDE DEF change
<1>2. SessionSet(t, change) = Unblocked(t, r)
  BY <1>1 DEF SessionSet
<1> QED BY <1>2 DEF Unblocked, Thread, SameLife, change

\* The session-sets of this module are always accepted, and muted by an archive.
LEMMA SetDispatched ==
    ASSUME IInv, NEW change \in SessionChanges
    PROVE  LET u == Dispatched(SessionSetting(change)) IN
           Sound(u) /\ u = IF thread.archived THEN thread ELSE SessionSet(thread, change)
<1> DEFINE c == SessionSetting(change)
           e == [type |-> "sessionSet", change |-> change]
<1>1. c \in Command /\ c.type = "sessionSet" /\ c.change = change /\ ~Fenced(thread, c)
  BY DEF Command, SessionSetting, Fenced
<1> HIDE DEF c
<1>2. Accepts(thread, c)
  BY <1>1 DEF Accepts, WorkCommands, LifecycleCommands
<1>3. Dispatched(c) = Apply(thread, Decide(thread, c)) /\ Sound(Dispatched(c))
  BY <1>1, <1>2, ThreadIs, HandleSound DEF Dispatched
<1>4. Decide(thread, c) = <<e>>
  BY <1>1 DEF Decide
<1>5. ApplyOne(thread, e) = IF thread.archived THEN thread ELSE SessionSet(thread, change)
  BY ThreadIs DEF ApplyOne, Muted
<1> QED BY <1>3, <1>4, <1>5 DEF Apply, c

LEMMA Changes ==
    /\ \A r \in Requests : Asking(r) \in SessionChanges /\ Resolving(r) \in SessionChanges
    /\ Settling("idle", None) \in SessionChanges
    /\ Stopping \in SessionChanges /\ Reconciling \in SessionChanges
BY DEF SessionChanges

LEMMA AskedIs ==
    ASSUME IInv, NEW r \in Requests
    PROVE  LET u == Dispatched(SessionSetting(Asking(r))) IN
           /\ Sound(u) /\ SameLife(thread, u)
           /\ u.pending = IF thread.archived THEN thread.pending ELSE thread.pending \cup {r}
<1>1. Asking(r) \in SessionChanges /\ thread \in Thread
  BY Changes, ThreadIs
<1>2. LET u == SessionSet(thread, Asking(r)) IN
      SameLife(thread, u) /\ u.pending = thread.pending \cup {r}
  BY <1>1, AskingEffect
<1>3. LET u == Dispatched(SessionSetting(Asking(r))) IN
      Sound(u) /\ u = IF thread.archived THEN thread ELSE SessionSet(thread, Asking(r))
  BY <1>1, SetDispatched
<1> QED BY <1>2, <1>3 DEF SameLife

LEMMA ResolvedIs ==
    ASSUME IInv, NEW r \in Requests
    PROVE  LET u == Dispatched(SessionSetting(Resolving(r))) IN
           Sound(u) /\ SameLife(thread, u) /\ u.pending = thread.pending \ {r}
BY SetDispatched, Changes, ThreadIs, ResolvingEffect DEF SameLife

\* The end of an interrupt or a stop.
LEMMA SettledIs ==
    ASSUME IInv, NEW change \in {Settling("idle", None), Stopping}
    PROVE  LET u == Dispatched(SessionSetting(change)) IN
           Sound(u) /\ SameLife(thread, u) /\ u.pending = thread.pending
BY SetDispatched, Changes, ThreadIs, SettingEffect, StoppingEffect DEF SameLife

\* A command the engine may refuse leaves the thread as it is, or applies it.
LEMMA UnarchivedIs ==
    ASSUME IInv
    PROVE  LET u == Dispatched([type |-> "archiveFailed"]) IN
           /\ Sound(u) /\ u.mode = thread.mode /\ u.pending = thread.pending
<1> DEFINE c == [type |-> "archiveFailed"]
<1>1. c \in Command /\ ~Fenced(thread, c)
  BY DEF Command, Fenced
<1>2. CASE ~Accepts(thread, c)
  BY <1>2, ThreadIs DEF Dispatched
<1>3. CASE Accepts(thread, c)
  <2>1. Dispatched(c) = Apply(thread, Decide(thread, c)) /\ Sound(Dispatched(c))
    BY <1>1, <1>3, ThreadIs, HandleSound DEF Dispatched
  <2>2. Decide(thread, c) = <<c>>
    BY <1>1 DEF Decide
  <2>3. ApplyOne(thread, c) = [thread EXCEPT !.archiving = FALSE]
    BY ThreadIs DEF ApplyOne, Muted
  <2>4. Dispatched(c) = [thread EXCEPT !.archiving = FALSE]
    BY <2>1, <2>2, <2>3 DEF Apply
  <2> QED BY <2>1, <2>4, ThreadIs DEF Thread
<1> QED BY <1>2, <1>3

LEMMA ArchivedIs ==
    ASSUME IInv, NEW cutoff \in Times
    PROVE  LET u == Dispatched([type |-> "archiveComplete", cutoff |-> cutoff]) IN
           /\ Sound(u) /\ u.mode = thread.mode /\ u.pending \subseteq thread.pending
<1> DEFINE c == [type |-> "archiveComplete", cutoff |-> cutoff]
           e == [type |-> "archived", cutoff |-> cutoff]
<1>1. c \in Command /\ ~Fenced(thread, c)
  BY DEF Command, Fenced
<1>2. CASE ~Accepts(thread, c)
  BY <1>2, ThreadIs DEF Dispatched
<1>3. CASE Accepts(thread, c)
  <2>1. Dispatched(c) = Apply(thread, Decide(thread, c)) /\ Sound(Dispatched(c))
    BY <1>1, <1>3, ThreadIs, HandleSound DEF Dispatched
  <2>2. CASE thread.archived
    <3>1. Decide(thread, c) = <<>>
      BY <1>1, <2>2 DEF Decide
    <3> QED BY <2>1, <3>1 DEF Apply
  <2>3. CASE ~thread.archived
    <3>1. Decide(thread, c) = <<e>>
      BY <1>1, <2>3 DEF Decide
    <3>2. ApplyOne(thread, e) = Archived(thread, e)
      BY ThreadIs DEF ApplyOne, Muted
    <3>3. Dispatched(c) = Archived(thread, e)
      BY <2>1, <3>1, <3>2 DEF Apply
    <3> QED BY <2>1, <3>3, ThreadIs DEF Archived, Thread
  <2> QED BY <2>2, <2>3
<1> QED BY <1>2, <1>3

\* An accepted command of the operator's.
LEMMA RespondIs ==
    ASSUME IInv, NEW r \in Requests, Accepts(thread, [type |-> "respond", request |-> r])
    PROVE  LET c == [type |-> "respond", request |-> r]
               u == Apply(thread, Decide(thread, c)) IN
           /\ r \in thread.pending /\ Sound(u) /\ SameLife(thread, u)
           /\ u.pending = thread.pending \ {r}
<1> DEFINE c == [type |-> "respond", request |-> r]
           e == [type |-> "responseRequested", request |-> r]
<1>1. c \in Command /\ ~Fenced(thread, c)
  BY DEF Command, Fenced
<1>2. Sound(Apply(thread, Decide(thread, c)))
  BY <1>1, ThreadIs, HandleSound
<1>3. r \in thread.pending
  BY <1>1 DEF Accepts
<1>4. Decide(thread, c) = <<e>>
  BY <1>1 DEF Decide
<1>5. ApplyOne(thread, e) = Unblocked(thread, r)
  BY ThreadIs DEF ApplyOne, Muted
<1>6. Apply(thread, Decide(thread, c)) = Unblocked(thread, r)
  BY <1>4, <1>5 DEF Apply
<1> QED BY <1>2, <1>3, <1>6, ThreadIs DEF Unblocked, Thread, SameLife

LEMMA ModeIs ==
    ASSUME IInv, NEW m \in RuntimeMode, Accepts(thread, [type |-> "runtimeModeSet", mode |-> m])
    PROVE  LET c == [type |-> "runtimeModeSet", mode |-> m]
               u == Apply(thread, Decide(thread, c)) IN
           /\ Sound(u) /\ u.mode = m /\ u.pending = thread.pending
           /\ u.archiving = thread.archiving
<1> DEFINE c == [type |-> "runtimeModeSet", mode |-> m]
<1>1. c \in Command /\ ~Fenced(thread, c)
  BY DEF Command, Fenced, ThreadMode
<1>2. Sound(Apply(thread, Decide(thread, c)))
  BY <1>1, ThreadIs, HandleSound
<1>3. Decide(thread, c) = <<c>>
  BY <1>1 DEF Decide
<1>4. ApplyOne(thread, c) = [thread EXCEPT !.mode = m]
  BY ThreadIs DEF ApplyOne, Muted
<1>5. Apply(thread, Decide(thread, c)) = [thread EXCEPT !.mode = m]
  BY <1>3, <1>4 DEF Apply
<1> QED BY <1>2, <1>5, ThreadIs DEF Thread

LEMMA AskIs ==
    ASSUME IInv, NEW type \in {"turnInterrupt", "sessionStop"}
    PROVE  Apply(thread, Decide(thread, [type |-> type])) = thread
<1> DEFINE c == [type |-> type]
<1>1. ~Fenced(thread, c)
  BY DEF Fenced
<1>2. PICK e : /\ Decide(thread, c) = <<e>>
               /\ e.type \in {"turnInterruptRequested", "sessionStopRequested"}
  BY <1>1 DEF Decide
<1>3. ApplyOne(thread, e) = thread
  BY <1>2 DEF ApplyOne
<1> QED BY <1>2, <1>3 DEF Apply

LEMMA ArchiveIs ==
    ASSUME IInv, Accepts(thread, [type |-> "archive"])
    PROVE  LET u == Apply(thread, Decide(thread, [type |-> "archive"])) IN
           /\ Sound(u) /\ u.mode = thread.mode /\ u.pending = thread.pending
           /\ Closed(thread) => u.archiving = thread.archiving
           /\ ~Closed(thread) => u.archiving
<1> DEFINE c == [type |-> "archive"]
<1>1. c \in Command /\ ~Fenced(thread, c)
  BY DEF Command, Fenced
<1>2. Sound(Apply(thread, Decide(thread, c)))
  BY <1>1, ThreadIs, HandleSound
<1>3. Decide(thread, c) = <<[type |-> IF Closed(thread) THEN "lifecycleUnchanged" ELSE "archiveRequested"]>>
  BY <1>1 DEF Decide
<1>4. CASE Closed(thread)
  <2>1. ApplyOne(thread, [type |-> "lifecycleUnchanged"]) = thread
    BY ThreadIs DEF ApplyOne
  <2> QED BY <1>2, <1>3, <1>4, <2>1 DEF Apply
<1>5. CASE ~Closed(thread)
  <2>1. ApplyOne(thread, [type |-> "archiveRequested"]) = [thread EXCEPT !.archiving = TRUE]
    BY ThreadIs DEF ApplyOne, Muted
  <2>2. Apply(thread, Decide(thread, c)) = [thread EXCEPT !.archiving = TRUE]
    BY <1>3, <1>5, <2>1 DEF Apply
  <2> QED BY <1>2, <1>5, <2>2, ThreadIs DEF Thread
<1> QED BY <1>4, <1>5

LEMMA ResumeIs ==
    ASSUME IInv, Accepts(thread, [type |-> "resume"])
    PROVE  LET u == Apply(thread, Decide(thread, [type |-> "resume"])) IN
           /\ Sound(u) /\ u.mode = thread.mode /\ u.pending = thread.pending
           /\ u.archiving = thread.archiving
<1> DEFINE c == [type |-> "resume"]
<1>1. c \in Command /\ ~Fenced(thread, c)
  BY DEF Command, Fenced
<1>2. Sound(Apply(thread, Decide(thread, c)))
  BY <1>1, ThreadIs, HandleSound
<1>3. Decide(thread, c) = <<[type |-> IF thread.archived THEN "resumed" ELSE "lifecycleUnchanged"]>>
  BY <1>1 DEF Decide
<1>4. CASE thread.archived
  <2>1. ApplyOne(thread, [type |-> "resumed"]) = [thread EXCEPT !.archived = FALSE, !.status = "idle"]
    BY ThreadIs DEF ApplyOne, Muted
  <2>2. Apply(thread, Decide(thread, c)) = [thread EXCEPT !.archived = FALSE, !.status = "idle"]
    BY <1>3, <1>4, <2>1 DEF Apply
  <2> QED BY <1>2, <2>2, ThreadIs DEF Thread
<1>5. CASE ~thread.archived
  <2>1. ApplyOne(thread, [type |-> "lifecycleUnchanged"]) = thread
    BY ThreadIs DEF ApplyOne
  <2> QED BY <1>2, <1>3, <1>5, <2>1 DEF Apply
<1> QED BY <1>4, <1>5

-----------------------------------------------------------------------------
(***************************************************************************)
(* A step of one call.                                                     *)
(***************************************************************************)

LEMMA CallTypes ==
    ASSUME IInv
    PROVE  /\ gate \in [Requests -> {"absent", "open"} \cup Decision]
           /\ call \in [Requests -> Stage] /\ lost \in [Requests -> Loss]
           /\ decision \in [Requests -> Decision \cup {None}]
           /\ clicked \in [Requests -> Decision \cup {None}]
           /\ inForce \in [Requests -> SUBSET RuntimeMode]
           /\ lagging \in [Requests -> SUBSET RuntimeMode]
           /\ None \notin Decision /\ inbox \in Seq(Intent)
BY ToolCallAssumption DEF IInv, TypeOK

\* What a request is known by does not change, nor what its licence rests on.
Untouched(r) ==
    /\ call'[r] = call[r] /\ gate'[r] = gate[r] /\ decision'[r] = decision[r]
    /\ clicked'[r] = clicked[r] /\ inForce'[r] = inForce[r] /\ lagging'[r] = lagging[r]
    /\ lost'[r] = lost[r]

LEMMA LicenceLasts ==
    ASSUME NEW r \in Requests, Licensed(r, Known(r)), clicked[r] \in Approvals => clicked'[r] = clicked[r],
           inForce[r] \subseteq inForce'[r], lagging'[r] = lagging[r],
           \A q \in Requests : clicked[q] = "acceptForSession" => clicked'[q] = "acceptForSession"
    PROVE  Licensed(r, Known(r))'
BY DEF Licensed, Known

\* Every mode in the new inbox is one of the old.
NoNewMode == \A n \in DOMAIN inbox' : inbox'[n].type = "mode" =>
                 \E m \in DOMAIN inbox : inbox[m] = inbox'[n]

LEMMA BystanderKeeps ==
    ASSUME IInv, NEW r \in Requests, Untouched(r),
           (r \in thread'.pending) = (r \in thread.pending), NoNewMode, Ending' => Ending,
           \A q \in Requests : clicked[q] = "acceptForSession" => clicked'[q] = "acceptForSession"
    PROVE  CardAgrees(r)' /\ GateAgrees(r)' /\ LicenceAgrees(r)'
<1>1. CardAgrees(r) /\ GateAgrees(r) /\ LicenceAgrees(r)
  BY DEF IInv
<1>2. CardAgrees(r)'
  BY <1>1 DEF CardAgrees, Untouched
<1>3. GateAgrees(r)'
  BY <1>1 DEF GateAgrees, Waiting, Untouched
<1>4. Favoured(r)' => Licensed(r, Known(r))'
  <2>1. Favoured(r)' => Favoured(r)
    BY DEF Favoured, Untouched
  <2> QED BY <1>1, <2>1, LicenceLasts DEF LicenceAgrees, Untouched
<1>5. ASSUME Underway(r)', NEW n \in DOMAIN inbox', inbox'[n].type = "mode"
      PROVE  inbox'[n].mode \in Known(r)'
  <2>1. PICK m \in DOMAIN inbox : inbox[m] = inbox'[n]
    BY <1>5 DEF NoNewMode
  <2>2. Underway(r) /\ Known(r)' = Known(r)
    BY <1>5 DEF Underway, Known, Untouched
  <2> QED BY <1>1, <1>5, <2>1, <2>2 DEF LicenceAgrees
<1> QED BY <1>2, <1>3, <1>4, <1>5 DEF LicenceAgrees

\* The functions of the requests move at q only, and keep their types.
CallMoves(q) ==
    /\ call' \in [Requests -> Stage] /\ lost' \in [Requests -> Loss]
    /\ gate' \in [Requests -> {"absent", "open"} \cup Decision]
    /\ decision' \in [Requests -> Decision \cup {None}]
    /\ UNCHANGED <<inbox, granted, commands, clicked, inForce, lagging>>
    /\ \A r \in Requests \ {q} : call'[r] = call[r] /\ gate'[r] = gate[r]
                                 /\ decision'[r] = decision[r] /\ lost'[r] = lost[r]

\* And so do the cards on the thread.
CardsMove(q) ==
    /\ Sound(thread') /\ SameLife(thread, thread')
    /\ \A r \in Requests \ {q} : (r \in thread'.pending) = (r \in thread.pending)

LEMMA CallStepKeeps ==
    ASSUME IInv, NEW q \in Requests, CallMoves(q), CardsMove(q),
           CardAgrees(q)', GateAgrees(q)',
           Favoured(q)' => Licensed(q, Known(q)), Underway(q)' => Underway(q)
    PROVE  IInv'
<1>2. ASSUME NEW r \in Requests \ {q} PROVE Untouched(r)
  BY DEF Untouched, CallMoves
<1>3. NoNewMode /\ (Ending' => Ending) /\ Known(q)' = Known(q)
  BY DEF NoNewMode, Ending, Known, CallMoves
<1>4. ASSUME NEW r \in Requests \ {q} PROVE CardAgrees(r)' /\ GateAgrees(r)' /\ LicenceAgrees(r)'
  BY <1>2, <1>3, BystanderKeeps DEF CallMoves, CardsMove
<1>5. LicenceAgrees(q)'
  <2>1. Licensed(q, Known(q)) => Licensed(q, Known(q))'
    BY LicenceLasts DEF CallMoves
  <2>2. Underway(q) => \A n \in DOMAIN inbox : inbox[n].type = "mode" => inbox[n].mode \in Known(q)
    BY DEF IInv, LicenceAgrees
  <2> QED BY <1>3, <2>1, <2>2 DEF LicenceAgrees, CallMoves
<1>6. TypeOK'
  BY DEF IInv, TypeOK, Sound, CallMoves, CardsMove
<1>7. InboxAgrees' /\ GrantStands' /\ thread'.mode \in RuntimeMode
  BY DEF IInv, InboxAgrees, GrantStands, SameLife, CallMoves, CardsMove
<1>8. ASSUME NEW r \in Requests PROVE CardAgrees(r)' /\ GateAgrees(r)' /\ LicenceAgrees(r)'
  <2>1. CASE r = q
    BY <1>5, <2>1
  <2>2. CASE r \in Requests \ {q}
    BY <1>4, <2>2
  <2> QED BY <2>1, <2>2
<1> QED BY <1>6, <1>7, <1>8 DEF IInv, CardsMove

\* What the steps of call q start from.
LEMMA CallFacts ==
    ASSUME IInv, NEW q \in Requests
    PROVE  /\ gate[q] \in {"absent", "open"} \cup Decision /\ call[q] \in Stage
           /\ lost[q] \in Loss /\ decision[q] \in Decision \cup {None}
           /\ CardAgrees(q) /\ GateAgrees(q) /\ (Favoured(q) => Licensed(q, Known(q)))
           /\ Sound(thread) /\ SameLife(thread, thread)
           /\ Ending => Closed(thread)
           /\ Decision \cap {"absent", "open"} = {} /\ Approvals \subseteq Decision
           /\ "decline" \in Decision \ Approvals
<1>1. /\ gate[q] \in {"absent", "open"} \cup Decision /\ call[q] \in Stage
      /\ lost[q] \in Loss /\ decision[q] \in Decision \cup {None}
  BY CallTypes
<1>3. CardAgrees(q) /\ GateAgrees(q) /\ (Favoured(q) => Licensed(q, Known(q)))
  BY DEF IInv, LicenceAgrees
<1>4. Ending => Closed(thread)
  <2>1. Ending => 1 \in DOMAIN inbox
    BY CallTypes, Nonempty DEF Ending
  <2> QED BY <2>1, ThreadIs DEF IInv, InboxAgrees, Ending, Archives, Closed
<1> QED BY <1>1, <1>3, <1>4, ThreadIs DEF SameLife, Decision, Approvals

LEMMA LookKeeps == ASSUME IInv, NEW q \in Requests, Look(q) PROVE IInv'
<1>1. /\ call[q] = "look" /\ gate'[q] = gate[q] /\ decision'[q] = decision[q] /\ clicked' = clicked
      /\ thread' = thread
  BY DEF Look
<1>2. /\ CallMoves(q)
      /\ \/ Closed(thread) /\ call'[q] = "await" /\ lost'[q] = "noCard"
         \/ call'[q] = "open"
  BY CallTypes DEF Look, Goes, CallMoves, Stage, Loss
<1>3. CardsMove(q)
  BY <1>1, CallFacts DEF CardsMove
<1>4. q \notin thread.pending /\ clicked[q] = None
  BY <1>1, CallFacts DEF CardAgrees, Before
<1>5. CardAgrees(q)' /\ GateAgrees(q)'
  BY <1>1, <1>2, <1>4, CallFacts DEF CardAgrees, GateAgrees, Waiting, Before
<1>6. (Favoured(q)' => Favoured(q)) /\ Underway(q)
  BY <1>1, <1>2 DEF Favoured, Favours, Underway
<1> QED BY <1>2, <1>3, <1>5, <1>6, CallFacts, CallStepKeeps

LEMMA OpenOnGateKeeps == ASSUME IInv, NEW q \in Requests, OpenOnGate(q) PROVE IInv'
<1>1. /\ call[q] = "open" /\ lost'[q] = lost[q] /\ decision'[q] = decision[q] /\ clicked' = clicked
      /\ thread' = thread
  BY DEF OpenOnGate, history
<1>2. CallMoves(q) /\ call'[q] = "card" /\ gate'[q] = "open"
  BY CallTypes DEF OpenOnGate, Goes, history, CallMoves, Stage
<1>3. CardsMove(q)
  BY <1>1, CallFacts DEF CardsMove
<1>4. q \notin thread.pending /\ clicked[q] = None
  BY <1>1, CallFacts DEF CardAgrees, Before
<1>5. CardAgrees(q)' /\ GateAgrees(q)'
  BY <1>1, <1>2, <1>4 DEF CardAgrees, GateAgrees, Waiting, Before
<1>6. ~Favoured(q)' /\ Underway(q)
  BY <1>1, <1>2, CallFacts DEF Favoured, Favours, Underway
<1> QED BY <1>2, <1>3, <1>5, <1>6, CallStepKeeps

LEMMA OpenCardKeeps == ASSUME IInv, NEW q \in Requests, OpenCard(q) PROVE IInv'
<1>1. /\ call[q] = "card" /\ gate'[q] = gate[q] /\ decision'[q] = decision[q] /\ clicked' = clicked
      /\ inbox' = inbox /\ thread' = Dispatched(SessionSetting(Asking(q)))
  BY DEF OpenCard
<1>2. /\ CallMoves(q) /\ call'[q] = "await"
      /\ Closed(thread) => lost'[q] = "noCard"
  BY CallTypes DEF OpenCard, Goes, CallMoves, Stage, Loss
<1>3. /\ CardsMove(q)
      /\ ~thread.archived => q \in thread'.pending
  <2>1. /\ Sound(thread') /\ SameLife(thread, thread')
        /\ thread'.pending = IF thread.archived THEN thread.pending ELSE thread.pending \cup {q}
    BY <1>1, AskedIs
  <2> QED BY <2>1 DEF CardsMove
<1>4. clicked[q] = None /\ gate[q] # "absent"
  BY <1>1, CallFacts DEF CardAgrees, GateAgrees, Before
<1>5. Closed(thread) \/ (~Ending' /\ q \in thread'.pending)
  BY <1>1, <1>3, CallFacts, ThreadIs DEF Closed, Ending
<1>6. CardAgrees(q)' /\ GateAgrees(q)'
  BY <1>1, <1>2, <1>4, <1>5 DEF CardAgrees, GateAgrees, Waiting, Before
<1>7. (Favoured(q)' => Favoured(q)) /\ Underway(q)
  BY <1>1, <1>2 DEF Favoured, Favours, Underway
<1> QED BY <1>2, <1>3, <1>6, <1>7, CallFacts, CallStepKeeps

LEMMA CutShortKeeps == ASSUME IInv, NEW q \in Requests, CutShort(q) PROVE IInv'
<1>1. /\ call[q] \in {"open", "card"} /\ clicked' = clicked
      /\ thread' = thread \/ thread' = Dispatched(SessionSetting(Asking(q)))
  BY DEF CutShort
<1>2. CallMoves(q) /\ call'[q] = "refused" /\ lost'[q] = "cutShort"
  BY CallTypes DEF CutShort, Goes, CallMoves, Stage, Loss
<1>3. CardsMove(q)
  <2>1. CASE thread' = thread
    BY <2>1, CallFacts DEF CardsMove
  <2>2. CASE thread' = Dispatched(SessionSetting(Asking(q)))
    <3>1. /\ Sound(thread') /\ SameLife(thread, thread')
          /\ thread'.pending = IF thread.archived THEN thread.pending ELSE thread.pending \cup {q}
      BY <2>2, AskedIs
    <3> QED BY <3>1 DEF CardsMove
  <2> QED BY <1>1, <2>1, <2>2
<1>4. clicked[q] = None
  BY <1>1, CallFacts DEF CardAgrees, Before
<1>5. CardAgrees(q)' /\ GateAgrees(q)'
  BY <1>1, <1>2, <1>4 DEF CardAgrees, GateAgrees, Waiting, Before
<1>6. ~Favoured(q)' /\ ~Underway(q)'
  BY <1>2 DEF Favoured, Favours, Underway
<1> QED BY <1>2, <1>3, <1>5, <1>6, CallStepKeeps

LEMMA AwaitKeeps == ASSUME IInv, NEW q \in Requests, Await(q) PROVE IInv'
<1>1. /\ call[q] = "await" /\ lost'[q] = lost[q] /\ clicked' = clicked
      /\ thread' = thread /\ inbox' = inbox
  BY DEF Await, history
<1>2. /\ CallMoves(q)
      /\ \/ /\ gate[q] \in Decision /\ call'[q] = "close" /\ gate'[q] = "absent"
            /\ decision'[q] = gate[q]
         \/ /\ gate[q] \notin Decision /\ call'[q] = "parked" /\ gate'[q] = "open"
            /\ decision'[q] = decision[q]
  BY CallTypes DEF Await, Goes, history, CallMoves, Stage
<1>3. CardsMove(q)
  BY <1>1, CallFacts DEF CardsMove
<1>4. CardAgrees(q)' /\ GateAgrees(q)'
  BY <1>1, <1>2, CallFacts DEF CardAgrees, GateAgrees, Waiting, Before, Ending
<1>5. (Favoured(q)' => Favoured(q)) /\ Underway(q)
  BY <1>1, <1>2, CallFacts DEF Favoured, Favours, Underway
<1> QED BY <1>2, <1>3, <1>4, <1>5, CallFacts, CallStepKeeps

LEMMA LeaveKeeps ==
    ASSUME IInv, NEW q \in Requests, call[q] = "parked", NEW d \in Decision, Leave(q, d),
           d \in Approvals => d = gate[q]
    PROVE  IInv'
<1>1. lost'[q] = lost[q] /\ clicked' = clicked /\ thread' = thread
  BY DEF Leave, history
<1>2. CallMoves(q) /\ call'[q] = "close" /\ gate'[q] = "absent" /\ decision'[q] = d
  BY CallTypes DEF Leave, Goes, history, CallMoves, Stage
<1>3. CardsMove(q)
  BY <1>1, CallFacts DEF CardsMove
<1>4. CardAgrees(q)' /\ GateAgrees(q)'
  BY <1>1, <1>2, CallFacts DEF CardAgrees, GateAgrees, Waiting, Before
<1>5. (Favoured(q)' => Favoured(q)) /\ Underway(q)
  BY <1>1, <1>2, CallFacts DEF Favoured, Favours, Underway
<1> QED BY <1>2, <1>3, <1>4, <1>5, CallFacts, CallStepKeeps

LEMMA WakeKeeps == ASSUME IInv, NEW q \in Requests, Wake(q) PROVE IInv'
BY LeaveKeeps DEF Wake

LEMMA TimeOutKeeps == ASSUME IInv, NEW q \in Requests, TimeOut(q) PROVE IInv'
BY CallFacts, LeaveKeeps DEF TimeOut

LEMMA CloseLookKeeps == ASSUME IInv, NEW q \in Requests, CloseLook(q) PROVE IInv'
<1>1. /\ call[q] = "close" /\ gate'[q] = gate[q] /\ decision'[q] = decision[q] /\ clicked' = clicked
      /\ thread' = thread
  BY DEF CloseLook
<1>2. /\ CallMoves(q)
      /\ \/ /\ call'[q] \in {"ran", "refused"} /\ (call'[q] = "ran" => decision[q] \in Approvals)
            /\ lost'[q] = "fenced"
         \/ call'[q] = "retire" /\ lost'[q] = lost[q]
  BY CallTypes DEF CloseLook, Return, Goes, CallMoves, Stage, Loss
<1>3. CardsMove(q)
  BY <1>1, CallFacts DEF CardsMove
<1>4. CardAgrees(q)' /\ GateAgrees(q)'
  BY <1>1, <1>2, CallFacts DEF CardAgrees, GateAgrees, Waiting, Before
<1>5. (Favoured(q)' => Favoured(q)) /\ Underway(q)
  BY <1>1, <1>2 DEF Favoured, Favours, Underway
<1> QED BY <1>2, <1>3, <1>4, <1>5, CallFacts, CallStepKeeps

LEMMA RetireKeeps == ASSUME IInv, NEW q \in Requests, Retire(q) PROVE IInv'
<1>1. /\ call[q] = "retire" /\ lost'[q] = lost[q] /\ clicked' = clicked
      /\ gate'[q] = gate[q] /\ decision'[q] = decision[q]
      /\ thread' = Dispatched(SessionSetting(Resolving(q)))
  BY DEF Retire, history
<1>2. /\ CallMoves(q) /\ call'[q] \in {"ran", "refused"}
      /\ call'[q] = "ran" => decision[q] \in Approvals
  BY CallTypes DEF Retire, Return, Goes, history, CallMoves, Stage
<1>3. CardsMove(q) /\ q \notin thread'.pending
  BY <1>1, ResolvedIs DEF CardsMove
<1>4. CardAgrees(q)' /\ GateAgrees(q)'
  BY <1>1, <1>2, <1>3 DEF CardAgrees, GateAgrees, Waiting, Before
<1>5. (Favoured(q)' => Favoured(q)) /\ Underway(q)
  BY <1>1, <1>2 DEF Favoured, Favours, Underway
<1> QED BY <1>2, <1>3, <1>4, <1>5, CallFacts, CallStepKeeps

LEMMA AuthorizeKeeps == ASSUME IInv, NEW q \in Requests, Authorize(q) PROVE IInv'
<1> DEFINE modes == {inbox[i].mode : i \in {j \in DOMAIN inbox : inbox[j].type = "mode"}}
<1>1. /\ call[q] = "none" /\ UNCHANGED <<thread, inbox, gate, granted, decision, commands, clicked, lost>>
      /\ inForce' = [inForce EXCEPT ![q] = {thread.mode}]
      /\ lagging' = [lagging EXCEPT ![q] = modes]
      /\ call' = [call EXCEPT ![q] = call'[q]] /\ call'[q] \in {"ran", "look"}
      /\ call'[q] = "ran" => \/ AllowsUnprompted(thread.mode, q \in Mutating)
                             \/ SessionShortcutApplies(thread.mode) /\ granted
  BY CallTypes DEF Authorize, Goes
<1>2. modes \subseteq RuntimeMode
  <2> SUFFICES ASSUME NEW i \in DOMAIN inbox, inbox[i].type = "mode" PROVE inbox[i].mode \in RuntimeMode
    OBVIOUS
  <2>1. inbox[i] \in Intent
    BY CallTypes
  <2> QED BY <2>1 DEF Intent
<1> HIDE DEF modes
<1>3. TypeOK'
  <2>1. /\ call' \in [Requests -> Stage] /\ inForce' \in [Requests -> SUBSET RuntimeMode]
        /\ lagging' \in [Requests -> SUBSET RuntimeMode]
    BY <1>1, <1>2, CallTypes DEF IInv, Stage
  <2> QED BY <1>1, <2>1 DEF IInv, TypeOK
<1>4. ASSUME NEW r \in Requests, r # q PROVE CardAgrees(r)' /\ GateAgrees(r)' /\ LicenceAgrees(r)'
  <2>1. Untouched(r)
    BY <1>1, <1>4, CallTypes DEF Untouched
  <2> QED BY <1>1, <2>1, BystanderKeeps DEF NoNewMode, Ending
<1>5. CardAgrees(q)' /\ GateAgrees(q)'
  BY <1>1, CallFacts DEF CardAgrees, GateAgrees, Waiting, Before
<1>6. LicenceAgrees(q)'
  <2>1. inForce'[q] = {thread.mode} /\ lagging'[q] = modes
    BY <1>1, CallTypes
  <2>2. gate'[q] \notin Approvals
    BY <1>1, CallFacts DEF GateAgrees
  <2>3. CASE call'[q] = "look"
    <3>1. ~Favoured(q)'
      BY <2>2, <2>3 DEF Favoured, Favours
    <3> QED BY <1>1, <2>1, <3>1 DEF LicenceAgrees, Known, modes
  <2>4. CASE call'[q] = "ran"
    <3>1. Licensed(q, Known(q))'
      BY <1>1, <2>1, <2>4 DEF Licensed, Known, IInv, GrantStands
    <3> QED BY <2>4, <3>1 DEF LicenceAgrees, Underway
  <2> QED BY <1>1, <2>3, <2>4
<1>7. InboxAgrees' /\ GrantStands'
  BY <1>1 DEF IInv, InboxAgrees, GrantStands
<1> QED BY <1>1, <1>3, <1>4, <1>5, <1>6, <1>7 DEF IInv

-----------------------------------------------------------------------------
(***************************************************************************)
(* The inbox.                                                              *)
(***************************************************************************)

LEMMA InboxGrows ==
    ASSUME IInv, NEW x \in Intent, inbox' = inbox \o <<x>>, x.type # "archiveComplete",
           x.type = "respond" => clicked'[x.request] = x.decision,
           \A r \in Requests : clicked[r] # None => clicked'[r] = clicked[r],
           thread.archiving => thread'.archiving,
           x.type \in Archives => ~thread.archiving /\ thread'.archiving
    PROVE  /\ inbox' \in Seq(Intent) /\ InboxAgrees' /\ (Ending' => Ending)
           /\ \A n \in DOMAIN inbox' : inbox'[n] = x \/ \E m \in DOMAIN inbox : inbox[m] = inbox'[n]
<1> DEFINE last == Len(inbox) + 1
<1>1. /\ inbox' \in Seq(Intent) /\ Len(inbox') = last /\ inbox'[last] = x
      /\ \A n \in 1..Len(inbox) : inbox'[n] = inbox[n]
  BY CallTypes, NewLast
<1>2. /\ DOMAIN inbox = 1..Len(inbox) /\ DOMAIN inbox' = 1..last /\ Len(inbox) \in Nat
  BY <1>1, CallTypes
<1>3. /\ DOMAIN inbox' = DOMAIN inbox \cup {last} /\ last \notin DOMAIN inbox
  BY <1>2
<1>4. ASSUME NEW n \in DOMAIN inbox', inbox'[n].type = "respond"
      PROVE  clicked'[inbox'[n].request] = inbox'[n].decision
  <2>1. CASE n = last
    BY <1>1, <1>4, <2>1
  <2>2. CASE n \in DOMAIN inbox
    <3>1. /\ inbox[n] \in Intent /\ inbox'[n] = inbox[n]
          /\ clicked[inbox[n].request] = inbox[n].decision
      BY <1>1, <1>2, <1>4, <2>2, CallTypes DEF IInv, InboxAgrees
    <3>2. inbox[n].request \in Requests /\ inbox[n].decision # None
      BY <1>4, <3>1, CallTypes DEF Intent
    <3> QED BY <3>1, <3>2
  <2> QED BY <1>3, <2>1, <2>2
<1>5. ASSUME NEW n \in DOMAIN inbox', inbox'[n].type \in Archives
      PROVE  /\ thread'.archiving
             /\ \A m \in DOMAIN inbox' : inbox'[m].type \in Archives => m = n
  <2>1. \A k \in DOMAIN inbox : inbox[k].type \in Archives => thread.archiving
    BY DEF IInv, InboxAgrees
  <2>2. CASE x.type \in Archives
    BY <1>1, <1>2, <1>3, <1>5, <2>1, <2>2
  <2>3. CASE x.type \notin Archives
    BY <1>1, <1>2, <1>3, <1>5, <2>3 DEF IInv, InboxAgrees
  <2> QED BY <2>2, <2>3
<1>6. ASSUME NEW n \in DOMAIN inbox', inbox'[n].type = "archiveComplete"
      PROVE  n = 1
  BY <1>1, <1>2, <1>3, <1>6 DEF IInv, InboxAgrees
<1>7. Ending' => Ending
  <2>1. CASE inbox = <<>>
    <3>1. inbox'[1] = x
      BY <1>1, <2>1
    <3> QED BY <3>1 DEF Ending
  <2>2. CASE inbox # <<>>
    <3>1. inbox'[1] = inbox[1]
      BY <1>1, <1>2, <2>2, CallTypes, Nonempty
    <3> QED BY <2>2, <3>1 DEF Ending
  <2> QED BY <2>1, <2>2
<1>8. \A n \in DOMAIN inbox' : inbox'[n] = x \/ \E m \in DOMAIN inbox : inbox[m] = inbox'[n]
  BY <1>1, <1>2, <1>3
<1> QED BY <1>1, <1>4, <1>5, <1>6, <1>7, <1>8 DEF InboxAgrees

LEMMA HeadFacts ==
    ASSUME IInv, inbox # <<>>
    PROVE  /\ Head(inbox) = inbox[1] /\ 1 \in DOMAIN inbox /\ inbox[1] \in Intent
           /\ Tail(inbox) \in Seq(Intent)
           /\ \A n \in DOMAIN Tail(inbox) :
                 n \in Nat \ {0} /\ n + 1 \in DOMAIN inbox /\ Tail(inbox)[n] = inbox[n + 1]
<1>1. /\ Len(inbox) \in Nat \ {0} /\ Head(inbox) = inbox[1] /\ inbox[1] \in Intent
      /\ Tail(inbox) \in Seq(Intent) /\ Len(Tail(inbox)) = Len(inbox) - 1
      /\ \A n \in 1..Len(Tail(inbox)) : Tail(inbox)[n] = inbox[n + 1]
  BY CallTypes, Nonempty
<1>2. DOMAIN inbox = 1..Len(inbox) /\ DOMAIN Tail(inbox) = 1..Len(Tail(inbox))
  BY <1>1, CallTypes
<1> QED BY <1>1, <1>2

LEMMA InboxShrinks ==
    ASSUME IInv, inbox # <<>>, inbox' = Tail(inbox), clicked' = clicked,
           thread'.archiving = thread.archiving \/ inbox[1].type \in Archives
    PROVE  inbox' \in Seq(Intent) /\ InboxAgrees' /\ ~Ending' /\ NoNewMode
<1>1. /\ 1 \in DOMAIN inbox /\ inbox' \in Seq(Intent)
      /\ \A n \in DOMAIN inbox' :
            n \in Nat \ {0} /\ n + 1 \in DOMAIN inbox /\ inbox'[n] = inbox[n + 1]
  BY HeadFacts
<1>2. ASSUME NEW n \in DOMAIN inbox'
      PROVE  /\ inbox'[n].type = "respond" => clicked'[inbox'[n].request] = inbox'[n].decision
             /\ inbox'[n].type # "archiveComplete"
  <2>1. n + 1 # 1
    BY <1>1
  <2> QED BY <1>1, <2>1 DEF IInv, InboxAgrees
<1>3. ASSUME NEW n \in DOMAIN inbox', inbox'[n].type \in Archives
      PROVE  /\ thread'.archiving
             /\ \A m \in DOMAIN inbox' : inbox'[m].type \in Archives => m = n
  <2>1. n + 1 \in DOMAIN inbox /\ inbox[n + 1].type \in Archives /\ n + 1 # 1 /\ n \in Nat
    BY <1>1, <1>3
  <2>2. thread.archiving /\ \A m \in DOMAIN inbox : inbox[m].type \in Archives => m = n + 1
    BY <2>1 DEF IInv, InboxAgrees
  <2>3. inbox[1].type \notin Archives
    BY <1>1, <2>1, <2>2
  <2>4. ASSUME NEW m \in DOMAIN inbox', inbox'[m].type \in Archives PROVE m = n
    <3>1. m + 1 = n + 1 /\ m \in Nat
      BY <1>1, <2>2, <2>4
    <3> QED BY <2>1, <3>1
  <2> QED BY <2>2, <2>3, <2>4
<1>4. ~Ending'
  <2> SUFFICES ASSUME inbox' # <<>> PROVE inbox'[1].type # "archiveComplete"
    BY DEF Ending
  <2>1. 1 \in DOMAIN inbox'
    BY <1>1, Nonempty
  <2> QED BY <1>2, <2>1
<1> QED BY <1>1, <1>2, <1>3, <1>4 DEF InboxAgrees, NoNewMode

LEMMA InboxContinues ==
    ASSUME IInv, inbox # <<>>, NEW x \in Intent, inbox' = <<x>> \o Tail(inbox),
           UNCHANGED <<thread, clicked>>, x.type \notin {"mode", "respond"},
           x.type \in Archives => inbox[1].type \in Archives
    PROVE  /\ inbox' \in Seq(Intent) /\ InboxAgrees' /\ NoNewMode
           /\ Ending' => x.type = "archiveComplete"
<1>1. /\ inbox' \in Seq(Intent) /\ Len(inbox') = Len(inbox) /\ inbox' # <<>> /\ inbox'[1] = x
      /\ \A n \in 2..Len(inbox') : inbox'[n] = inbox[n]
  BY CallTypes, NewHead
<1>2. /\ DOMAIN inbox = 1..Len(inbox) /\ DOMAIN inbox' = 1..Len(inbox) /\ Len(inbox) \in Nat
  BY <1>1, CallTypes
<1>3. /\ DOMAIN inbox' = DOMAIN inbox /\ 1 \in DOMAIN inbox
      /\ \A n \in DOMAIN inbox : n # 1 => inbox'[n] = inbox[n]
  BY <1>1, <1>2, HeadFacts
<1>4. ASSUME NEW n \in DOMAIN inbox'
      PROVE  /\ inbox'[n].type = "respond" => clicked'[inbox'[n].request] = inbox'[n].decision
             /\ inbox'[n].type \in Archives =>
                   /\ thread'.archiving
                   /\ \A m \in DOMAIN inbox' : inbox'[m].type \in Archives => m = n
             /\ inbox'[n].type = "archiveComplete" => n = 1
  <2>1. \A m \in DOMAIN inbox : inbox'[m].type \in Archives => inbox[m].type \in Archives
    BY <1>1, <1>3
  <2>2. CASE n = 1
    BY <1>1, <1>3, <2>1, <2>2 DEF IInv, InboxAgrees
  <2>3. CASE n # 1
    BY <1>1, <1>3, <2>1, <2>3 DEF IInv, InboxAgrees
  <2> QED BY <2>2, <2>3
<1>5. NoNewMode
  <2> SUFFICES ASSUME NEW n \in DOMAIN inbox', inbox'[n].type = "mode"
               PROVE  \E m \in DOMAIN inbox : inbox[m] = inbox'[n]
    BY DEF NoNewMode
  <2> QED BY <1>1, <1>3
<1> QED BY <1>1, <1>4, <1>5 DEF InboxAgrees, Ending

-----------------------------------------------------------------------------
(***************************************************************************)
(* The operator and the Reactor.                                           *)
(***************************************************************************)

\* A step that no call and no card has a part in.
LEMMA ThreadStepKeeps ==
    ASSUME IInv, UNCHANGED <<gate, granted, call, decision, clicked, inForce, lagging, lost>>,
           inbox' \in Seq(Intent), commands' \in 0..MaxCommands, Sound(thread'),
           thread'.mode = thread.mode, thread'.pending = thread.pending,
           NoNewMode, Ending' => Ending, InboxAgrees'
    PROVE  IInv'
<1>1. ASSUME NEW r \in Requests PROVE CardAgrees(r)' /\ GateAgrees(r)' /\ LicenceAgrees(r)'
  BY BystanderKeeps DEF Untouched
<1>2. TypeOK' /\ GrantStands' /\ thread'.mode \in RuntimeMode
  BY DEF IInv, TypeOK, GrantStands, Sound
<1> QED BY <1>1, <1>2 DEF IInv

LEMMA CommandsCount ==
    ASSUME IInv, commands < MaxCommands, commands' = commands + 1
    PROVE  commands' \in 0..MaxCommands
BY ToolCallAssumption DEF IInv, TypeOK

LEMMA OrderKeeps ==
    ASSUME IInv, NEW x \in Intent, inbox' = inbox \o <<x>>,
           x.type \in {"interrupt", "stop", "archive"},
           commands < MaxCommands, commands' = commands + 1,
           UNCHANGED <<gate, granted, call, decision, history>>,
           Sound(thread'), thread'.mode = thread.mode, thread'.pending = thread.pending,
           thread.archiving => thread'.archiving,
           x.type \in Archives => ~thread.archiving /\ thread'.archiving
    PROVE  IInv'
<1>1. clicked' = clicked
  BY DEF history
<1>2. /\ inbox' \in Seq(Intent) /\ InboxAgrees' /\ (Ending' => Ending)
      /\ \A n \in DOMAIN inbox' : inbox'[n] = x \/ \E m \in DOMAIN inbox : inbox[m] = inbox'[n]
  BY <1>1, InboxGrows
<1>3. NoNewMode
  BY <1>2 DEF NoNewMode
<1> QED BY <1>2, <1>3, CommandsCount, ThreadStepKeeps DEF history

LEMMA IntentIs ==
    /\ \A type \in {"interrupt", "stop", "archive", "archiveComplete", "archiveFailed"} :
          [type |-> type] \in Intent
    /\ \A change \in {Settling("idle", None), Stopping} :
          [type |-> "settle", change |-> change] \in Intent
    /\ \A m \in RuntimeMode : [type |-> "mode", mode |-> m] \in Intent
    /\ \A r \in Requests, d \in Decision : [type |-> "respond", request |-> r, decision |-> d] \in Intent
BY DEF Intent

LEMMA InterruptKeeps == ASSUME IInv, Interrupt PROVE IInv'
<1>1. thread' = thread /\ inbox' = inbox \o <<[type |-> "interrupt"]>>
  BY AskIs DEF Interrupt, Order
<1>2. [type |-> "interrupt"] \in Intent
  BY IntentIs
<1> QED BY <1>1, <1>2, ThreadIs, OrderKeeps DEF Interrupt, Order, Archives

LEMMA StopKeeps == ASSUME IInv, Stop PROVE IInv'
<1>1. thread' = thread /\ inbox' = inbox \o <<[type |-> "stop"]>>
  BY AskIs DEF Stop, Order
<1>2. [type |-> "stop"] \in Intent
  BY IntentIs
<1> QED BY <1>1, <1>2, ThreadIs, OrderKeeps DEF Stop, Order, Archives

LEMMA NothingAskedKeeps ==
    ASSUME IInv, inbox' = inbox \o <<>>, commands < MaxCommands, commands' = commands + 1,
           UNCHANGED <<gate, granted, call, decision, history>>,
           Sound(thread'), thread'.mode = thread.mode, thread'.pending = thread.pending,
           thread'.archiving = thread.archiving
    PROVE  IInv'
<1>1. inbox' = inbox /\ inbox' \in Seq(Intent)
  BY CallTypes, NothingBefore
<1>2. NoNewMode /\ (Ending' => Ending) /\ InboxAgrees'
  BY <1>1 DEF NoNewMode, Ending, InboxAgrees, IInv, history
<1> QED BY <1>1, <1>2, CommandsCount, ThreadStepKeeps DEF history

LEMMA ArchiveKeeps == ASSUME IInv, Archive PROVE IInv'
<1>1. /\ Accepts(thread, [type |-> "archive"]) /\ commands < MaxCommands
      /\ commands' = commands + 1 /\ thread' = Apply(thread, Decide(thread, [type |-> "archive"]))
      /\ inbox' = inbox \o (IF Closed(thread) THEN <<>> ELSE <<[type |-> "archive"]>>)
      /\ UNCHANGED <<gate, granted, call, decision, history>>
  BY DEF Archive, Order
<1>2. /\ Sound(thread') /\ thread'.mode = thread.mode /\ thread'.pending = thread.pending
      /\ Closed(thread) => thread'.archiving = thread.archiving
      /\ ~Closed(thread) => thread'.archiving
  BY <1>1, ArchiveIs
<1>3. CASE Closed(thread)
  <2>1. inbox' = inbox \o <<>>
    BY <1>1, <1>3
  <2> QED BY <1>1, <1>2, <1>3, <2>1, NothingAskedKeeps
<1>4. CASE ~Closed(thread)
  <2>1. inbox' = inbox \o <<[type |-> "archive"]>> /\ ~thread.archiving
    BY <1>1, <1>4, ThreadIs DEF Closed
  <2>2. [type |-> "archive"] \in Intent
    BY IntentIs
  <2> QED BY <1>1, <1>2, <1>4, <2>1, <2>2, OrderKeeps
<1> QED BY <1>3, <1>4

LEMMA ResumeKeeps == ASSUME IInv, Resume PROVE IInv'
<1>1. /\ Accepts(thread, [type |-> "resume"])
      /\ thread' = Apply(thread, Decide(thread, [type |-> "resume"]))
  BY DEF Resume, Order
<1>2. /\ Sound(thread') /\ thread'.mode = thread.mode /\ thread'.pending = thread.pending
      /\ thread'.archiving = thread.archiving
  BY <1>1, ResumeIs
<1> QED BY <1>2, NothingAskedKeeps DEF Resume, Order

LEMMA ClickKeeps ==
    ASSUME IInv, NEW q \in Requests, NEW d \in Answers, Click(q, d)
    PROVE  IInv'
<1> DEFINE c == [type |-> "respond", request |-> q]
           x == [type |-> "respond", request |-> q, decision |-> d]
<1>1. /\ Accepts(thread, c) /\ commands < MaxCommands /\ commands' = commands + 1
      /\ thread' = Apply(thread, Decide(thread, c)) /\ inbox' = inbox \o <<x>>
      /\ clicked' = [clicked EXCEPT ![q] = d]
      /\ UNCHANGED <<gate, granted, call, decision, inForce, lagging, lost>>
  BY DEF Click, Order
<1>2. /\ q \in thread.pending /\ Sound(thread') /\ SameLife(thread, thread')
      /\ thread'.pending = thread.pending \ {q}
  BY <1>1, RespondIs
<1>3. d \in Decision /\ d # None /\ x \in Intent
  BY ToolCallAssumption, IntentIs
<1>4. /\ clicked[q] = None /\ clicked'[q] = d /\ clicked' \in [Requests -> Decision \cup {None}]
      /\ \A r \in Requests : r # q => clicked'[r] = clicked[r]
      /\ None \notin Decision /\ "acceptForSession" \in Decision
  BY <1>1, <1>2, <1>3, CallFacts, CallTypes DEF CardAgrees, Decision
<1>5. /\ inbox' \in Seq(Intent) /\ InboxAgrees' /\ (Ending' => Ending)
      /\ \A n \in DOMAIN inbox' : inbox'[n] = x \/ \E m \in DOMAIN inbox : inbox[m] = inbox'[n]
  <2>1. /\ x.type = "respond" /\ x.request = q /\ x.decision = d /\ x.type \notin Archives
        /\ x.type # "archiveComplete"
    BY DEF Archives
  <2>2. \A r \in Requests : clicked[r] # None => clicked'[r] = clicked[r]
    BY <1>4
  <2>3. thread.archiving => thread'.archiving
    BY <1>2 DEF SameLife
  <2> HIDE DEF x
  <2> QED BY <1>1, <1>3, <1>4, <2>1, <2>2, <2>3, InboxGrows
<1>6. NoNewMode
  BY <1>5 DEF NoNewMode
<1>7. ASSUME NEW r \in Requests PROVE CardAgrees(r)' /\ GateAgrees(r)' /\ LicenceAgrees(r)'
  <2>1. \A p \in Requests : clicked[p] = "acceptForSession" => clicked'[p] = "acceptForSession"
    BY <1>4
  <2>2. CASE r # q
    <3>1. Untouched(r)
      BY <1>1, <1>4, <2>2 DEF Untouched
    <3> QED BY <1>2, <1>5, <1>6, <2>1, <2>2, <3>1, BystanderKeeps
  <2>3. CASE r = q
    <3>1. CardAgrees(q)' /\ GateAgrees(q)'
      BY <1>1, <1>2, <1>3, <1>4, <1>5, CallFacts DEF CardAgrees, GateAgrees, Waiting
    <3>2. LicenceAgrees(q)'
      <4>1. (Favoured(q)' => Favoured(q)) /\ (Underway(q)' => Underway(q)) /\ Known(q)' = Known(q)
        BY <1>1 DEF Favoured, Underway, Known
      <4>2. clicked[q] \notin Approvals
        BY <1>4, CallFacts
      <4>3. Licensed(q, Known(q)) => Licensed(q, Known(q))'
        BY <1>1, <2>1, <4>2, LicenceLasts
      <4>4. LicenceAgrees(q)
        BY DEF IInv
      <4>5. Underway(q)' => \A n \in DOMAIN inbox' : inbox'[n].type = "mode" => inbox'[n].mode \in Known(q)'
        BY <1>6, <4>1, <4>4 DEF NoNewMode, LicenceAgrees
      <4> QED BY <4>1, <4>3, <4>4, <4>5 DEF LicenceAgrees
    <3> QED BY <2>3, <3>1, <3>2
  <2> QED BY <2>2, <2>3
<1>8. TypeOK'
  BY <1>1, <1>2, <1>4, <1>5, CommandsCount DEF IInv, TypeOK, Sound
<1>9. GrantStands' /\ thread'.mode \in RuntimeMode
  BY <1>1, <1>2, <1>4 DEF IInv, GrantStands, SameLife
<1> QED BY <1>2, <1>5, <1>7, <1>8, <1>9 DEF IInv

LEMMA SwitchModeKeeps == ASSUME IInv, NEW m \in Modes, SwitchMode(m) PROVE IInv'
<1> DEFINE c == [type |-> "runtimeModeSet", mode |-> m]
           x == [type |-> "mode", mode |-> m]
<1>1. /\ Accepts(thread, c) /\ commands < MaxCommands /\ commands' = commands + 1
      /\ thread' = Apply(thread, Decide(thread, c)) /\ inbox' = inbox \o <<x>>
      /\ UNCHANGED <<gate, granted, call, decision, clicked, lagging, lost>>
  BY DEF SwitchMode, Order
<1>2. m \in RuntimeMode /\ x \in Intent
  BY ToolCallAssumption, IntentIs
<1>3. /\ Sound(thread') /\ thread'.mode = m /\ thread'.pending = thread.pending
      /\ thread'.archiving = thread.archiving
  BY <1>1, <1>2, ModeIs
<1>4. /\ inForce' \in [Requests -> SUBSET RuntimeMode]
      /\ \A r \in Requests : /\ inForce[r] \subseteq inForce'[r]
                             /\ Underway(r) => m \in inForce'[r]
  BY <1>2, CallTypes DEF SwitchMode
<1>5. /\ inbox' \in Seq(Intent) /\ InboxAgrees' /\ (Ending' => Ending)
      /\ \A n \in DOMAIN inbox' : inbox'[n] = x \/ \E k \in DOMAIN inbox : inbox[k] = inbox'[n]
  <2>1. x.type = "mode" /\ x.type \notin Archives
    BY DEF Archives
  <2> HIDE DEF x
  <2> QED BY <1>1, <1>2, <1>3, <2>1, InboxGrows
<1>6. ASSUME NEW r \in Requests PROVE CardAgrees(r)' /\ GateAgrees(r)' /\ LicenceAgrees(r)'
  <2>1. CardAgrees(r)' /\ GateAgrees(r)'
    BY <1>1, <1>3, <1>5, CallFacts DEF CardAgrees, GateAgrees, Waiting
  <2>2. /\ Favoured(r)' = Favoured(r) /\ Underway(r)' = Underway(r) /\ Known(r) \subseteq Known(r)'
        /\ Underway(r) => m \in Known(r)'
    BY <1>1, <1>4 DEF Favoured, Underway, Known
  <2>3. Licensed(r, Known(r)) => Licensed(r, Known(r))'
    BY <1>1, <1>4, LicenceLasts
  <2>4. LicenceAgrees(r)
    BY DEF IInv
  <2>5. ASSUME Underway(r), NEW n \in DOMAIN inbox', inbox'[n].type = "mode"
        PROVE  inbox'[n].mode \in Known(r)'
    <3>1. CASE inbox'[n] = x
      BY <2>2, <2>5, <3>1
    <3>2. CASE \E k \in DOMAIN inbox : inbox[k] = inbox'[n]
      BY <2>2, <2>4, <2>5, <3>2 DEF LicenceAgrees
    <3> QED BY <1>5, <3>1, <3>2
  <2> QED BY <2>1, <2>2, <2>3, <2>4, <2>5 DEF LicenceAgrees
<1>7. TypeOK'
  BY <1>1, <1>3, <1>4, <1>5, CommandsCount DEF IInv, TypeOK, Sound
<1>8. GrantStands'
  BY <1>1 DEF IInv, GrantStands
<1> QED BY <1>2, <1>3, <1>5, <1>6, <1>7, <1>8 DEF IInv

\* A reaction that decides open calls, and licenses those it approves.
LEMMA DecidingKeeps ==
    ASSUME IInv, UNCHANGED <<thread, call, decision, commands, history>>,
           gate' \in [Requests -> {"absent", "open"} \cup Decision], granted' \in BOOLEAN,
           inbox' \in Seq(Intent), InboxAgrees', NoNewMode, GrantStands',
           \A r \in Requests : \/ gate'[r] = gate[r]
                               \/ gate[r] = "open" /\ gate'[r] \in Decision,
           \A r \in Requests : Underway(r) /\ gate'[r] # gate[r] /\ gate'[r] \in Approvals
                                  => Licensed(r, Known(r)),
           Ending' => \A r \in Requests : gate'[r] # "open"
    PROVE  IInv'
<1>1. ASSUME NEW r \in Requests PROVE CardAgrees(r)' /\ GateAgrees(r)' /\ LicenceAgrees(r)'
  <2>1. /\ call'[r] = call[r] /\ decision'[r] = decision[r] /\ clicked' = clicked
        /\ lost' = lost /\ thread' = thread /\ inForce' = inForce /\ lagging' = lagging
    BY DEF history
  <2>2. /\ \/ gate'[r] = gate[r]
           \/ gate[r] = "open" /\ gate'[r] \in Decision
        /\ gate'[r] \in {"absent", "open"} \cup Decision
        /\ Ending' => gate'[r] # "open"
    OBVIOUS
  <2>3. CardAgrees(r)' /\ GateAgrees(r)'
    BY <2>1, <2>2, CallFacts DEF CardAgrees, GateAgrees, Waiting
  <2>4. Favoured(r)' => Licensed(r, Known(r))
    BY <2>1, <2>2, CallFacts DEF Favoured, Favours, Underway
  <2>5. Licensed(r, Known(r)) => Licensed(r, Known(r))'
    BY <2>1, LicenceLasts
  <2>6. LicenceAgrees(r)
    BY DEF IInv
  <2>7. Underway(r)' = Underway(r) /\ Known(r)' = Known(r)
    BY <2>1 DEF Underway, Known
  <2> QED BY <2>3, <2>4, <2>5, <2>6, <2>7 DEF LicenceAgrees, NoNewMode
<1>2. TypeOK'
  BY DEF IInv, TypeOK, history
<1> QED BY <1>1, <1>2 DEF IInv

LEMMA ReactRespondKeeps == ASSUME IInv, ReactRespond PROVE IInv'
<1> DEFINE q == Head(inbox).request
           d == Head(inbox).decision
<1>1. /\ inbox # <<>> /\ Head(inbox).type = "respond" /\ inbox' = Tail(inbox)
      /\ UNCHANGED <<thread, call, decision, commands, history>>
      /\ gate[q] = "open" => /\ gate' = [gate EXCEPT ![q] = d]
                             /\ granted' = (granted \/ d = "acceptForSession")
      /\ gate[q] # "open" => UNCHANGED <<gate, granted>>
  BY DEF ReactRespond, First
<1>2. q \in Requests /\ d \in Decision /\ clicked[q] = d
  BY <1>1, HeadFacts DEF IInv, InboxAgrees, Intent
<1> HIDE DEF q, d
<1>3. inbox' \in Seq(Intent) /\ InboxAgrees' /\ ~Ending' /\ NoNewMode
  BY <1>1, InboxShrinks DEF history
<1>4. /\ gate' \in [Requests -> {"absent", "open"} \cup Decision]
      /\ \A r \in Requests : gate'[r] = gate[r] \/ (r = q /\ gate[r] = "open" /\ gate'[r] = d)
  BY <1>1, <1>2, CallTypes
<1>5. d \in Approvals => Licensed(q, Known(q))
  BY <1>2 DEF Licensed
<1>6. granted' \in BOOLEAN /\ GrantStands'
  <2>1. granted \in BOOLEAN /\ GrantStands /\ clicked' = clicked
    BY <1>1 DEF IInv, TypeOK, history
  <2>2. CASE gate[q] = "open"
    <3>1. granted' \in BOOLEAN /\ (granted' => granted \/ d = "acceptForSession")
      BY <1>1, <2>1, <2>2
    <3> QED BY <1>2, <2>1, <3>1 DEF GrantStands
  <2>3. CASE gate[q] # "open"
    BY <1>1, <2>1, <2>3 DEF GrantStands
  <2> QED BY <2>2, <2>3
<1> QED BY <1>1, <1>2, <1>3, <1>4, <1>5, <1>6, DecidingKeeps

LEMMA ReactModeKeeps == ASSUME IInv, ReactMode PROVE IInv'
<1> DEFINE m == Head(inbox).mode
           released(r) == gate[r] = "open" /\ AllowsUnprompted(m, call[r] # "parked" \/ r \in Mutating)
<1>1. /\ inbox # <<>> /\ inbox[1].type = "mode" /\ inbox' = Tail(inbox)
      /\ UNCHANGED <<thread, granted, call, decision, commands, history>>
      /\ gate' = [r \in Requests |-> IF released(r) THEN "accept" ELSE gate[r]]
  BY HeadFacts DEF ReactMode, First
<1>2. \A r \in Requests : Underway(r) => m \in Known(r)
  BY <1>1, HeadFacts DEF IInv, LicenceAgrees
<1>3. inbox' \in Seq(Intent) /\ InboxAgrees' /\ ~Ending' /\ NoNewMode
  BY <1>1, InboxShrinks DEF history
<1>4. ASSUME NEW r \in Requests, Underway(r), released(r) PROVE Licensed(r, Known(r))
  <2>1. m \in Known(r) /\ AllowsUnprompted(m, r \in Mutating)
    BY <1>2, <1>4 DEF AllowsUnprompted
  <2> QED BY <2>1 DEF Licensed
<1> HIDE DEF released
<1>5. "accept" \in Decision
  BY DEF Decision
<1>6. gate' \in [Requests -> {"absent", "open"} \cup Decision]
  BY <1>1, <1>5, CallTypes
<1>7. granted' \in BOOLEAN /\ GrantStands'
  BY <1>1 DEF IInv, TypeOK, GrantStands, history
<1>8. \A r \in Requests : gate'[r] = gate[r] \/ (released(r) /\ gate[r] = "open" /\ gate'[r] = "accept")
  BY <1>1 DEF released
<1> QED BY <1>1, <1>3, <1>4, <1>5, <1>6, <1>7, <1>8, DecidingKeeps

\* The reactions that cancel what is parked and go on with x.
LEMMA CancelKeeps ==
    ASSUME IInv, inbox # <<>>, Cancel, NEW x \in Intent, Continue(x),
           UNCHANGED <<thread, call, decision, commands, history>>,
           x.type \notin {"mode", "respond"},
           x.type \in Archives => inbox[1].type \in Archives
    PROVE  IInv'
<1>1. inbox' = <<x>> \o Tail(inbox) /\ UNCHANGED <<thread, clicked>>
  BY DEF Continue, history
<1>2. inbox' \in Seq(Intent) /\ InboxAgrees' /\ NoNewMode
  BY <1>1, InboxContinues
<1>3. "decline" \in Decision /\ "decline" \notin Approvals /\ "decline" # "open"
  BY DEF Decision, Approvals
<1>4. /\ gate' \in [Requests -> {"absent", "open"} \cup Decision] /\ granted' = FALSE
      /\ \A r \in Requests : /\ gate'[r] = gate[r] \/ (gate[r] = "open" /\ gate'[r] = "decline")
                             /\ gate'[r] # "open"
  BY <1>3, CallTypes DEF Cancel
<1>5. GrantStands'
  BY <1>4 DEF GrantStands
<1> QED BY <1>2, <1>3, <1>4, <1>5, DecidingKeeps

LEMMA ReactInterruptKeeps == ASSUME IInv, ReactInterrupt PROVE IInv'
<1> DEFINE x == [type |-> "settle", change |-> Settling("idle", None)]
<1>1. x \in Intent /\ x.type = "settle"
  BY IntentIs
<1>2. /\ inbox # <<>> /\ Cancel /\ Continue(x)
      /\ UNCHANGED <<thread, call, decision, commands, history>>
  BY DEF ReactInterrupt, First
<1> HIDE DEF x
<1> QED BY <1>1, <1>2, CancelKeeps DEF Archives

LEMMA ReactStopKeeps == ASSUME IInv, ReactStop PROVE IInv'
<1>1. PICK change \in {Settling("idle", None), Stopping} : Continue([type |-> "settle", change |-> change])
  BY DEF ReactStop
<1> DEFINE x == [type |-> "settle", change |-> change]
<1>2. x \in Intent /\ x.type = "settle"
  BY IntentIs
<1>3. /\ inbox # <<>> /\ Cancel /\ Continue(x)
      /\ UNCHANGED <<thread, call, decision, commands, history>>
  BY <1>1 DEF ReactStop, First
<1> HIDE DEF x
<1> QED BY <1>2, <1>3, CancelKeeps DEF Archives

LEMMA ReactArchiveKeeps == ASSUME IInv, ReactArchive PROVE IInv'
<1>1. PICK end \in {"archiveComplete", "archiveFailed"} : Continue([type |-> end])
  BY DEF ReactArchive
<1> DEFINE x == [type |-> end]
<1>2. x \in Intent /\ x.type = end
  BY IntentIs
<1>3. /\ inbox # <<>> /\ Cancel /\ Continue(x) /\ inbox[1].type \in Archives
      /\ UNCHANGED <<thread, call, decision, commands, history>>
  BY <1>1, HeadFacts DEF ReactArchive, First, Archives
<1> HIDE DEF x
<1> QED BY <1>2, <1>3, CancelKeeps DEF Archives

\* The end of an archive: whoever was parked has an answer by then.
LEMMA ArchiveEndKeeps ==
    ASSUME IInv, inbox # <<>>, inbox[1].type = "archiveComplete", inbox' = Tail(inbox),
           NEW now \in Times,
           thread' = Dispatched([type |-> "archiveComplete", cutoff |-> now]),
           UNCHANGED <<gate, granted, call, decision, commands, history>>
    PROVE  IInv'
<1>1. Sound(thread') /\ thread'.mode = thread.mode /\ thread'.pending \subseteq thread.pending
  BY ArchivedIs
<1>2. inbox' \in Seq(Intent) /\ InboxAgrees' /\ ~Ending' /\ NoNewMode
  BY InboxShrinks DEF history, Archives
<1>3. ASSUME NEW r \in Requests PROVE CardAgrees(r)' /\ GateAgrees(r)' /\ LicenceAgrees(r)'
  <2>1. CardAgrees(r)'
    BY <1>1, CallFacts DEF CardAgrees, history
  <2>2. Ending
    BY DEF Ending
  <2>3. GateAgrees(r)'
    BY <1>2, <2>2, CallFacts DEF GateAgrees, Waiting, history
  <2>4. Favoured(r)' = Favoured(r) /\ Underway(r)' = Underway(r) /\ Known(r)' = Known(r)
    BY DEF Favoured, Underway, Known, history
  <2>5. Licensed(r, Known(r)) => Licensed(r, Known(r))'
    BY LicenceLasts DEF history
  <2> QED BY <1>2, <2>1, <2>3, <2>4, <2>5 DEF IInv, LicenceAgrees, NoNewMode
<1>4. TypeOK' /\ GrantStands' /\ thread'.mode \in RuntimeMode
  BY <1>1, <1>2 DEF IInv, TypeOK, GrantStands, Sound, history
<1> QED BY <1>1, <1>2, <1>3, <1>4 DEF IInv

LEMMA ReactEndKeeps == ASSUME IInv, ReactEnd PROVE IInv'
<1>1. /\ inbox # <<>> /\ inbox' = Tail(inbox) /\ Head(inbox) = inbox[1] /\ inbox[1] \in Intent
      /\ UNCHANGED <<gate, granted, call, decision, commands, history>>
  BY HeadFacts DEF ReactEnd
<1>2. ASSUME thread'.archiving = thread.archiving \/ inbox[1].type \in Archives,
             Sound(thread'), thread'.mode = thread.mode, thread'.pending = thread.pending
      PROVE  IInv'
  <2>1. inbox' \in Seq(Intent) /\ InboxAgrees' /\ ~Ending' /\ NoNewMode
    BY <1>1, <1>2, InboxShrinks DEF history
  <2>2. commands' \in 0..MaxCommands
    BY <1>1 DEF IInv, TypeOK
  <2> QED BY <1>1, <1>2, <2>1, <2>2, ThreadStepKeeps DEF history
<1>3. CASE /\ inbox[1].type = "settle"
           /\ thread' = Dispatched(SessionSetting(inbox[1].change))
  <2>1. inbox[1].change \in {Settling("idle", None), Stopping}
    BY <1>1, <1>3 DEF Intent
  <2>2. Sound(thread') /\ SameLife(thread, thread') /\ thread'.pending = thread.pending
    BY <1>3, <2>1, SettledIs
  <2> QED BY <1>2, <2>2 DEF SameLife
<1>4. CASE inbox[1].type = "archiveFailed" /\ thread' = Dispatched([type |-> "archiveFailed"])
  BY <1>2, <1>4, UnarchivedIs DEF Archives
<1>5. CASE /\ inbox[1].type = "archiveComplete"
           /\ \E now \in Times : thread' = Dispatched([type |-> "archiveComplete", cutoff |-> now])
  BY <1>1, <1>5, ArchiveEndKeeps
<1> QED BY <1>1, <1>3, <1>4, <1>5 DEF ReactEnd, First

LEMMA ReactKeeps == ASSUME IInv, React PROVE IInv'
BY ReactRespondKeeps, ReactModeKeeps, ReactInterruptKeeps, ReactStopKeeps, ReactArchiveKeeps,
   ReactEndKeeps DEF React

-----------------------------------------------------------------------------
(***************************************************************************)
(* The boot.                                                               *)
(***************************************************************************)

LEMMA ReconcilingEffect ==
    ASSUME NEW t \in Thread
    PROVE  LET u == SessionSet(t, Reconciling) IN SameLife(t, u) /\ u.pending = {}
<1>1. /\ Reconciling.status = "idle" /\ Reconciling.cursor = None /\ Reconciling.add = None
      /\ Reconciling.remove = None /\ Reconciling.clear = TRUE /\ "idle" # None
  BY RulesAssumption DEF NoChange, Reconciling, Status
<1>2. SessionSet(t, Reconciling) = [[t EXCEPT !.status = "idle", !.inFlight = FALSE] EXCEPT !.pending = {}]
  BY <1>1 DEF SessionSet
<1> QED BY <1>2 DEF Thread, SameLife

LEMMA ReconciledIs ==
    ASSUME IInv, NEW u \in Reconciled
    PROVE  Sound(u) /\ u.mode = thread.mode /\ u.pending \subseteq thread.pending
<1>1. CASE \E now \in Times : u = Dispatched([type |-> "archiveComplete", cutoff |-> now])
  BY <1>1, ArchivedIs
<1>2. CASE u = thread
  BY <1>2, ThreadIs
<1>3. CASE u = Dispatched(SessionSetting(Reconciling))
  <2>1. Sound(u) /\ u = IF thread.archived THEN thread ELSE SessionSet(thread, Reconciling)
    BY <1>3, Changes, SetDispatched
  <2>2. LET v == SessionSet(thread, Reconciling) IN SameLife(thread, v) /\ v.pending = {}
    BY ThreadIs, ReconcilingEffect
  <2> QED BY <2>1, <2>2 DEF SameLife
<1> QED BY <1>1, <1>2, <1>3 DEF Reconciled

LEMMA RebootKeeps == ASSUME IInv, Reboot PROVE IInv'
<1>1. Sound(thread') /\ thread'.mode = thread.mode /\ thread'.pending \subseteq thread.pending
  BY ReconciledIs DEF Reboot
<1>2. /\ inbox' = <<>> /\ granted' = FALSE
      /\ UNCHANGED <<decision, commands, clicked, inForce, lagging>>
      /\ \A r \in Requests : /\ gate'[r] = "absent"
                             /\ call'[r] = IF Underway(r) THEN "refused" ELSE call[r]
                             /\ lost'[r] = IF Underway(r) THEN "reboot" ELSE lost[r]
  BY DEF Reboot
<1>3. inbox' \in Seq(Intent) /\ DOMAIN inbox' = {}
  BY <1>2
<1>4. TypeOK'
  <2>1. /\ gate' \in [Requests -> {"absent", "open"} \cup Decision]
        /\ call' \in [Requests -> Stage] /\ lost' \in [Requests -> Loss]
    BY CallTypes DEF Reboot, Stage, Loss
  <2> QED BY <1>1, <1>2, <1>3, <2>1 DEF IInv, TypeOK, Sound
<1>5. ASSUME NEW r \in Requests PROVE CardAgrees(r)' /\ GateAgrees(r)' /\ LicenceAgrees(r)'
  <2>1. /\ call'[r] \in {"none", "ran", "refused"} /\ gate'[r] = "absent" /\ clicked' = clicked
        /\ \/ call'[r] = call[r] /\ lost'[r] = lost[r]
           \/ call'[r] = "refused" /\ lost'[r] = "reboot"
    BY <1>2 DEF Underway
  <2>2. CardAgrees(r)'
    BY <1>1, <2>1, CallFacts DEF CardAgrees, Before
  <2>3. GateAgrees(r)'
    BY <2>1 DEF GateAgrees, Waiting
  <2>4. Favoured(r)' => Favoured(r)
    BY <2>1, CallFacts DEF Favoured, Favours
  <2>5. Licensed(r, Known(r)) => Licensed(r, Known(r))'
    BY <1>2, LicenceLasts
  <2>6. ~Underway(r)'
    BY <2>1 DEF Underway
  <2> QED BY <2>2, <2>3, <2>4, <2>5, <2>6, CallFacts DEF LicenceAgrees
<1>6. InboxAgrees' /\ GrantStands' /\ thread'.mode \in RuntimeMode
  BY <1>1, <1>2, <1>3 DEF IInv, InboxAgrees, GrantStands
<1> QED BY <1>1, <1>4, <1>5, <1>6 DEF IInv

-----------------------------------------------------------------------------
(***************************************************************************)
(* The theorems.                                                           *)
(***************************************************************************)

LEMMA InitIInv == ASSUME Init PROVE IInv
<1>1. PICK i \in Instances, m \in Modes :
         /\ i \in Antigravity => m \in AntigravityModes
         /\ thread = [NewThread([type |-> "created", instance |-> i, mode |-> m])
                        EXCEPT !.status = "running", !.inFlight = TRUE]
  BY DEF Init
<1> DEFINE e == [type |-> "created", instance |-> i, mode |-> m]
           t == NewThread(e)
<1>2. /\ e \in [type : {"created"}, instance : Instances, mode : ThreadMode \cup {None}]
      /\ e.instance \in Antigravity => e.mode \in AntigravityModes
      /\ m \in RuntimeMode /\ m # None
  BY <1>1, ToolCallAssumption, RulesAssumption DEF ThreadMode
<1>3. t.pending = {} /\ t.mode = m /\ ~t.archived /\ ~t.steered
  BY <1>2 DEF NewThread
<1>4. Sound(t)
  <2> HIDE DEF e
  <2> QED BY <1>2, NewThreadSound
<1> HIDE DEF t
<1>5. thread = [t EXCEPT !.status = "running", !.inFlight = TRUE]
  BY <1>1 DEF t
<1>6. Sound(thread) /\ thread.mode = m /\ thread.pending = {}
  BY <1>3, <1>4, <1>5 DEF Sound, Thread, Status
<1>7. <<>> \in Seq(Intent) /\ DOMAIN <<>> = {} /\ 0 \in 0..MaxCommands
  BY ToolCallAssumption
<1>8. TypeOK
  BY <1>6, <1>7 DEF Init, TypeOK, Sound, Stage, Loss
<1>9. ASSUME NEW r \in Requests PROVE CardAgrees(r) /\ GateAgrees(r) /\ LicenceAgrees(r)
  <2>1. /\ call[r] = "none" /\ gate[r] = "absent" /\ clicked[r] = None /\ inbox = <<>>
    BY <1>9 DEF Init
  <2> QED BY <1>6, <2>1 DEF CardAgrees, GateAgrees, LicenceAgrees, Waiting, Favoured, Favours,
                            Underway, Decision, Approvals
<1>10. InboxAgrees /\ GrantStands
  BY <1>7 DEF Init, InboxAgrees, GrantStands
<1> QED BY <1>2, <1>6, <1>8, <1>9, <1>10 DEF IInv

LEMMA StutterKeeps == ASSUME IInv, UNCHANGED vars PROVE IInv'
BY DEF IInv, TypeOK, InboxAgrees, GrantStands, CardAgrees, GateAgrees, LicenceAgrees, Waiting,
       Ending, Favoured, Underway, Licensed, Known, vars

LEMMA StepIInv == IInv /\ [Next]_vars => IInv'
<1> SUFFICES ASSUME IInv, [Next]_vars PROVE IInv'
  OBVIOUS
<1>1. ASSUME NEW r \in Requests,
             Authorize(r) \/ CallStep(r) \/ CutShort(r) \/ TimeOut(r) \/ \E d \in Answers : Click(r, d)
      PROVE  IInv'
  BY <1>1, AuthorizeKeeps, LookKeeps, OpenOnGateKeeps, OpenCardKeeps, AwaitKeeps, WakeKeeps,
     CloseLookKeeps, RetireKeeps, CutShortKeeps, TimeOutKeeps, ClickKeeps DEF CallStep
<1>2. CASE \E m \in Modes : SwitchMode(m)
  BY <1>2, SwitchModeKeeps
<1>3. CASE Interrupt \/ Stop \/ Archive \/ Resume
  BY <1>3, InterruptKeeps, StopKeeps, ArchiveKeeps, ResumeKeeps
<1>4. CASE React
  BY <1>4, ReactKeeps
<1>5. CASE Reboot
  BY <1>5, RebootKeeps
<1>6. CASE UNCHANGED vars
  BY <1>6, StutterKeeps
<1> QED BY <1>1, <1>2, <1>3, <1>4, <1>5, <1>6 DEF Next

\* In every state of every run the card, the gate and the caller of each request
\* agree, whatever is in the Reactor's inbox: Ask, authorize, Ingestion.handle
\* and Reactor.react keep it between them.
THEOREM ToolCallInvariant == Spec => []IInv
<1>1. Init => IInv
  BY InitIInv
<1> QED BY <1>1, StepIInv, PTL DEF Spec

\* The thread, the inbox and the calls keep their types.
THEOREM ToolCallTyped == Spec => []TypeOK
<1>1. IInv => TypeOK
  BY DEF IInv
<1> QED BY <1>1, ToolCallInvariant, PTL

\* A card on the thread has a caller that will take it off, and a caller parked
\* without an answer has its card on the thread, but for what Ask and handle are
\* known to lose: a caller gone as the card went up, an archive, a crash.
THEOREM CardsAndCallsMatch == Spec => []CardsMatchCalls
<1>1. ASSUME IInv PROVE CardsMatchCalls
  <2>1. ASSUME NEW r \in thread.pending
        PROVE  call[r] \in {"await", "parked", "close", "retire"} \/ lost[r] # "no"
    <3>1. r \in Requests
      BY <1>1, ThreadIs DEF Thread
    <3> QED BY <1>1, <2>1, <3>1, CallFacts DEF CardAgrees
  <2>2. ASSUME NEW r \in Requests, call[r] = "parked", gate[r] = "open", clicked[r] = None
        PROVE  r \in thread.pending \/ lost[r] = "noCard"
    BY <1>1, <2>2, CallFacts DEF GateAgrees, Waiting
  <2> QED BY <2>1, <2>2 DEF CardsMatchCalls, CardsHaveCallers, ParkedCallsShow
<1>2. IInv => CardsMatchCalls
  BY <1>1
<1> QED BY <1>2, ToolCallInvariant, PTL

\* No call of authorize runs on the host but by the operator's click, a mode
\* they chose, or an `accept for session' they gave.
THEOREM NoCallRunsUnlicensed == Spec => []RunsAreLicensed
<1>1. ASSUME IInv PROVE RunsAreLicensed
  <2> SUFFICES ASSUME NEW r \in Requests, call[r] = "ran" PROVE Licensed(r, inForce[r] \cup lagging[r])
    BY DEF RunsAreLicensed
  <2>1. Favoured(r)
    BY DEF Favoured, Favours
  <2> QED BY <1>1, <2>1, CallFacts DEF Known
<1>2. IInv => RunsAreLicensed
  BY <1>1
<1> QED BY <1>2, ToolCallInvariant, PTL
=============================================================================
