-------------------------- MODULE ThreadRulesProofs --------------------------
(***************************************************************************)
(* What one command can do to one thread, for any instances, requests and  *)
(* time stamps.  Sound(t) collects what is true of every thread; it is     *)
(* inductive as it stands, because its parts lean on each other: an        *)
(* archived thread has no pending card because it is quiet, and stays      *)
(* quiet because the fences reject what would wake it.                     *)
(***************************************************************************)
EXTENDS ThreadLife, WellFoundedInduction, TLAPS

Sound(t) ==
    /\ t \in Thread
    /\ t.archived => /\ t.status = "stopped" /\ ~t.inFlight
                     /\ t.pending = {} /\ ~t.plan /\ ~t.archiving
    /\ t.status = "waiting" => t.pending # {}
    /\ t.instance \in Antigravity => t.mode \in AntigravityModes /\ ~t.steered
    /\ t.status \in {"idle", "stopped"} /\ ~t.deleted => ~t.inFlight

-----------------------------------------------------------------------------
\* Each projection of one event keeps a thread sound.

LEMMA NewThreadSound ==
    ASSUME NEW e \in [type : {"created"}, instance : Instances, mode : ThreadMode \cup {None}],
           e.instance \in Antigravity => e.mode \in AntigravityModes
    PROVE  Sound(NewThread(e))
<1> DEFINE m == IF e.mode # None THEN e.mode
                ELSE IF e.instance \in Antigravity THEN "auto" ELSE "approval-required"
<1>1. m \in ThreadMode /\ (e.instance \in Antigravity => m \in AntigravityModes)
  BY RulesAssumption DEF ThreadMode, RuntimeMode, AntigravityModes
<1> HIDE DEF m
<1>2. NewThread(e) =
        [status |-> "idle", instance |-> e.instance, mode |-> m, pending |-> {},
         inFlight |-> FALSE, steered |-> FALSE, cursor |-> None, plan |-> FALSE,
         archiving |-> FALSE, archived |-> FALSE, cutoff |-> 0, deleted |-> FALSE]
  BY DEF NewThread, m
<1> QED BY <1>1, <1>2 DEF Sound, Thread, Status

LEMMA TurnStartedSound ==
    ASSUME NEW t, Sound(t), ~t.archived,
           NEW e \in [type : {"turnStartRequested"}, instance : Instances \cup {None}],
           t.inFlight => {IF e.instance = None THEN t.instance ELSE e.instance, t.instance}
                             \cap Antigravity = {},
           (IF e.instance = None THEN t.instance ELSE e.instance) \in Antigravity =>
               t.mode \in AntigravityModes
    PROVE  Sound(TurnStarted(t, e))
BY ZenonT(60) DEF Sound, TurnStarted, Thread, Status

LEMMA ArchivedSound ==
    ASSUME NEW t, Sound(t), NEW e \in [type : {"archived"}, cutoff : Times]
    PROVE  Sound(Archived(t, e))
BY DEF Sound, Archived, Thread, Status

LEMMA UnblockedSound ==
    ASSUME NEW t, Sound(t), NEW r \in Requests
    PROVE  Sound(Unblocked(t, r))
BY DEF Sound, Unblocked, Thread, Status

Settled(t, s) ==
    [t EXCEPT !.status = s,
              !.inFlight = IF s \in {"idle", "stopped"} THEN FALSE ELSE @]

LEMMA SettledSound ==
    ASSUME NEW t, Sound(t), ~t.archived, NEW s \in {"running", "idle", "stopped"}
    PROVE  Sound(Settled(t, s)) /\ Settled(t, s).status = s
BY DEF Sound, Settled, Thread, Status

Asked(t, r) ==
    [Settled(t, "waiting") EXCEPT !.pending = @ \cup {r}, !.status = "waiting"]

LEMMA AskedSound ==
    ASSUME NEW t, Sound(t), ~t.archived, NEW r \in Requests
    PROVE  Sound(Asked(t, r))
<1> DEFINE w == Settled(t, "waiting")
<1>1. /\ w \in Thread /\ w.archived = t.archived /\ w.instance = t.instance
      /\ w.mode = t.mode /\ w.steered = t.steered
  BY DEF Sound, Settled, Thread, Status
<1> HIDE DEF w
<1>2. Sound([w EXCEPT !.pending = @ \cup {r}, !.status = "waiting"])
  BY <1>1, ZenonT(60) DEF Sound, Thread, Status
<1> QED BY <1>2 DEF w, Asked

LEMMA CursorSound ==
    ASSUME NEW t, Sound(t), NEW i \in Instances
    PROVE  Sound([t EXCEPT !.cursor = i])
BY DEF Sound, Thread

LEMMA ClearedSound ==
    ASSUME NEW t, Sound(t), t.status # "waiting"
    PROVE  Sound([t EXCEPT !.pending = {}])
BY DEF Sound, Thread

LEMMA SessionSetSound ==
    ASSUME NEW t, Sound(t), ~t.archived, NEW change \in SessionChanges
    PROVE  Sound(SessionSet(t, change))
<1>0. /\ None \notin Requests /\ None \notin Instances /\ None \notin Status
      /\ \A s \in {"running", "idle", "waiting", "stopped"} : s # None
  BY RulesAssumption DEF Status
<1>1. ASSUME NEW s \in {"running", "idle"}, NEW i \in Instances \cup {None},
             change = Settling(s, i)
      PROVE  Sound(SessionSet(t, change))
  <2>1. /\ change.status = s /\ change.cursor = i /\ change.add = None
        /\ change.remove = None /\ change.clear = FALSE /\ s # None
    BY <1>0, <1>1 DEF NoChange, Settling
  <2>2. SessionSet(t, change) = IF i = None THEN Settled(t, s)
                                ELSE [Settled(t, s) EXCEPT !.cursor = i]
    BY <2>1 DEF SessionSet, Settled
  <2> QED BY <2>2, SettledSound, CursorSound
<1>2. ASSUME NEW r \in Requests, change = Asking(r)
      PROVE  Sound(SessionSet(t, change))
  <2>1. /\ change.status = "waiting" /\ change.cursor = None /\ change.add = r
        /\ change.remove = None /\ change.clear = FALSE /\ "waiting" # None /\ r # None
    BY <1>0, <1>2 DEF NoChange, Asking
  <2>2. SessionSet(t, change) = Asked(t, r)
    BY <2>1 DEF SessionSet, Settled, Asked
  <2> QED BY <2>2, AskedSound
<1>3. ASSUME NEW r \in Requests, change = Resolving(r)
      PROVE  Sound(SessionSet(t, change))
  <2>1. SessionSet(t, change) = Unblocked(t, r)
    BY <1>0, <1>3 DEF NoChange, Resolving, SessionSet
  <2> QED BY <2>1, UnblockedSound
<1>4. CASE change = Stopping
  <2>1. /\ change.status = "stopped" /\ change.cursor = None /\ change.add = None
        /\ change.remove = None /\ change.clear = FALSE /\ "stopped" # None
    BY <1>0, <1>4 DEF NoChange, Stopping
  <2>2. SessionSet(t, change) = Settled(t, "stopped")
    BY <2>1 DEF SessionSet, Settled
  <2> QED BY <2>2, SettledSound
<1>5. CASE change = Reconciling
  <2>1. /\ change.status = "idle" /\ change.cursor = None /\ change.add = None
        /\ change.remove = None /\ change.clear = TRUE /\ "idle" # None
    BY <1>0, <1>5 DEF NoChange, Reconciling
  <2>2. SessionSet(t, change) = [Settled(t, "idle") EXCEPT !.pending = {}]
    BY <2>1 DEF SessionSet, Settled
  <2>3. Sound(Settled(t, "idle")) /\ Settled(t, "idle").status # "waiting"
    BY SettledSound
  <2> QED BY <2>2, <2>3, ClearedSound
<1>6. \/ \E s \in {"running", "idle"}, i \in Instances \cup {None} :
              change = Settling(s, i)
      \/ \E r \in Requests : change = Asking(r)
      \/ \E r \in Requests : change = Resolving(r)
      \/ change = Stopping
      \/ change = Reconciling
  BY DEF SessionChanges
<1> QED BY <1>1, <1>2, <1>3, <1>4, <1>5, <1>6, Zenon

-----------------------------------------------------------------------------
(***************************************************************************)
(* Every accepted command keeps a thread sound.                            *)
(***************************************************************************)

\* An accepted create makes a sound thread.
LEMMA CreateSound ==
    ASSUME NEW c \in Command, Accepts(NoThread, c), c.type = "create"
    PROVE  \E e : /\ Decide(NoThread, c) = <<e>> /\ e.type = "created"
                  /\ Sound(NewThread(e))
<1> DEFINE e == [type |-> "created", instance |-> c.instance,
                 mode |-> IF c.instance \in Antigravity /\ c.mode = None THEN "auto" ELSE c.mode]
<1>1. ~Fenced(NoThread, c)
  BY DEF Fenced, Closed
<1>2. c \in [type : {"create"}, instance : Instances, mode : ThreadMode \cup {None}]
  BY DEF Command
<1>3. c.instance \in Antigravity => c.mode \in AntigravityModes \cup {None}
  BY <1>1 DEF Accepts
<1>4. /\ e \in [type : {"created"}, instance : Instances, mode : ThreadMode \cup {None}]
      /\ e.instance \in Antigravity => e.mode \in AntigravityModes
      /\ e.type = "created"
  BY <1>2, <1>3 DEF ThreadMode, RuntimeMode, AntigravityModes
<1>5. Decide(NoThread, c) = <<e>>
  BY <1>1 DEF Decide
<1> HIDE DEF e
<1> QED BY <1>4, <1>5, NewThreadSound

\* Of a thread nobody created, only a create makes anything.
LEMMA NoThreadSound ==
    ASSUME NEW c \in Command, Accepts(NoThread, c)
    PROVE  Apply(NoThread, Decide(NoThread, c)) = NoThread
              \/ Sound(Apply(NoThread, Decide(NoThread, c)))
<1>1. ~Fenced(NoThread, c)
  BY DEF Fenced, Closed
<1>2. CASE c.type = "create"
  <2>1. PICK e : /\ Decide(NoThread, c) = <<e>> /\ e.type = "created"
                 /\ Sound(NewThread(e))
    BY <1>2, CreateSound
  <2> QED BY <2>1 DEF Apply, ApplyOne
<1>3. CASE c.type # "create"
  <2>1. c.type \in {"sessionSet", "activityAppend", "planPropose", "turnInterrupt",
                    "sessionStop", "delete"}
    BY <1>1, <1>3 DEF Accepts, Command, Live, LifecycleCommands
  <2>2. PICK e : Decide(NoThread, c) = <<e>> /\ e.type # "created"
    BY <1>1, <2>1 DEF Decide
  <2> QED BY <2>2 DEF Apply, ApplyOne
<1> QED BY <1>2, <1>3

LEMMA HandleSound ==
    ASSUME NEW t, Sound(t), NEW c \in Command, Accepts(t, c)
    PROVE  Sound(Apply(t, Decide(t, c)))
<1>0. t # NoThread /\ t \in Thread
  BY RulesAssumption DEF Sound
<1>1. CASE Fenced(t, c)
  BY <1>1 DEF Decide, Apply
<1>3. ASSUME NEW e, Decide(t, c) = <<e>>
      PROVE  Apply(t, Decide(t, c)) = ApplyOne(t, e)
  BY <1>3 DEF Apply
<1>4. CASE c.type = "create"
  BY <1>0, <1>4 DEF Accepts, Fenced
<1>5. ASSUME ~Fenced(t, c), c.type = "turnStart"
      PROVE  Sound(Apply(t, Decide(t, c)))
  <2> DEFINE e == [type |-> "turnStartRequested", instance |-> c.instance]
             m == [type |-> "runtimeModeSet", mode |-> "auto"]
             u == [t EXCEPT !.mode = "auto"]
  <2>1. /\ e \in [type : {"turnStartRequested"}, instance : Instances \cup {None}]
        /\ e.instance = c.instance
    BY <1>5 DEF Command
  <2>2. /\ ~t.archived
        /\ t.inFlight => {TurnInstance(t, c), t.instance} \cap Antigravity = {}
    BY <1>0, <1>5 DEF Accepts, Closed, WorkCommands
  <2>3. CASE Rehomed(t, c)
    <3>1. Decide(t, c) = <<m, e>>
      BY <1>5, <2>3 DEF Decide
    <3>2. ApplyOne(t, m) = u
      BY <1>0, <2>2 DEF ApplyOne
    <3>3. "auto" \in AntigravityModes /\ "auto" \in ThreadMode
      BY DEF ThreadMode, RuntimeMode, AntigravityModes
    <3>4. /\ u \in Thread /\ u.mode = "auto" /\ u.instance = t.instance
          /\ u.inFlight = t.inFlight /\ u.archived = t.archived
      BY <1>0, <3>3 DEF Thread
    <3>5. Sound(u)
      BY <1>0, <3>3 DEF Sound, Thread
    <3>6. /\ Sound(u) /\ ~u.archived /\ u # NoThread
          /\ u.instance = t.instance /\ u.inFlight = t.inFlight
          /\ u.mode \in AntigravityModes
      BY <2>2, <3>3, <3>4, <3>5, RulesAssumption
    <3> HIDE DEF u
    <3>7. ApplyOne(u, e) = TurnStarted(u, e)
      BY <3>6 DEF ApplyOne
    <3>8. Sound(TurnStarted(u, e))
      <4> HIDE DEF e
      <4> QED BY <2>1, <2>2, <3>6, TurnStartedSound DEF TurnInstance
    <3> QED BY <3>1, <3>2, <3>7, <3>8 DEF Apply
  <2>4. CASE ~Rehomed(t, c)
    <3>1. Decide(t, c) = <<e>>
      BY <1>5, <2>4 DEF Decide
    <3>2. ApplyOne(t, e) = TurnStarted(t, e)
      BY <1>0, <2>2 DEF ApplyOne
    <3>3. TurnInstance(t, c) \in Antigravity => t.mode \in AntigravityModes
      BY <2>4 DEF Rehomed, Sound
    <3>4. Sound(TurnStarted(t, e))
      <4> HIDE DEF e
      <4> QED BY <2>1, <2>2, <3>3, TurnStartedSound DEF TurnInstance
    <3> QED BY <3>1, <3>2, <3>4, <1>3
  <2> QED BY <2>3, <2>4
<1>6. ASSUME ~Fenced(t, c), c.type = "respond"
      PROVE  Sound(Apply(t, Decide(t, c)))
  <2>1. c.request \in Requests
    BY <1>6 DEF Command
  <2> DEFINE e == [type |-> "responseRequested", request |-> c.request]
  <2>2. Decide(t, c) = <<e>>
    BY <1>6 DEF Decide
  <2>3. ApplyOne(t, e) = Unblocked(t, c.request)
    BY <1>0 DEF ApplyOne, Muted
  <2> QED BY <2>1, <2>2, <2>3, <1>3, UnblockedSound
<1>7. ASSUME ~Fenced(t, c), c.type = "runtimeModeSet"
      PROVE  Sound(Apply(t, Decide(t, c)))
  <2>1. /\ c.mode \in RuntimeMode
        /\ t.instance \in Antigravity => c.mode \in AntigravityModes
    BY <1>7 DEF Accepts
  <2> DEFINE e == [type |-> "runtimeModeSet", mode |-> c.mode]
  <2>2. Decide(t, c) = <<e>>
    BY <1>7 DEF Decide
  <2>3. ApplyOne(t, e) = [t EXCEPT !.mode = c.mode]
    BY <1>0 DEF ApplyOne, Muted
  <2>4. Sound([t EXCEPT !.mode = c.mode])
    BY <2>1 DEF Sound, Thread, ThreadMode
  <2> QED BY <2>2, <2>3, <2>4, <1>3
<1>8. ASSUME ~Fenced(t, c), c.type = "archive"
      PROVE  Sound(Apply(t, Decide(t, c)))
  <2> DEFINE e == [type |-> IF Closed(t) THEN "lifecycleUnchanged" ELSE "archiveRequested"]
  <2>1. Decide(t, c) = <<e>>
    BY <1>8 DEF Decide
  <2>2. ApplyOne(t, e) = IF Closed(t) THEN t ELSE [t EXCEPT !.archiving = TRUE]
    BY <1>0 DEF ApplyOne, Muted
  <2>3. ~Closed(t) => Sound([t EXCEPT !.archiving = TRUE])
    BY <1>0 DEF Sound, Thread, Closed
  <2> QED BY <2>1, <2>2, <2>3, <1>3
<1>9. ASSUME ~Fenced(t, c), c.type = "archiveComplete"
      PROVE  Sound(Apply(t, Decide(t, c)))
  <2> DEFINE e == [type |-> "archived", cutoff |-> c.cutoff]
  <2>1. CASE t.archived
    BY <1>9, <2>1 DEF Decide, Apply
  <2>2. CASE ~t.archived
    <3>1. e \in [type : {"archived"}, cutoff : Times]
      BY <1>9 DEF Command
    <3>2. Decide(t, c) = <<e>>
      BY <1>9, <2>2 DEF Decide
    <3>3. ApplyOne(t, e) = Archived(t, e)
      BY <1>0, <2>2 DEF ApplyOne
    <3> QED BY <3>1, <3>2, <3>3, <1>3, ArchivedSound
  <2> QED BY <2>1, <2>2
<1>10. ASSUME ~Fenced(t, c), c.type = "resume"
       PROVE  Sound(Apply(t, Decide(t, c)))
  <2> DEFINE e == [type |-> IF t.archived THEN "resumed" ELSE "lifecycleUnchanged"]
  <2>1. Decide(t, c) = <<e>>
    BY <1>10 DEF Decide
  <2>2. ApplyOne(t, e) = IF t.archived THEN [t EXCEPT !.archived = FALSE, !.status = "idle"]
                         ELSE t
    BY <1>0 DEF ApplyOne, Muted
  <2>3. t.archived => Sound([t EXCEPT !.archived = FALSE, !.status = "idle"])
    BY DEF Sound, Thread, Status
  <2> QED BY <2>1, <2>2, <2>3, <1>3
<1>11. ASSUME ~Fenced(t, c), c.type = "sessionSet"
       PROVE  Sound(Apply(t, Decide(t, c)))
  <2> DEFINE e == [type |-> "sessionSet", change |-> c.change]
  <2>1. c.change \in SessionChanges
    BY <1>11 DEF Command
  <2>2. Decide(t, c) = <<e>>
    BY <1>11 DEF Decide
  <2>3. ApplyOne(t, e) = IF t.archived THEN t ELSE SessionSet(t, c.change)
    BY <1>0 DEF ApplyOne, Muted
  <2>4. ~t.archived => Sound(SessionSet(t, c.change))
    BY <2>1, SessionSetSound
  <2> QED BY <2>2, <2>3, <2>4, <1>3
<1>12. ASSUME ~Fenced(t, c), c.type = "planPropose"
       PROVE  Sound(Apply(t, Decide(t, c)))
  <2> DEFINE e == [type |-> "planProposed"]
  <2>1. Decide(t, c) = <<e>>
    BY <1>12 DEF Decide
  <2>2. ApplyOne(t, e) = IF t.archived THEN t ELSE [t EXCEPT !.plan = TRUE]
    BY <1>0 DEF ApplyOne, Muted
  <2>3. ~t.archived => Sound([t EXCEPT !.plan = TRUE])
    BY DEF Sound, Thread
  <2> QED BY <2>1, <2>2, <2>3, <1>3
<1>13. ASSUME ~Fenced(t, c), c.type = "archiveFailed"
       PROVE  Sound(Apply(t, Decide(t, c)))
  <2> DEFINE e == [type |-> "archiveFailed"]
  <2>1. Decide(t, c) = <<e>>
    BY <1>13 DEF Decide
  <2>2. ApplyOne(t, e) = [t EXCEPT !.archiving = FALSE]
    BY <1>0 DEF ApplyOne, Muted
  <2>3. Sound([t EXCEPT !.archiving = FALSE])
    BY DEF Sound, Thread
  <2> QED BY <2>1, <2>2, <2>3, <1>3
<1>14. ASSUME ~Fenced(t, c), c.type = "delete"
       PROVE  Sound(Apply(t, Decide(t, c)))
  <2> DEFINE e == [type |-> "deleted"]
  <2>1. Decide(t, c) = <<e>>
    BY <1>14 DEF Decide
  <2>2. ApplyOne(t, e) = [t EXCEPT !.deleted = TRUE, !.status = "stopped"]
    BY <1>0 DEF ApplyOne, Muted
  <2>3. Sound([t EXCEPT !.deleted = TRUE, !.status = "stopped"])
    BY DEF Sound, Thread, Status
  <2> QED BY <2>1, <2>2, <2>3, <1>3
<1>15. ASSUME ~Fenced(t, c), c.type \in {"activityAppend", "turnInterrupt", "sessionStop"}
       PROVE  Sound(Apply(t, Decide(t, c)))
  <2>1. PICK e : /\ Decide(t, c) = <<e>>
                 /\ e.type \in {"activityAppended", "turnInterruptRequested",
                                "sessionStopRequested"}
    BY <1>15 DEF Decide
  <2>2. ApplyOne(t, e) = t
    BY <1>0, <2>1 DEF ApplyOne
  <2> QED BY <2>1, <2>2, <1>3
<1>16. c.type \in {"create", "turnStart", "respond", "runtimeModeSet", "archive",
                   "archiveComplete", "resume", "sessionSet", "planPropose", "archiveFailed",
                   "delete", "activityAppend", "turnInterrupt", "sessionStop"}
  BY DEF Command
<1> QED
  BY <1>1, <1>4, <1>5, <1>6, <1>7, <1>8, <1>9, <1>10, <1>11, <1>12, <1>13, <1>14,
     <1>15, <1>16

-----------------------------------------------------------------------------
(***************************************************************************)
(* Archived threads.                                                       *)
(***************************************************************************)

\* What an accepted command can do to an archived thread.
LEMMA HandleFreezes ==
    ASSUME NEW t, Sound(t), t.archived, NEW c \in Command, Accepts(t, c)
    PROVE  Apply(t, Decide(t, c)) \in
             {t, [t EXCEPT !.deleted = TRUE, !.status = "stopped"],
              [t EXCEPT !.archived = FALSE, !.status = "idle"]}
<1>0. /\ t # NoThread /\ t \in Thread /\ t.status = "stopped" /\ t.archiving = FALSE
      /\ Closed(t)
  BY RulesAssumption DEF Sound, Thread, Closed
<1>1. CASE Fenced(t, c) \/ c.type = "archiveComplete"
  <2>1. Decide(t, c) = <<>>
    BY <1>1 DEF Decide
  <2> QED BY <2>1 DEF Apply
<1>2. ASSUME NEW e, Decide(t, c) = <<e>>
      PROVE  Apply(t, Decide(t, c)) = ApplyOne(t, e)
  BY <1>2 DEF Apply
<1>3. ASSUME ~Fenced(t, c), c.type \in {"archive", "sessionSet", "activityAppend", "planPropose"}
      PROVE  Apply(t, Decide(t, c)) = t
  <2>1. PICK e : /\ Decide(t, c) = <<e>>
                 /\ e.type \in {"lifecycleUnchanged"} \cup Muted
    BY <1>0, <1>3 DEF Decide, Muted
  <2>2. ApplyOne(t, e) = t
    BY <1>0, <2>1 DEF ApplyOne, Muted
  <2> QED BY <2>1, <2>2, <1>2
<1>4. ASSUME ~Fenced(t, c), c.type = "archiveFailed"
      PROVE  Apply(t, Decide(t, c)) = t
  <2> DEFINE e == [type |-> "archiveFailed"]
  <2>1. Decide(t, c) = <<e>>
    BY <1>4 DEF Decide
  <2>2. ApplyOne(t, e) = [t EXCEPT !.archiving = FALSE]
    BY <1>0 DEF ApplyOne, Muted
  <2>3. [t EXCEPT !.archiving = FALSE] = t
    BY <1>0 DEF Thread
  <2> QED BY <2>1, <2>2, <2>3, <1>2
<1>5. ASSUME ~Fenced(t, c), c.type = "resume"
      PROVE  Apply(t, Decide(t, c)) = [t EXCEPT !.archived = FALSE, !.status = "idle"]
  <2> DEFINE e == [type |-> "resumed"]
  <2>1. Decide(t, c) = <<e>>
    BY <1>5 DEF Decide
  <2>2. ApplyOne(t, e) = [t EXCEPT !.archived = FALSE, !.status = "idle"]
    BY <1>0 DEF ApplyOne, Muted
  <2> QED BY <2>1, <2>2, <1>2
<1>6. ASSUME ~Fenced(t, c), c.type = "delete"
      PROVE  Apply(t, Decide(t, c)) = [t EXCEPT !.deleted = TRUE, !.status = "stopped"]
  <2> DEFINE e == [type |-> "deleted"]
  <2>1. Decide(t, c) = <<e>>
    BY <1>6 DEF Decide
  <2>2. ApplyOne(t, e) = [t EXCEPT !.deleted = TRUE, !.status = "stopped"]
    BY <1>0 DEF ApplyOne, Muted
  <2> QED BY <2>1, <2>2, <1>2
<1>7. ~Fenced(t, c) => c.type \notin WorkCommands \cup {"create"}
  BY <1>0 DEF Accepts
<1>8. c.type \in {"create", "archive", "archiveComplete", "resume", "sessionSet", "planPropose",
                  "archiveFailed", "delete", "activityAppend"} \cup WorkCommands
  BY DEF Command, WorkCommands
<1> QED
  BY <1>1, <1>3, <1>4, <1>5, <1>6, <1>7, <1>8

-----------------------------------------------------------------------------
(***************************************************************************)
(* Events that reach another thread than the one they were decided on.     *)
(***************************************************************************)

\* Whatever was decided on a thread brings none into being.
LEMMA NothingFromNoThread ==
    ASSUME NEW t, t # NoThread, NEW c \in Command, Accepts(t, c)
    PROVE  Apply(NoThread, Decide(t, c)) = NoThread
<1> DEFINE start == [type |-> "turnStartRequested", instance |-> c.instance]
           auto == [type |-> "runtimeModeSet", mode |-> "auto"]
<1>1. \/ Decide(t, c) = <<>>
      \/ \E e : Decide(t, c) = <<e>> /\ e.type # "created"
      \/ Decide(t, c) = <<auto, start>>
  <2>1. CASE Fenced(t, c)
    BY <2>1 DEF Decide
  <2>2. ASSUME ~Fenced(t, c) PROVE c.type # "create"
    BY <2>2 DEF Accepts
  <2>3. CASE ~Fenced(t, c) /\ c.type \in {"turnStart", "respond", "runtimeModeSet", "archive"}
    BY <2>3, SMTT(60) DEF Decide
  <2>4. CASE ~Fenced(t, c) /\ c.type \in {"archiveComplete", "resume", "sessionSet"}
    BY <2>4, SMTT(60) DEF Decide
  <2>5. CASE ~Fenced(t, c) /\ c.type \in {"activityAppend", "planPropose", "turnInterrupt",
                                          "sessionStop", "archiveFailed", "delete"}
    BY <2>5, SMTT(60) DEF Decide
  <2> QED BY <2>1, <2>2, <2>3, <2>4, <2>5 DEF Command
<1>2. CASE Decide(t, c) = <<>>
  BY <1>2 DEF Apply
<1>3. ASSUME NEW e, Decide(t, c) = <<e>>, e.type # "created"
      PROVE  Apply(NoThread, Decide(t, c)) = NoThread
  BY <1>3 DEF Apply, ApplyOne
<1>4. CASE Decide(t, c) = <<auto, start>>
  <2>1. ApplyOne(NoThread, auto) = NoThread /\ ApplyOne(NoThread, start) = NoThread
    BY DEF ApplyOne
  <2> HIDE DEF auto, start
  <2> QED BY <1>4, <2>1 DEF Apply
<1> QED BY <1>1, <1>2, <1>3, <1>4

\* What was decided on no thread: a create, which starts afresh wherever it
\* lands, or events that leave a thread sound.
LEMMA OverSound ==
    ASSUME NEW d, Sound(d), NEW c \in Command, Accepts(NoThread, c)
    PROVE  /\ Sound(Apply(d, Decide(NoThread, c)))
           /\ Apply(NoThread, Decide(NoThread, c)) \in
                 {NoThread, Apply(d, Decide(NoThread, c))}
<1>0. d # NoThread /\ d \in Thread
  BY RulesAssumption DEF Sound
<1>1. ~Fenced(NoThread, c)
  BY DEF Fenced, Closed
<1>2. CASE c.type = "create"
  <2>1. PICK e : /\ Decide(NoThread, c) = <<e>> /\ e.type = "created"
                 /\ Sound(NewThread(e))
    BY <1>2, CreateSound
  <2>2. \A t : Apply(t, Decide(NoThread, c)) = NewThread(e)
    BY <2>1 DEF Apply, ApplyOne
  <2> QED BY <2>1, <2>2
<1>3. CASE c.type # "create"
  <2>1. c.type \in {"sessionSet", "activityAppend", "planPropose", "turnInterrupt",
                    "sessionStop", "delete"}
    BY <1>1, <1>3 DEF Accepts, Command, Live, LifecycleCommands
  <2>2. PICK e : Decide(NoThread, c) = <<e>> /\ e.type # "created"
    BY <1>1, <2>1 DEF Decide
  <2>3. Apply(NoThread, Decide(NoThread, c)) = NoThread
    BY <2>2 DEF Apply, ApplyOne
  <2>4. Apply(d, Decide(NoThread, c)) = ApplyOne(d, Decide(NoThread, c)[1])
    BY <2>2 DEF Apply
  <2>5. CASE c.type = "sessionSet"
    <3>1. c.change \in SessionChanges
      BY <2>5 DEF Command
    <3>2. ApplyOne(d, [type |-> "sessionSet", change |-> c.change]) =
             IF d.archived THEN d ELSE SessionSet(d, c.change)
      BY <1>0 DEF ApplyOne, Muted
    <3>3. Decide(NoThread, c) = <<[type |-> "sessionSet", change |-> c.change]>>
      BY <1>1, <2>5 DEF Decide
    <3>4. ~d.archived => Sound(SessionSet(d, c.change))
      BY <3>1, SessionSetSound
    <3> QED BY <2>3, <2>4, <3>2, <3>3, <3>4
  <2>6. CASE c.type = "planPropose"
    <3>1. ApplyOne(d, [type |-> "planProposed"]) = IF d.archived THEN d ELSE [d EXCEPT !.plan = TRUE]
      BY <1>0 DEF ApplyOne, Muted
    <3>2. Decide(NoThread, c) = <<[type |-> "planProposed"]>>
      BY <1>1, <2>6 DEF Decide
    <3>3. ~d.archived => Sound([d EXCEPT !.plan = TRUE])
      BY DEF Sound, Thread
    <3> QED BY <2>3, <2>4, <3>1, <3>2, <3>3
  <2>7. CASE c.type = "delete"
    <3>1. ApplyOne(d, [type |-> "deleted"]) = [d EXCEPT !.deleted = TRUE, !.status = "stopped"]
      BY <1>0 DEF ApplyOne, Muted
    <3>2. Decide(NoThread, c) = <<[type |-> "deleted"]>>
      BY <1>1, <2>7 DEF Decide
    <3>3. Sound([d EXCEPT !.deleted = TRUE, !.status = "stopped"])
      BY DEF Sound, Thread, Status
    <3> QED BY <2>3, <2>4, <3>1, <3>2, <3>3
  <2>8. CASE c.type \in {"activityAppend", "turnInterrupt", "sessionStop"}
    <3>1. PICK a : /\ Decide(NoThread, c) = <<a>>
                   /\ a.type \in {"activityAppended", "turnInterruptRequested",
                                  "sessionStopRequested"}
      BY <1>1, <2>8 DEF Decide
    <3>2. ApplyOne(d, a) = d
      BY <1>0, <3>1 DEF ApplyOne
    <3> QED BY <2>3, <2>4, <3>1, <3>2
  <2> QED BY <2>1, <2>5, <2>6, <2>7, <2>8
<1> QED BY <1>2, <1>3

-----------------------------------------------------------------------------
(***************************************************************************)
(* What a command does to a card, on the thread it was decided on or on    *)
(* any other.                                                              *)
(***************************************************************************)

Pends(t, r) == t # NoThread /\ r \in t.pending

\* One event takes cards away, or raises the one a session-set names.
LEMMA EventCards ==
    ASSUME NEW y \in Thread, NEW e, e.type \notin {"created", "sessionSet"}
    PROVE  ApplyOne(y, e).pending \subseteq y.pending
<1>1. y # NoThread
  BY RulesAssumption
<1>2. CASE y.archived /\ e.type \in Muted
  BY <1>1, <1>2 DEF ApplyOne
<1>3. CASE ~(y.archived /\ e.type \in Muted)
  <2>1. ApplyOne(y, e) =
          CASE e.type = "archiveRequested" -> [y EXCEPT !.archiving = TRUE]
           [] e.type = "archiveFailed" -> [y EXCEPT !.archiving = FALSE]
           [] e.type = "archived" -> Archived(y, e)
           [] e.type = "resumed" -> [y EXCEPT !.archived = FALSE, !.status = "idle"]
           [] e.type = "turnStartRequested" -> TurnStarted(y, e)
           [] e.type = "planProposed" -> [y EXCEPT !.plan = TRUE]
           [] e.type = "responseRequested" -> Unblocked(y, e.request)
           [] e.type = "runtimeModeSet" -> [y EXCEPT !.mode = e.mode]
           [] e.type = "sessionSet" -> SessionSet(y, e.change)
           [] e.type = "deleted" -> [y EXCEPT !.deleted = TRUE, !.status = "stopped"]
           [] OTHER -> y
    BY <1>1, <1>3 DEF ApplyOne
  <2>2. /\ Archived(y, e).pending = {}
        /\ TurnStarted(y, e).pending = y.pending
        /\ Unblocked(y, e.request).pending = y.pending \ {e.request}
    BY DEF Archived, TurnStarted, Unblocked, Thread
  <2>3. /\ [y EXCEPT !.archiving = TRUE].pending = y.pending
        /\ [y EXCEPT !.archiving = FALSE].pending = y.pending
        /\ [y EXCEPT !.archived = FALSE, !.status = "idle"].pending = y.pending
        /\ [y EXCEPT !.plan = TRUE].pending = y.pending
        /\ [y EXCEPT !.mode = e.mode].pending = y.pending
        /\ [y EXCEPT !.deleted = TRUE, !.status = "stopped"].pending = y.pending
    BY DEF Thread
  <2> QED BY <2>1, <2>2, <2>3
<1> QED BY <1>2, <1>3

LEMMA SessionCards ==
    ASSUME NEW y \in Thread, NEW ch \in SessionChanges, NEW r \in Requests,
           r \in SessionSet(y, ch).pending
    PROVE  r \in y.pending \/ ch.add = r
<1> DEFINE settled == IF ch.status = None THEN y
                      ELSE [y EXCEPT !.status = ch.status,
                                     !.inFlight = IF ch.status \in {"idle", "stopped"}
                                                    THEN FALSE ELSE @]
           resumable == IF ch.cursor = None THEN settled
                        ELSE [settled EXCEPT !.cursor = ch.cursor]
           asked == IF ch.add = None THEN resumable
                    ELSE [resumable EXCEPT !.pending = @ \cup {ch.add}, !.status = "waiting"]
           answered == IF ch.remove = None THEN asked ELSE Unblocked(asked, ch.remove)
<1>2. SessionSet(y, ch) = IF ch.clear THEN [answered EXCEPT !.pending = {}] ELSE answered
  BY DEF SessionSet
<1>3. settled.pending = y.pending /\ DOMAIN settled = DOMAIN y
  BY DEF Thread
<1>4. "pending" \in DOMAIN y
  BY DEF Thread
<1> HIDE DEF settled
<1>5. resumable.pending = y.pending /\ DOMAIN resumable = DOMAIN y
  BY <1>3
<1> HIDE DEF resumable
<1>6. asked.pending \subseteq y.pending \cup {ch.add} /\ DOMAIN asked = DOMAIN y
      /\ (ch.add = None => asked.pending = y.pending)
  BY <1>4, <1>5
<1> HIDE DEF asked
<1>7. answered.pending \subseteq asked.pending /\ DOMAIN answered = DOMAIN y
  BY <1>4, <1>6 DEF Unblocked
<1> HIDE DEF answered
<1>8. SessionSet(y, ch).pending \subseteq asked.pending
  BY <1>2, <1>4, <1>7
<1> QED BY <1>6, <1>8

\* Only the session-set that raises a card can put it up.
LEMMA CardsAreRaised ==
    ASSUME NEW x, NEW y \in Thread \cup {NoThread}, NEW c \in Command, NEW r \in Requests,
           Pends(Apply(y, Decide(x, c)), r)
    PROVE  Pends(y, r) \/ (c.type = "sessionSet" /\ c.change.add = r)
<1>1. CASE Decide(x, c) = <<>>
  BY <1>1 DEF Apply
<1>2. ASSUME NEW e, Decide(x, c) = <<e>>, e.type = "created"
      PROVE  FALSE
  <2>1. Apply(y, <<e>>) = NewThread(e)
    BY <1>2 DEF Apply, ApplyOne
  <2> QED BY <1>2, <2>1 DEF Pends, NewThread
<1>3. ASSUME NEW e, Decide(x, c) = <<e>>, e.type \notin {"created", "sessionSet"}
      PROVE  Pends(y, r)
  <2>1. Apply(y, <<e>>) = ApplyOne(y, e)
    BY DEF Apply
  <2>2. y = NoThread => ApplyOne(y, e) = NoThread
    BY <1>3 DEF ApplyOne
  <2>3. y \in Thread => ApplyOne(y, e).pending \subseteq y.pending
    BY <1>3, EventCards
  <2> QED BY <1>3, <2>1, <2>2, <2>3 DEF Pends
<1>4. ASSUME c.type = "sessionSet", Decide(x, c) = <<[type |-> "sessionSet", change |-> c.change]>>
      PROVE  Pends(y, r) \/ c.change.add = r
  <2> DEFINE e == [type |-> "sessionSet", change |-> c.change]
  <2>1. Apply(y, <<e>>) = ApplyOne(y, e) /\ e.type = "sessionSet" /\ e.change = c.change
    BY DEF Apply
  <2> HIDE DEF e
  <2>2. ApplyOne(y, e) = IF y = NoThread \/ (y.archived /\ e.type \in Muted) THEN y
                         ELSE SessionSet(y, c.change)
    BY <2>1 DEF ApplyOne
  <2>3. c.change \in SessionChanges
    BY <1>4 DEF Command
  <2>4. CASE ApplyOne(y, e) = y
    BY <1>4, <2>1, <2>4 DEF e
  <2>5. CASE y \in Thread /\ ApplyOne(y, e) = SessionSet(y, c.change)
    <3>1. r \in SessionSet(y, c.change).pending
      BY <1>4, <2>1, <2>5 DEF e, Pends
    <3>2. y # NoThread
      BY <2>5, RulesAssumption
    <3> QED BY <2>3, <2>5, <3>1, <3>2, SessionCards DEF Pends
  <2> QED BY <2>2, <2>4, <2>5
<1>5. ASSUME c.type = "turnStart", Rehomed(x, c), ~Fenced(x, c)
      PROVE  Pends(y, r)
  <2> DEFINE m == [type |-> "runtimeModeSet", mode |-> "auto"]
             e == [type |-> "turnStartRequested", instance |-> c.instance]
  <2>1. Decide(x, c) = <<m, e>>
    BY <1>5 DEF Decide
  <2>2. m.type = "runtimeModeSet" /\ m.mode = "auto" /\ e.type = "turnStartRequested"
    OBVIOUS
  <2> HIDE DEF m, e
  <2>3. Apply(y, <<m, e>>) = ApplyOne(ApplyOne(y, m), e)
    BY DEF Apply
  <2>4. CASE y = NoThread
    BY <2>1, <2>2, <2>3, <2>4 DEF ApplyOne, Pends
  <2>5. CASE y \in Thread
    <3>1. y # NoThread
      BY <2>5, RulesAssumption
    <3>2. ApplyOne(y, m) = [y EXCEPT !.mode = "auto"]
      BY <2>2, <3>1 DEF ApplyOne, Muted
    <3>3. PICK z : z = ApplyOne(y, m)
      OBVIOUS
    <3>4. z \in Thread /\ z.pending = y.pending
      BY <2>5, <3>2, <3>3 DEF Thread, ThreadMode, RuntimeMode
    <3>5. ApplyOne(z, e).pending \subseteq z.pending
      BY <2>2, <3>4, EventCards
    <3> QED BY <2>1, <2>3, <3>1, <3>3, <3>4, <3>5 DEF Pends
  <2> QED BY <2>4, <2>5
<1>6. \/ Decide(x, c) = <<>>
      \/ \E e : Decide(x, c) = <<e>> /\ e.type # "sessionSet"
      \/ c.type = "sessionSet" /\ Decide(x, c) = <<[type |-> "sessionSet", change |-> c.change]>>
      \/ c.type = "turnStart" /\ Rehomed(x, c) /\ ~Fenced(x, c)
  BY DEF Decide, Command
<1> QED BY <1>1, <1>2, <1>3, <1>4, <1>5, <1>6

\* An answered card is down.
LEMMA AnswersSettle ==
    ASSUME NEW x, NEW y \in Thread \cup {NoThread}, NEW c \in Command, c.type = "respond"
    PROVE  ~Pends(Apply(y, Decide(x, c)), c.request)
<1>1. Decide(x, c) = <<[type |-> "responseRequested", request |-> c.request]>>
  BY DEF Decide, Fenced
<1>2. Apply(y, Decide(x, c)) = ApplyOne(y, [type |-> "responseRequested", request |-> c.request])
  BY <1>1 DEF Apply
<1>3. CASE y = NoThread
  BY <1>2, <1>3 DEF ApplyOne, Pends
<1>4. CASE y \in Thread
  <2>1. y # NoThread
    BY <1>4, RulesAssumption
  <2>2. Apply(y, Decide(x, c)) = Unblocked(y, c.request)
    BY <1>2, <2>1 DEF ApplyOne, Muted
  <2>3. Unblocked(y, c.request).pending = y.pending \ {c.request}
    BY <1>4 DEF Unblocked, Thread
  <2> QED BY <2>2, <2>3 DEF Pends
<1> QED BY <1>3, <1>4

-----------------------------------------------------------------------------
(***************************************************************************)
(* Induction, from the library's theorem that a well-founded set has       *)
(* minimal elements: what holds of 0 and of every successor, said with a   *)
(* set, for the provers have no rule for an arbitrary predicate.           *)
(***************************************************************************)

LEMMA Least ==
    ASSUME NEW T, T \subseteq Nat, T # {}
    PROVE  \E x \in T : \A y \in T : x <= y
<1> DEFINE R == OpToRel(<, Nat)
<1>1. IsWellFoundedOn(R, Nat)
  BY NatLessThanWellFounded
<1>2. \A y, x \in Nat : <<y, x>> \in R <=> y < x
  BY DEF OpToRel
<1> HIDE DEF R
<1>3. PICK x \in T : \A y \in T : ~ (<<y, x>> \in R)
  BY <1>1, WFMin
<1>4. ASSUME NEW y \in T PROVE x <= y
  <2>1. x \in Nat /\ y \in Nat
    OBVIOUS
  <2>2. ~ (<<y, x>> \in R)
    BY <1>3
  <2>3. ~ (y < x)
    BY <1>2, <2>1, <2>2
  <2> QED BY <2>1, <2>3
<1> QED BY <1>4

LEMMA Induction ==
    ASSUME NEW S, 0 \in S, \A n \in Nat : n \in S => n + 1 \in S
    PROVE  \A n \in Nat : n \in S
<1> SUFFICES ASSUME NEW n \in Nat, n \notin S PROVE FALSE
  OBVIOUS
<1> DEFINE T == {k \in Nat : k \notin S}
<1>1. n \in T /\ T \subseteq Nat
  OBVIOUS
<1> HIDE DEF T
<1>2. PICK x \in T : \A y \in T : x <= y
  BY <1>1, Least
<1>3. x \in Nat /\ x \notin S /\ x # 0
  BY <1>2 DEF T
<1>4. x - 1 \in Nat /\ x - 1 \notin T
  BY <1>1, <1>2, <1>3
<1>5. x - 1 \in S
  BY <1>4 DEF T
<1> QED BY <1>3, <1>4, <1>5

-----------------------------------------------------------------------------
(***************************************************************************)
(* Sequences, as inboxes and channels use them: a reaction drops the head  *)
(* or puts something in its place, an order appends at the end.            *)
(***************************************************************************)

LEMMA Nonempty ==
    ASSUME NEW S, NEW q \in Seq(S), q # <<>>
    PROVE  /\ Len(q) \in Nat \ {0} /\ Head(q) = q[1] /\ q[1] \in S
           /\ Tail(q) \in Seq(S) /\ Len(Tail(q)) = Len(q) - 1
           /\ \A n \in 1..Len(Tail(q)) : Tail(q)[n] = q[n + 1]
OBVIOUS

LEMMA NewHead ==
    ASSUME NEW S, NEW q \in Seq(S), q # <<>>, NEW x \in S
    PROVE  LET r == <<x>> \o Tail(q) IN
           /\ r \in Seq(S) /\ Len(r) = Len(q) /\ r # <<>> /\ r[1] = x
           /\ \A n \in 2..Len(r) : r[n] = q[n]
OBVIOUS

LEMMA NewLast ==
    ASSUME NEW S, NEW q \in Seq(S), NEW x \in S
    PROVE  LET r == q \o <<x>> IN
           /\ r \in Seq(S) /\ Len(r) = Len(q) + 1 /\ r # <<>> /\ r[Len(q) + 1] = x
           /\ \A n \in 1..Len(q) : r[n] = q[n]
OBVIOUS

LEMMA NothingBefore ==
    ASSUME NEW S, NEW q \in Seq(S)
    PROVE  <<>> \o q = q /\ q \o <<>> = q
OBVIOUS

-----------------------------------------------------------------------------
(***************************************************************************)
(* ThreadLife: one thread, every command there is, in any order.  Its      *)
(* invariants are the parts of Sound.                                      *)
(***************************************************************************)

LoneInv == lone = NoThread \/ Sound(lone)

LEMMA StepKeepsLone == LoneInv /\ [TLNext]_lone => LoneInv'
<1> SUFFICES ASSUME LoneInv, [TLNext]_lone PROVE LoneInv'
  OBVIOUS
<1>1. ASSUME NEW c \in Command, Handle(c)
      PROVE  LoneInv'
  <2> PICK t : t = lone
    OBVIOUS
  <2>1. /\ Accepts(t, c) /\ lone' = Apply(t, Decide(t, c))
    BY <1>1 DEF Handle
  <2>2. t = NoThread \/ Sound(t)
    BY DEF LoneInv
  <2>3. lone' = NoThread \/ Sound(lone')
    BY <2>1, <2>2, NoThreadSound, HandleSound
  <2> QED BY <2>3 DEF LoneInv
<1>2. CASE ForgetThread
  BY <1>2 DEF ForgetThread, LoneInv
<1>3. CASE UNCHANGED lone
  BY <1>3 DEF LoneInv
<1> QED BY <1>1, <1>2, <1>3 DEF TLNext

\* Every reachable thread is sound.
THEOREM ThreadInvariant == TLSpec => []LoneInv
<1>1. TLInit => LoneInv
  BY DEF TLInit, LoneInv
<1> QED BY <1>1, StepKeepsLone, PTL DEF TLSpec

\* The read model of a thread has its type, whatever commands arrive.
THEOREM ThreadTypeOK == TLSpec => []TLTypeOK
<1>1. LoneInv => TLTypeOK
  BY DEF LoneInv, Sound, TLTypeOK
<1> QED BY <1>1, ThreadInvariant, PTL

\* A thread's status is true of its turn, its cards and its plan, archived,
\* waiting or settled, whatever arrived before or since.
THEOREM StatusesAreHonest == TLSpec => []StatusIsHonest
<1>1. LoneInv => StatusIsHonest
  BY DEF LoneInv, Sound, StatusIsHonest, ArchivedIsQuiet, WaitingHasCard, SettledHasNoTurn, Lives
<1> QED BY <1>1, ThreadInvariant, PTL

\* Antigravity's two rules hold by every route onto it: create, turn, mode set.
THEOREM AntigravityThreadsAreHonest == TLSpec => []AntigravityIsHonest
<1>1. LoneInv => AntigravityIsHonest
  BY DEF LoneInv, Sound, AntigravityIsHonest, Lives
<1> QED BY <1>1, ThreadInvariant, PTL

\* No command, however late, changes an archived thread except to resume or
\* delete it.
THEOREM ArchivedThreadsAreFrozen == TLSpec => ArchiveFreezes
<1> DEFINE Frozen ==
      Lives /\ lone.archived =>
         lone' \in {NoThread, [lone EXCEPT !.deleted = TRUE],
                      [lone EXCEPT !.archived = FALSE, !.status = "idle"]}
<1>1. ASSUME LoneInv, [TLNext]_lone PROVE [Frozen]_lone
  <2> SUFFICES ASSUME Lives, lone.archived, TLNext, lone' # lone, lone' # NoThread
               PROVE  lone' \in {[lone EXCEPT !.deleted = TRUE],
                                   [lone EXCEPT !.archived = FALSE, !.status = "idle"]}
    BY <1>1
  <2>1. PICK c \in Command : Handle(c)
    BY DEF TLNext, ForgetThread
  <2> PICK t : t = lone
    OBVIOUS
  <2>2. Sound(t) /\ t.archived /\ Accepts(t, c) /\ lone' = Apply(t, Decide(t, c))
    BY <1>1, <2>1 DEF LoneInv, Lives, Handle
  <2>3. lone' \in {t, [t EXCEPT !.deleted = TRUE, !.status = "stopped"],
                     [t EXCEPT !.archived = FALSE, !.status = "idle"]}
    BY <2>2, HandleFreezes
  <2>4. [t EXCEPT !.deleted = TRUE, !.status = "stopped"] = [t EXCEPT !.deleted = TRUE]
    BY <2>2 DEF Sound, Thread
  <2> QED BY <2>3, <2>4
<1> QED BY <1>1, ThreadInvariant, PTL DEF TLSpec, ArchiveFreezes
=============================================================================
