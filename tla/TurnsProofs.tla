----------------------------- MODULE TurnsProofs -----------------------------
(***************************************************************************)
(* Proofs about Turns, for any instances and bounds.                       *)
(*                                                                         *)
(* What makes the invariant inductive is the shape of the Reactor's inbox: *)
(* only its head can be the rest of a reaction, an archive is the last     *)
(* thing in it, a message for an agent the thread has left is followed by  *)
(* another message, and what the head takes for granted about the session  *)
(* still holds.                                                            *)
(***************************************************************************)
EXTENDS Turns, ThreadRulesProofs

\* A message waiting for its turn, or being given one.
IsMessage(e) == e.type = "ensure" /\ e.send

\* What an event asks for, as opposed to the rest of a reaction.
IsAsked(e) == IsMessage(e) \/ e.type \in {"interrupt", "stop", "archive"}

Archives == {"archive", "archiveComplete", "archiveFailed"}

\* For an agent the thread has been moved away from.
Elsewhere(e, t) ==
    e.type \in {"ensure", "begin"} /\ e.instance # None /\ e.instance # t.instance

\* Any message in q from place n on.
MessageFrom(q, n) == \E m \in n..Len(q) : IsMessage(q[m])

Ordered(q, t) ==
    /\ t.archived => q = <<>>
    /\ \A n \in 1..Len(q) :
          /\ n > 1 => IsAsked(q[n])
          /\ q[n].type \in Archives => n = Len(q) /\ t.archiving
          /\ Elsewhere(q[n], t) => MessageFrom(q, n + 1)

NoSession == \A i \in Instances : ~HasSession(i)

\* What the rest of a reaction takes for granted.
HeadFits ==
    inbox # <<>> =>
      LET e == inbox[1] IN
      /\ e.type \in {"begin", "archiveComplete"} => NoSession
      /\ e.type = "send" => /\ bound \in Instances
                            /\ bound = thread.instance \/ MessageFrom(inbox, 2)
      /\ e.type = "ensure" /\ ~e.send => bound = None

\* Time is ahead of every cutoff, and of the archives still to come.
ClockAhead ==
    /\ thread.cutoff < clock
    /\ clock <= commands + (IF thread.archiving THEN 0 ELSE 1)

InHand ==
    \A i \in Instances : hand[i] # NoHand =>
        /\ hand[i].at \in Times
        /\ hand[i].change \in SessionChanges
        /\ hand[i].change.status \in {"running", "idle", "stopped"}

NoTurnWithoutSession == \A i \in Instances : ~HasSession(i) => turns[i] = 0

\* What will take the thread out of its turn, or has been lost; while it is being
\* archived, too.
AtWork == turns[thread.instance] > 0

Settler(e) ==
    \/ e.type \in {"send", "interrupt", "stop", "settle", "archiveComplete"}
    \/ e.type \in {"ensure", "begin"} /\ e.send

ToReact == \E n \in 1..Len(inbox) : Settler(inbox[n])

ToLook ==
    \E n \in 1..Len(out[thread.instance]) :
        LET e == out[thread.instance][n] IN e.type # "started" /\ e.at > thread.cutoff

ToDeliver ==
    \E i \in Instances : /\ hand[i] # NoHand /\ hand[i].at > thread.cutoff
                         /\ hand[i].change.status \in {"idle", "stopped"}

NeverStuck ==
    thread.inFlight /\ ~thread.archived =>
        AtWork \/ ToReact \/ ToLook \/ ToDeliver \/ lost # "no"

IInv ==
    /\ TypeOK /\ Sound(thread) /\ ~thread.deleted
    /\ Ordered(inbox, thread) /\ HeadFits
    /\ ClockAhead /\ InHand /\ NoTurnWithoutSession
    /\ OneSession /\ ArchivedHasNoProcess /\ NeverStuck

-----------------------------------------------------------------------------
(***************************************************************************)
(* What the commands do to the thread.                                     *)
(***************************************************************************)

\* u is t but for what a session-set may change.
SameLife(t, u) ==
    /\ u.instance = t.instance /\ u.archiving = t.archiving /\ u.archived = t.archived
    /\ u.cutoff = t.cutoff /\ u.deleted = t.deleted

LEMMA SettledLife ==
    ASSUME NEW t \in Thread, NEW s \in {"running", "idle", "stopped"}
    PROVE  /\ Settled(t, s) \in Thread /\ SameLife(t, Settled(t, s))
           /\ Settled(t, s).inFlight = (s = "running" /\ t.inFlight)
BY DEF Settled, SameLife, Thread, Status

\* A session-set that ends a turn ends it; one that says running changes nothing.
LEMMA SessionSetLife ==
    ASSUME NEW t \in Thread, NEW change \in SessionChanges,
           change.status \in {"running", "idle", "stopped"}
    PROVE  /\ SameLife(t, SessionSet(t, change))
           /\ SessionSet(t, change).inFlight = (change.status = "running" /\ t.inFlight)
<1>0. /\ None \notin Requests /\ None \notin Instances
      /\ \A s \in {"running", "idle", "waiting", "stopped"} : s # None
  BY RulesAssumption DEF Status
<1>1. ASSUME NEW s \in {"running", "idle", "stopped"}, NEW i \in Instances \cup {None},
             change.status = s, change.cursor = i, change.add = None,
             change.remove = None, change.clear = FALSE
      PROVE  /\ SameLife(t, SessionSet(t, change))
             /\ SessionSet(t, change).inFlight = (change.status = "running" /\ t.inFlight)
  <2>1. SessionSet(t, change) = IF i = None THEN Settled(t, s)
                                ELSE [Settled(t, s) EXCEPT !.cursor = i]
    BY <1>0, <1>1 DEF SessionSet, Settled
  <2>2. Settled(t, s) \in Thread /\ SameLife(t, Settled(t, s))
    BY SettledLife
  <2> QED BY <1>1, <2>1, <2>2, SettledLife DEF SameLife, Thread
<1>2. CASE change = Reconciling
  <2>1. /\ change.status = "idle" /\ change.cursor = None /\ change.add = None
        /\ change.remove = None /\ change.clear = TRUE /\ "idle" # None
    BY <1>0, <1>2 DEF NoChange, Reconciling
  <2>2. SessionSet(t, change) = [Settled(t, "idle") EXCEPT !.pending = {}]
    BY <2>1 DEF SessionSet, Settled
  <2>3. Settled(t, "idle") \in Thread /\ SameLife(t, Settled(t, "idle"))
    BY SettledLife
  <2> QED BY <2>1, <2>2, <2>3, SettledLife DEF SameLife, Thread
<1>3. ASSUME NEW s \in {"running", "idle"}, NEW i \in Instances \cup {None},
             change = Settling(s, i)
      PROVE  /\ change.status = s /\ change.cursor = i /\ change.add = None
             /\ change.remove = None /\ change.clear = FALSE
  BY <1>3 DEF NoChange, Settling
<1>4. ASSUME change = Stopping
      PROVE  /\ change.status = "stopped" /\ change.cursor = None /\ change.add = None
             /\ change.remove = None /\ change.clear = FALSE
  BY <1>4 DEF NoChange, Stopping
<1>5. ASSUME NEW r \in Requests
      PROVE  change # Asking(r) /\ change # Resolving(r)
  BY <1>0 DEF NoChange, Asking, Resolving
<1>6. \/ \E s \in {"running", "idle"}, i \in Instances \cup {None} : change = Settling(s, i)
      \/ \E r \in Requests : change = Asking(r)
      \/ \E r \in Requests : change = Resolving(r)
      \/ change = Stopping
      \/ change = Reconciling
  BY DEF SessionChanges
<1> QED BY <1>1, <1>2, <1>3, <1>4, <1>5, <1>6, Zenon

\* A session-set dispatched: it comes to nothing, or ends the turn if it says so.
LEMMA SetDispatched ==
    ASSUME NEW change \in SessionChanges, NEW at \in Times \cup {0},
           change.status \in {"running", "idle", "stopped"}, Sound(thread), ~thread.archived
    PROVE  LET c == SessionSetting(change, at)
               u == Dispatched(c)
           IN  /\ Sound(u) /\ SameLife(thread, u)
               /\ Fenced(thread, c) => u = thread
               /\ ~Fenced(thread, c) => u.inFlight = (change.status = "running" /\ thread.inFlight)
<1> DEFINE c == SessionSetting(change, at)
<1>0. thread # NoThread /\ thread \in Thread
  BY RulesAssumption DEF Sound
<1>1. c \in Command /\ c.type = "sessionSet" /\ c.change = change
  BY DEF Command, SessionSetting
<1> HIDE DEF c
<1>2. Accepts(thread, c)
  BY <1>1 DEF Accepts, WorkCommands, LifecycleCommands
<1>3. Dispatched(c) = Apply(thread, Decide(thread, c)) /\ Sound(Dispatched(c))
  BY <1>1, <1>2, HandleSound DEF Dispatched
<1>4. CASE Fenced(thread, c)
  <2>1. Dispatched(c) = thread
    BY <1>3, <1>4 DEF Decide, Apply
  <2> QED BY <1>3, <1>4, <2>1 DEF SameLife, c
<1>5. CASE ~Fenced(thread, c)
  <2> DEFINE e == [type |-> "sessionSet", change |-> change]
  <2>1. Decide(thread, c) = <<e>>
    BY <1>1, <1>5 DEF Decide
  <2>2. ApplyOne(thread, e) = SessionSet(thread, change)
    BY <1>0 DEF ApplyOne
  <2>3. Dispatched(c) = SessionSet(thread, change)
    BY <1>3, <2>1, <2>2 DEF Apply
  <2> QED BY <1>0, <1>3, <1>5, <2>3, SessionSetLife DEF c
<1> QED BY <1>4, <1>5

\* The end of an archive, when one is under way.
LEMMA ArchiveDispatched ==
    ASSUME NEW cutoff \in Times, Sound(thread), ~thread.deleted, thread.archiving
    PROVE  LET u == Dispatched([type |-> "archiveComplete", cutoff |-> cutoff]) IN
           /\ Sound(u) /\ u.archived /\ ~u.archiving /\ u.cutoff = cutoff /\ ~u.deleted
<1> DEFINE c == [type |-> "archiveComplete", cutoff |-> cutoff]
           e == [type |-> "archived", cutoff |-> cutoff]
<1>0. thread # NoThread /\ thread \in Thread /\ ~thread.archived
  BY RulesAssumption DEF Sound
<1>1. c \in Command /\ ~Fenced(thread, c)
  BY DEF Command, Fenced
<1>2. Accepts(thread, c)
  BY <1>0 DEF Accepts, WorkCommands, LifecycleCommands, Live
<1>3. Dispatched(c) = Apply(thread, Decide(thread, c)) /\ Sound(Dispatched(c))
  BY <1>1, <1>2, HandleSound DEF Dispatched
<1>4. Decide(thread, c) = <<e>>
  BY <1>0, <1>1 DEF Decide
<1>5. ApplyOne(thread, e) = Archived(thread, e)
  BY <1>0 DEF ApplyOne
<1>6. Dispatched(c) = Archived(thread, e)
  BY <1>3, <1>4, <1>5 DEF Apply
<1>7. LET u == Archived(thread, e) IN u.archived /\ ~u.archiving /\ u.cutoff = cutoff /\ ~u.deleted
  BY <1>0 DEF Archived, Thread
<1> QED BY <1>3, <1>6, <1>7

\* The archive that failed.
LEMMA UnarchiveDispatched ==
    ASSUME Sound(thread), ~thread.deleted, ~thread.archived
    PROVE  LET u == Dispatched([type |-> "archiveFailed"]) IN
           Sound(u) /\ u = [thread EXCEPT !.archiving = FALSE]
<1> DEFINE c == [type |-> "archiveFailed"]
<1>0. thread # NoThread /\ thread \in Thread
  BY RulesAssumption DEF Sound
<1>1. c \in Command /\ ~Fenced(thread, c)
  BY DEF Command, Fenced
<1>2. Accepts(thread, c)
  BY <1>0 DEF Accepts, WorkCommands, LifecycleCommands, Live
<1>3. Dispatched(c) = Apply(thread, Decide(thread, c)) /\ Sound(Dispatched(c))
  BY <1>1, <1>2, HandleSound DEF Dispatched
<1>4. Decide(thread, c) = <<[type |-> "archiveFailed"]>>
  BY <1>1 DEF Decide
<1>5. ApplyOne(thread, [type |-> "archiveFailed"]) = [thread EXCEPT !.archiving = FALSE]
  BY <1>0 DEF ApplyOne, Muted
<1> QED BY <1>3, <1>4, <1>5 DEF Apply

-----------------------------------------------------------------------------
(***************************************************************************)
(* The inbox.                                                              *)
(***************************************************************************)

LEMMA OrderedTail ==
    ASSUME NEW q \in Seq(Intent), q # <<>>, NEW t, Ordered(q, t)
    PROVE  /\ Ordered(Tail(q), t)
           /\ Tail(q) # <<>> => IsAsked(Tail(q)[1])
           /\ q[1].type \in Archives => Tail(q) = <<>>
           /\ MessageFrom(q, 2) => MessageFrom(Tail(q), 1)
<1> DEFINE r == Tail(q)
<1>1. /\ Len(q) \in Nat \ {0} /\ r \in Seq(Intent) /\ Len(r) = Len(q) - 1
      /\ \A n \in 1..Len(r) : r[n] = q[n + 1]
  BY Nonempty
<1> HIDE DEF r
<1>2. Len(r) = 0 => r = <<>>
  BY <1>1
<1>3. \A n : MessageFrom(q, n) /\ n \in Nat /\ n > 1 => MessageFrom(r, n - 1)
  <2> SUFFICES ASSUME NEW n \in Nat, n > 1, NEW m \in n..Len(q), IsMessage(q[m])
               PROVE  MessageFrom(r, n - 1)
    BY DEF MessageFrom
  <2>1. m - 1 \in 1..Len(r) /\ m - 1 \in (n - 1)..Len(r) /\ (m - 1) + 1 = m
    BY <1>1
  <2>2. r[m - 1] = q[m]
    BY <1>1, <2>1
  <2> QED BY <2>1, <2>2 DEF MessageFrom
<1>4. ~t.archived
  BY DEF Ordered
<1>5. ASSUME NEW n \in 1..Len(r)
      PROVE  /\ IsAsked(r[n])
             /\ r[n].type \in Archives => n = Len(r) /\ t.archiving
             /\ Elsewhere(r[n], t) => MessageFrom(r, n + 1)
  <2>1. n + 1 \in 1..Len(q) /\ n + 1 > 1 /\ r[n] = q[n + 1] /\ n \in Nat /\ (n + 1) + 1 - 1 = n + 1
    BY <1>1
  <2>2. Elsewhere(q[n + 1], t) => MessageFrom(r, n + 1)
    BY <1>3, <2>1 DEF Ordered
  <2> QED BY <1>1, <2>1, <2>2 DEF Ordered
<1>6. Ordered(r, t)
  BY <1>4, <1>5 DEF Ordered
<1>7. r # <<>> => IsAsked(r[1])
  BY <1>1, <1>2, <1>5
<1>8. q[1].type \in Archives => r = <<>>
  BY <1>1, <1>2 DEF Ordered
<1> QED BY <1>3, <1>6, <1>7, <1>8 DEF r

LEMMA OrderedNewHead ==
    ASSUME NEW q \in Seq(Intent), q # <<>>, NEW t, Ordered(q, t), NEW x \in Intent,
           x.type \in Archives => q[1].type \in Archives,
           Elsewhere(x, t) => MessageFrom(q, 2)
    PROVE  LET r == <<x>> \o Tail(q) IN
           /\ Ordered(r, t) /\ r[1] = x /\ r # <<>> /\ Len(r) = Len(q)
           /\ MessageFrom(q, 2) => MessageFrom(r, 2)
<1> DEFINE r == <<x>> \o Tail(q)
<1>1. /\ Len(q) \in Nat \ {0} /\ r \in Seq(Intent) /\ Len(r) = Len(q) /\ r # <<>>
      /\ r[1] = x /\ \A n \in 2..Len(r) : r[n] = q[n]
  BY Nonempty, NewHead
<1> HIDE DEF r
<1>2. \A n \in Nat : n > 1 /\ MessageFrom(q, n) => MessageFrom(r, n)
  BY <1>1 DEF MessageFrom
<1>3. ~t.archived
  BY DEF Ordered
<1>4. ASSUME NEW n \in 1..Len(r)
      PROVE  /\ n > 1 => IsAsked(r[n])
             /\ r[n].type \in Archives => n = Len(r) /\ t.archiving
             /\ Elsewhere(r[n], t) => MessageFrom(r, n + 1)
  <2>1. CASE n = 1
    <3>1. 1 \in 1..Len(q)
      BY <1>1
    <3> QED BY <1>1, <1>2, <2>1, <3>1 DEF Ordered
  <2>2. CASE n > 1
    <3>1. n \in 1..Len(q) /\ r[n] = q[n] /\ n + 1 \in Nat /\ n + 1 > 1
      BY <1>1, <2>2
    <3> QED BY <1>1, <1>2, <2>2, <3>1 DEF Ordered
  <2> QED BY <2>1, <2>2
<1>5. Ordered(r, t)
  BY <1>3, <1>4, <1>1 DEF Ordered
<1> QED BY <1>1, <1>2, <1>5 DEF r

LEMMA OrderedNewLast ==
    ASSUME NEW q \in Seq(Intent), NEW t, Ordered(q, t), ~t.archived, ~t.archiving,
           NEW x \in Intent, IsAsked(x),
           NEW u, ~u.archived, x.type \in Archives => u.archiving,
           u.instance # t.instance => IsMessage(x),
           ~Elsewhere(x, u)
    PROVE  LET r == q \o <<x>> IN
           /\ Ordered(r, u) /\ r # <<>> /\ r[Len(r)] = x /\ Len(r) = Len(q) + 1
           /\ \A n \in 1..Len(q) : r[n] = q[n]
           /\ MessageFrom(q, 2) => MessageFrom(r, 2)
           /\ q # <<>> /\ IsMessage(x) => MessageFrom(r, 2)
<1> DEFINE r == q \o <<x>>
<1>1. /\ Len(q) \in Nat /\ r \in Seq(Intent) /\ Len(r) = Len(q) + 1 /\ r # <<>>
      /\ r[Len(q) + 1] = x /\ \A n \in 1..Len(q) : r[n] = q[n]
  BY NewLast
<1>0. q # <<>> => Len(q) > 0
  BY Nonempty
<1> HIDE DEF r
<1>2. ASSUME NEW n \in Nat, n > 0, MessageFrom(q, n)
      PROVE  MessageFrom(r, n)
  BY <1>1, <1>2 DEF MessageFrom
<1>3. ASSUME NEW n \in 1..(Len(q) + 1), IsMessage(x)
      PROVE  MessageFrom(r, n)
  BY <1>1, <1>3 DEF MessageFrom
<1>4. ASSUME NEW n \in 1..Len(r)
      PROVE  /\ n > 1 => IsAsked(r[n])
             /\ r[n].type \in Archives => n = Len(r) /\ u.archiving
             /\ Elsewhere(r[n], u) => MessageFrom(r, n + 1)
  <2>1. CASE n = Len(q) + 1
    BY <1>1, <2>1
  <2>2. CASE n \in 1..Len(q)
    <3>1. r[n] = q[n] /\ n + 1 \in Nat /\ n + 1 > 0 /\ n + 1 \in 1..(Len(q) + 1)
      BY <1>1, <2>2
    <3>2. Elsewhere(q[n], u) => Elsewhere(q[n], t) \/ IsMessage(x)
      BY DEF Elsewhere
    <3> QED BY <1>2, <1>3, <2>2, <3>1, <3>2 DEF Ordered
  <2> QED BY <1>1, <2>1, <2>2
<1>5. Ordered(r, u)
  BY <1>4 DEF Ordered
<1>6. q # <<>> /\ IsMessage(x) => MessageFrom(r, 2)
  BY <1>0, <1>1, <1>3
<1> QED BY <1>1, <1>2, <1>5, <1>6 DEF r

-----------------------------------------------------------------------------
LEMMA InitIInv == Init => IInv
<1> SUFFICES ASSUME Init PROVE IInv
  OBVIOUS
<1> DEFINE e == [type |-> "ensure", instance |-> None, send |-> FALSE]
<1>0. inbox = <<e>> /\ e \in Intent /\ inbox \in Seq(Intent) /\ Len(inbox) = 1 /\ inbox[1] = e
  BY DEF Init, Intent
<1>1. PICK i \in Instances : thread = NewThread([type |-> "created", instance |-> i, mode |-> "auto"])
  BY DEF Init
<1>2. Sound(thread)
  <2> DEFINE c == [type |-> "created", instance |-> i, mode |-> "auto"]
  <2>1. /\ c \in [type : {"created"}, instance : Instances, mode : ThreadMode \cup {None}]
        /\ c.instance \in Antigravity => c.mode \in AntigravityModes
    BY DEF ThreadMode, RuntimeMode, AntigravityModes
  <2> HIDE DEF c
  <2> QED BY <1>1, <2>1, NewThreadSound DEF c
<1>3. /\ thread.cutoff = 0 /\ ~thread.archiving /\ ~thread.archived /\ ~thread.deleted
      /\ ~thread.inFlight
  BY <1>1 DEF NewThread
<1>4. TypeOK
  <2>1. 1 \in Times
    BY TurnsAssumption
  <2> QED
    BY <1>0, <1>2, <2>1, TurnsAssumption
    DEF TypeOK, Init, Sound, Stage, Word, Loss, NoHand
<1>5. Ordered(inbox, thread)
  BY <1>0, <1>3 DEF Ordered, Elsewhere, Archives
<1>6. HeadFits
  BY <1>0 DEF HeadFits, Init
<1> QED
  BY <1>2, <1>3, <1>4, <1>5, <1>6
  DEF Init, IInv, ClockAhead, InHand, NoTurnWithoutSession, OneSession, ArchivedHasNoProcess,
      HasSession, NeverStuck

-----------------------------------------------------------------------------
(***************************************************************************)
(* A reaction changes the inbox and the processes, and nothing else until  *)
(* its last command.                                                       *)
(***************************************************************************)

RestKept == UNCHANGED <<thread, out, hand, clock, commands, lost>>

\* The processes have their types and at most one is the thread's.
ProcessesFit ==
    /\ bound \in Instances \cup {None}
    /\ session \in [Instances -> Stage]
    /\ from \in [Instances -> Instances \cup {None}]
    /\ turns \in [Instances -> Nat]
    /\ NoTurnWithoutSession /\ OneSession

\* The head has done its part.
LEMMA DropKeeps ==
    ASSUME IInv, RestKept, inbox # <<>>, inbox' = Tail(inbox), ProcessesFit',
           inbox[1].type # "archive",
           turns'[thread.instance] > 0 \/ MessageFrom(inbox, 2)
              \/ (~Settler(inbox[1]) /\ turns' = turns)
    PROVE  IInv'
<1> USE DEF RestKept
<1>1. /\ inbox \in Seq(Intent) /\ Ordered(inbox, thread) /\ thread' = thread
      /\ inbox[1] \in Intent /\ Len(inbox) \in Nat \ {0}
      /\ inbox' \in Seq(Intent) /\ Len(inbox') = Len(inbox) - 1
      /\ \A n \in 1..Len(inbox') : inbox'[n] = inbox[n + 1]
  BY Nonempty DEF IInv, TypeOK
<1>2. /\ Ordered(inbox', thread')
      /\ inbox' # <<>> => IsAsked(inbox'[1])
      /\ MessageFrom(inbox, 2) => MessageFrom(inbox', 1)
  BY <1>1, OrderedTail
<1>3. TypeOK'
  BY <1>1 DEF IInv, TypeOK, ProcessesFit
<1>4. HeadFits'
  BY <1>2 DEF HeadFits, IsAsked, IsMessage
<1>5. ~thread.archived
  BY <1>1 DEF Ordered
<1>6. NeverStuck'
  <2>1. CASE turns'[thread.instance] > 0
    BY <2>1 DEF NeverStuck, AtWork
  <2>2. CASE MessageFrom(inbox, 2)
    <3>1. PICK m \in 1..Len(inbox') : IsMessage(inbox'[m])
      BY <1>2, <2>2 DEF MessageFrom
    <3> QED BY <3>1 DEF NeverStuck, ToReact, Settler, IsMessage
  <2>3. CASE ~Settler(inbox[1]) /\ turns' = turns
    <3>1. ASSUME ToReact PROVE ToReact'
      <4>1. PICK m \in 1..Len(inbox) : Settler(inbox[m])
        BY <3>1 DEF ToReact
      <4>2. m - 1 \in 1..Len(inbox') /\ (m - 1) + 1 = m
        BY <1>1, <2>3, <4>1
      <4>3. inbox'[m - 1] = inbox[m]
        BY <1>1, <4>2
      <4> QED BY <4>1, <4>2, <4>3 DEF ToReact
    <3> QED BY <2>3, <3>1 DEF IInv, NeverStuck, AtWork, ToLook, ToDeliver
  <2> QED BY <2>1, <2>2, <2>3
<1>7. ArchivedHasNoProcess'
  BY <1>5 DEF ArchivedHasNoProcess
<1>8. ClockAhead' /\ InHand' /\ Sound(thread)' /\ ~thread'.deleted
  BY DEF IInv, ClockAhead, InHand
<1> QED
  BY <1>2, <1>3, <1>4, <1>6, <1>7, <1>8 DEF IInv, ProcessesFit

\* The head has given way to the rest of its reaction.
LEMMA ContinueKeeps ==
    ASSUME IInv, RestKept, inbox # <<>>, NEW x \in Intent, inbox' = <<x>> \o Tail(inbox),
           ProcessesFit', x.type # "ensure",
           x.type \in Archives => inbox[1].type \in Archives,
           Elsewhere(x, thread) => MessageFrom(inbox, 2),
           x.type \in {"begin", "archiveComplete"} => NoSession',
           x.type = "send" => /\ bound' \in Instances
                              /\ bound' = thread.instance \/ MessageFrom(inbox, 2),
           Settler(x) \/ (~Settler(inbox[1]) /\ turns' = turns)
    PROVE  IInv'
<1> USE DEF RestKept
<1>1. /\ inbox \in Seq(Intent) /\ Ordered(inbox, thread) /\ thread' = thread
      /\ inbox[1] \in Intent /\ Len(inbox) \in Nat \ {0}
      /\ inbox' \in Seq(Intent) /\ Len(inbox') = Len(inbox)
      /\ inbox'[1] = x /\ \A n \in 2..Len(inbox') : inbox'[n] = inbox[n]
  BY Nonempty, NewHead DEF IInv, TypeOK
<1>2. /\ Ordered(inbox', thread')
      /\ MessageFrom(inbox, 2) => MessageFrom(inbox', 2)
  BY <1>1, OrderedNewHead
<1>3. TypeOK'
  BY <1>1 DEF IInv, TypeOK, ProcessesFit
<1>4. HeadFits'
  BY <1>1, <1>2 DEF HeadFits, NoSession
<1>5. ~thread.archived
  BY <1>1 DEF Ordered
<1>6. NeverStuck'
  <2>1. CASE Settler(x)
    BY <1>1, <2>1 DEF NeverStuck, ToReact
  <2>2. CASE ~Settler(inbox[1]) /\ turns' = turns
    <3>1. ASSUME ToReact PROVE ToReact'
      <4>1. PICK m \in 1..Len(inbox) : Settler(inbox[m])
        BY <3>1 DEF ToReact
      <4>2. m \in 2..Len(inbox') /\ m \in 1..Len(inbox')
        BY <1>1, <2>2, <4>1
      <4>3. inbox'[m] = inbox[m]
        BY <1>1, <4>2
      <4> QED BY <4>1, <4>2, <4>3 DEF ToReact
    <3> QED BY <2>2, <3>1 DEF IInv, NeverStuck, AtWork, ToLook, ToDeliver
  <2> QED BY <2>1, <2>2
<1>7. ArchivedHasNoProcess'
  BY <1>5 DEF ArchivedHasNoProcess
<1>8. ClockAhead' /\ InHand' /\ Sound(thread)' /\ ~thread'.deleted
  BY DEF IInv, ClockAhead, InHand
<1> QED
  BY <1>2, <1>3, <1>4, <1>6, <1>7, <1>8 DEF IInv, ProcessesFit

\* Reporting an error always settles the thread.
LEMMA FailKeeps ==
    ASSUME IInv, RestKept, inbox # <<>>, Fail, ProcessesFit'
    PROVE  IInv'
<1> DEFINE x == [type |-> "settle", change |-> Settling("idle", None)]
<1>1. /\ x \in Intent /\ x.type = "settle" /\ inbox' = <<x>> \o Tail(inbox)
      /\ ~Elsewhere(x, thread) /\ Settler(x) /\ x.type \notin Archives
  BY DEF Intent, Fail, Continue, Elsewhere, Settler, Archives
<1> HIDE DEF x
<1> QED BY <1>1, ContinueKeeps

LEMMA ProcessesNow == ASSUME IInv PROVE ProcessesFit
BY DEF IInv, TypeOK, ProcessesFit

\* A session stopped is gone, and its turns with it.
LEMMA StopSessionFits ==
    ASSUME IInv, bound' = bound, StopSession(bound)
    PROVE  ProcessesFit' /\ NoSession'
<1> USE DEF IInv, TypeOK
<1>1. CASE bound # None /\ HasSession(bound)
  <2>1. /\ bound \in Instances /\ session' = [session EXCEPT ![bound] = "none"]
        /\ from' = [from EXCEPT ![bound] = None] /\ turns' = [turns EXCEPT ![bound] = 0]
    BY <1>1 DEF StopSession, Ended
  <2>2. ASSUME NEW i \in Instances PROVE session'[i] = "none" /\ turns'[i] = 0
    BY <2>1 DEF OneSession, HasSession, NoTurnWithoutSession
  <2> QED BY <2>1, <2>2 DEF ProcessesFit, NoSession, HasSession, NoTurnWithoutSession, OneSession, Stage
<1>2. CASE ~(bound # None /\ HasSession(bound))
  <2>1. UNCHANGED <<session, from, turns>>
    BY <1>2 DEF StopSession, processes
  <2>2. \A i \in Instances : ~HasSession(i)
    BY <1>2, RulesAssumption DEF OneSession
  <2> QED BY <2>1, <2>2 DEF ProcessesFit, NoSession, HasSession, NoTurnWithoutSession, OneSession
<1> QED BY <1>1, <1>2

LEMMA StopSessionFailsFits ==
    ASSUME IInv, bound' = bound, StopSessionFails(bound)
    PROVE  ProcessesFit' /\ turns' = turns
<1> USE DEF IInv, TypeOK
<1>1. /\ bound \in Instances /\ HasSession(bound)
      /\ from' = from /\ turns' = turns
  BY DEF StopSessionFails
<1>2. PICK s \in {session[bound], "condemned"} : session' = [session EXCEPT ![bound] = s]
  BY DEF StopSessionFails
<1>3. s \in Stage /\ s # "none"
  BY <1>1 DEF HasSession, Stage
<1> QED BY <1>1, <1>2, <1>3 DEF ProcessesFit, HasSession, NoTurnWithoutSession, OneSession

\* What First says of the inbox.
LEMMA FirstIs ==
    ASSUME IInv, NEW type, First(type)
    PROVE  /\ inbox # <<>> /\ inbox \in Seq(Intent) /\ Head(inbox) = inbox[1]
           /\ inbox[1] \in Intent /\ inbox[1].type = type /\ 1 \in 1..Len(inbox)
BY Nonempty DEF IInv, TypeOK, First

\* A message or a start names the thread's agent, or another message follows it.
LEMMA NamesIt ==
    ASSUME IInv, NEW type \in {"ensure", "begin"}, First(type)
    PROVE  /\ inbox[1].instance \in Instances \cup {None} /\ inbox[1].send \in BOOLEAN
           /\ type = "begin" => inbox[1].instance \in Instances
           /\ Wanted(inbox[1]) \in Instances
           /\ Wanted(inbox[1]) = thread.instance \/ MessageFrom(inbox, 2)
<1>1. /\ inbox[1] \in Intent /\ inbox[1].type = type /\ 1 \in 1..Len(inbox)
      /\ thread.instance \in Instances /\ Ordered(inbox, thread)
  BY FirstIs DEF IInv, Sound, Thread
<1>2. /\ inbox[1].instance \in Instances \cup {None} /\ inbox[1].send \in BOOLEAN
      /\ type = "begin" => inbox[1].instance \in Instances
  BY <1>1 DEF Intent
<1>3. Elsewhere(inbox[1], thread) => MessageFrom(inbox, 2)
  BY <1>1 DEF Ordered
<1> QED BY <1>1, <1>2, <1>3 DEF Elsewhere, Wanted

LEMMA ProceedKeeps ==
    ASSUME IInv, RestKept, ProcessesFit', NEW type \in {"ensure", "begin"}, First(type),
           Proceed(inbox[1]), bound' \in Instances,
           bound' = thread.instance \/ MessageFrom(inbox, 2),
           inbox[1].send \/ turns' = turns
    PROVE  IInv'
<1> DEFINE x == [type |-> "send"]
<1>1. /\ inbox # <<>> /\ inbox \in Seq(Intent) /\ inbox[1] \in Intent /\ inbox[1].type = type
      /\ Tail(inbox) \in Seq(Intent) /\ inbox[1].send \in BOOLEAN
  BY FirstIs, Nonempty, NamesIt
<1>2. CASE inbox[1].send
  <2>1. /\ x \in Intent /\ inbox' = <<x>> \o Tail(inbox) /\ x.type = "send"
        /\ ~Elsewhere(x, thread) /\ Settler(x) /\ x.type \notin Archives
    BY <1>2 DEF Intent, Proceed, Elsewhere, Settler, Archives
  <2> HIDE DEF x
  <2> QED BY <1>1, <2>1, ContinueKeeps
<1>3. CASE ~inbox[1].send
  <2>1. inbox' = Tail(inbox)
    BY <1>1, <1>3, NothingBefore DEF Proceed
  <2>2. ~Settler(inbox[1]) /\ inbox[1].type # "archive" /\ turns' = turns
    BY <1>1, <1>3 DEF Settler
  <2> QED BY <1>1, <2>1, <2>2, DropKeeps
<1> QED BY <1>2, <1>3

LEMMA StartWithKeeps ==
    ASSUME IInv, RestKept, ProcessesFit', NoSession', First("ensure"),
           NEW cursor \in Instances \cup {None}, StartWith(inbox[1], cursor),
           inbox[1].send \/ turns' = turns
    PROVE  IInv'
<1> DEFINE x == [type |-> "begin", instance |-> Wanted(inbox[1]), send |-> inbox[1].send,
                 cursor |-> cursor]
<1>1. /\ inbox # <<>> /\ inbox[1].type = "ensure" /\ inbox[1].send \in BOOLEAN
      /\ Wanted(inbox[1]) \in Instances
      /\ Wanted(inbox[1]) = thread.instance \/ MessageFrom(inbox, 2)
  BY FirstIs, NamesIt
<1>2. x \in Intent
  BY <1>1 DEF Intent
<1>3. /\ inbox' = <<x>> \o Tail(inbox) /\ x.type = "begin" /\ x.type \notin Archives
      /\ Elsewhere(x, thread) => MessageFrom(inbox, 2)
      /\ Settler(x) \/ (~Settler(inbox[1]) /\ turns' = turns)
  BY <1>1 DEF StartWith, Continue, Elsewhere, Settler, Archives
<1> HIDE DEF x
<1> QED BY <1>1, <1>2, <1>3, ContinueKeeps

LEMMA EnsureKeeps == ASSUME IInv, Ensure PROVE IInv'
<1> DEFINE id == Wanted(inbox[1])
           running == bound = id /\ HasSession(id)
<1>0. /\ First("ensure") /\ Head(inbox) = inbox[1] /\ inbox # <<>> /\ inbox[1].type = "ensure"
      /\ inbox[1].send \in BOOLEAN /\ id \in Instances
      /\ id = thread.instance \/ MessageFrom(inbox, 2)
      /\ RestKept /\ bound' = bound
  BY FirstIs, NamesIt DEF Ensure, RestKept
<1>1. bound \in Instances \cup {None} /\ thread.cursor \in Instances \cup {None}
  BY DEF IInv, TypeOK, Thread
<1>2. ~inbox[1].send => bound = None
  BY <1>0 DEF IInv, HeadFits
<1>3. CASE running /\ Proceed(inbox[1]) /\ UNCHANGED processes
  <2>1. ProcessesFit' /\ turns' = turns
    BY <1>0, <1>3, ProcessesNow
    DEF processes, ProcessesFit, NoTurnWithoutSession, OneSession, HasSession
  <2> QED BY <1>0, <1>3, <2>1, ProceedKeeps
<1>4. ASSUME running, StopSession(id), NEW cursor \in {None, thread.cursor},
             StartWith(inbox[1], cursor)
      PROVE  IInv'
  <2>1. ProcessesFit' /\ NoSession'
    BY <1>0, <1>4, StopSessionFits
  <2>2. inbox[1].send
    BY <1>0, <1>2, <1>4, RulesAssumption
  <2> QED BY <1>0, <1>1, <1>4, <2>1, <2>2, StartWithKeeps
<1>5. ASSUME ~running, IF bound # id THEN StopSession(bound) ELSE UNCHANGED processes,
             NEW cursor \in {None, thread.cursor}, StartWith(inbox[1], cursor)
      PROVE  IInv'
  <2>1. StopSession(bound)
    BY <1>5 DEF StopSession
  <2>2. ProcessesFit' /\ NoSession'
    BY <1>0, <2>1, StopSessionFits
  <2>3. inbox[1].send \/ turns' = turns
    BY <1>2, <2>1 DEF StopSession, processes
  <2> QED BY <1>0, <1>1, <1>5, <2>2, <2>3, StartWithKeeps
<1>6. CASE StopSessionFails(bound) /\ Fail
  BY <1>0, <1>6, StopSessionFailsFits, FailKeeps
<1> HIDE DEF id, running
<1>7. \/ running /\ Proceed(inbox[1]) /\ UNCHANGED processes
      \/ running /\ StopSession(id) /\ \E cursor \in {None, thread.cursor} : StartWith(inbox[1], cursor)
      \/ /\ ~running /\ IF bound # id THEN StopSession(bound) ELSE UNCHANGED processes
         /\ \E cursor \in {None, thread.cursor} : StartWith(inbox[1], cursor)
      \/ StopSessionFails(bound) /\ Fail
  BY <1>0 DEF Ensure, id, running
<1> QED BY <1>3, <1>4, <1>5, <1>6, <1>7

LEMMA BeginKeeps == ASSUME IInv, Begin PROVE IInv'
<1> DEFINE i == inbox[1].instance
<1>0. /\ First("begin") /\ Head(inbox) = inbox[1] /\ inbox # <<>> /\ inbox[1].type = "begin"
      /\ inbox[1] \in Intent /\ i \in Instances /\ Wanted(inbox[1]) \in Instances
      /\ Wanted(inbox[1]) = thread.instance \/ MessageFrom(inbox, 2)
      /\ RestKept /\ bound' = i /\ Proceed(inbox[1])
  BY FirstIs, NamesIt DEF Begin, RestKept
<1>1. Wanted(inbox[1]) = i
  BY <1>0, RulesAssumption DEF Wanted
<1>2. inbox[1].cursor \in Instances \cup {None}
  BY <1>0 DEF Intent
<1>3. NoSession
  BY <1>0 DEF IInv, HeadFits
<1>4. /\ session' = [session EXCEPT ![i] = "fresh"]
      /\ from' = [from EXCEPT ![i] = inbox[1].cursor]
      /\ turns' = [turns EXCEPT ![i] = 0]
  BY <1>0 DEF Begin
<1> HIDE DEF i
<1>5. turns' = turns
  BY <1>0, <1>3, <1>4 DEF IInv, TypeOK, NoTurnWithoutSession, NoSession
<1>6. ProcessesFit'
  BY <1>0, <1>2, <1>3, <1>4, <1>5
  DEF IInv, TypeOK, ProcessesFit, NoSession, HasSession, NoTurnWithoutSession, OneSession, Stage
<1> QED BY <1>0, <1>1, <1>5, <1>6, ProceedKeeps

LEMMA BeginFailsKeeps == ASSUME IInv, BeginFails PROVE IInv'
<1>0. /\ inbox # <<>> /\ Head(inbox) = inbox[1] /\ inbox[1].type = "begin" /\ Fail /\ RestKept
      /\ inbox[1].instance \in Instances /\ bound' \in {bound, inbox[1].instance}
      /\ UNCHANGED <<session, from, turns>>
  BY FirstIs, NamesIt DEF BeginFails, RestKept, processes
<1>1. NoSession
  BY <1>0 DEF IInv, HeadFits
<1>2. ProcessesFit'
  BY <1>0, <1>1
  DEF IInv, TypeOK, ProcessesFit, NoSession, HasSession, NoTurnWithoutSession, OneSession
<1> QED BY <1>0, <1>2, FailKeeps

LEMMA SendKeeps == ASSUME IInv, Send PROVE IInv'
<1>0. /\ inbox # <<>> /\ inbox[1].type = "send" /\ RestKept
      /\ bound' = bound /\ session' = session /\ from' = from
  BY FirstIs DEF Send, RestKept
<1>1. bound \in Instances /\ (bound = thread.instance \/ MessageFrom(inbox, 2))
  BY <1>0 DEF IInv, HeadFits
<1>2. CASE HasSession(bound) /\ turns' = [turns EXCEPT ![bound] = @ + 1] /\ inbox' = Tail(inbox)
  <2>1. ProcessesFit' /\ turns'[bound] > 0
    BY <1>0, <1>1, <1>2
    DEF IInv, TypeOK, ProcessesFit, HasSession, NoTurnWithoutSession, OneSession
  <2> QED BY <1>0, <1>1, <1>2, <2>1, DropKeeps
<1>3. CASE Fail /\ turns' = turns
  <2>1. ProcessesFit'
    BY <1>0, <1>3, ProcessesNow DEF ProcessesFit, HasSession, NoTurnWithoutSession, OneSession
  <2> QED BY <1>0, <1>3, <2>1, FailKeeps
<1> QED BY <1>2, <1>3 DEF Send

LEMMA ReactInterruptKeeps == ASSUME IInv, ReactInterrupt PROVE IInv'
<1>1. /\ inbox # <<>> /\ RestKept /\ Fail /\ bound' = bound
      /\ UNCHANGED <<session, from, turns>>
  BY FirstIs DEF ReactInterrupt, RestKept, processes
<1>2. ProcessesFit'
  BY <1>1, ProcessesNow DEF ProcessesFit, HasSession, NoTurnWithoutSession, OneSession
<1> QED BY <1>1, <1>2, FailKeeps

LEMMA ReactStopKeeps == ASSUME IInv, ReactStop PROVE IInv'
<1> DEFINE x == [type |-> "settle", change |-> Stopping]
<1>0. /\ inbox # <<>> /\ inbox[1].type = "stop" /\ RestKept /\ bound' = bound
  BY FirstIs DEF ReactStop, RestKept
<1>1. CASE StopSession(bound) /\ Continue(x)
  <2>1. /\ x \in Intent /\ x.type = "settle" /\ ~Elsewhere(x, thread) /\ Settler(x)
        /\ x.type \notin Archives
    BY DEF Intent, Elsewhere, Settler, Archives
  <2> HIDE DEF x
  <2>2. ProcessesFit'
    BY <1>0, <1>1, StopSessionFits
  <2> QED BY <1>0, <1>1, <2>1, <2>2, ContinueKeeps DEF Continue
<1>2. CASE UNCHANGED processes /\ Fail
  <2>1. ProcessesFit'
    BY <1>0, <1>2, ProcessesNow
    DEF processes, ProcessesFit, HasSession, NoTurnWithoutSession, OneSession
  <2> QED BY <1>0, <1>2, <2>1, FailKeeps
<1>3. CASE StopSessionFails(bound) /\ Fail
  BY <1>0, <1>3, StopSessionFailsFits, FailKeeps
<1> QED BY <1>1, <1>2, <1>3 DEF ReactStop

LEMMA ReactArchiveKeeps == ASSUME IInv, ReactArchive PROVE IInv'
<1>0. /\ inbox # <<>> /\ inbox[1].type = "archive" /\ RestKept /\ bound' = bound
      /\ ~Settler(inbox[1])
  BY FirstIs DEF ReactArchive, RestKept, Settler
<1>1. CASE StopSession(bound) /\ Continue([type |-> "archiveComplete"])
  <2> DEFINE x == [type |-> "archiveComplete"]
  <2>1. x \in Intent /\ x.type = "archiveComplete" /\ ~Elsewhere(x, thread) /\ Settler(x)
    BY DEF Intent, Elsewhere, Settler
  <2>2. inbox' = <<x>> \o Tail(inbox)
    BY <1>1 DEF Continue
  <2> HIDE DEF x
  <2>3. ProcessesFit' /\ NoSession'
    BY <1>0, <1>1, StopSessionFits
  <2> QED BY <1>0, <2>1, <2>2, <2>3, ContinueKeeps DEF Archives
<1>2. CASE StopSessionFails(bound) /\ Continue([type |-> "archiveFailed"])
  <2> DEFINE x == [type |-> "archiveFailed"]
  <2>1. x \in Intent /\ x.type = "archiveFailed" /\ ~Elsewhere(x, thread)
    BY DEF Intent, Elsewhere
  <2>2. inbox' = <<x>> \o Tail(inbox)
    BY <1>2 DEF Continue
  <2> HIDE DEF x
  <2>3. ProcessesFit' /\ turns' = turns
    BY <1>0, <1>2, StopSessionFailsFits
  <2> QED BY <1>0, <2>1, <2>2, <2>3, ContinueKeeps DEF Archives
<1> QED BY <1>1, <1>2 DEF ReactArchive

-----------------------------------------------------------------------------
(***************************************************************************)
(* The last command of a reaction.                                         *)
(***************************************************************************)

\* The inbox without its head fits a thread with the same agent.
LEMMA Dropped ==
    ASSUME IInv, inbox # <<>>, inbox' = Tail(inbox),
           thread'.instance = thread.instance, ~thread'.archived,
           thread'.archiving = thread.archiving \/ inbox[1].type \in Archives,
           UNCHANGED <<bound, session>>
    PROVE  /\ inbox' \in Seq(Intent) /\ Ordered(inbox', thread') /\ HeadFits'
           /\ inbox[1].type \in Archives => inbox' = <<>>
<1>1. inbox \in Seq(Intent) /\ Ordered(inbox, thread)
  BY DEF IInv, TypeOK
<1>2. /\ inbox' \in Seq(Intent) /\ Ordered(inbox', thread)
      /\ inbox' # <<>> => IsAsked(inbox'[1])
      /\ inbox[1].type \in Archives => inbox' = <<>>
  BY <1>1, OrderedTail, Nonempty
<1>3. HeadFits'
  BY <1>2 DEF HeadFits, IsAsked, IsMessage
<1>4. CASE inbox' = <<>>
  <2>1. Ordered(<<>>, thread')
    BY DEF Ordered
  <2> QED BY <1>2, <1>3, <1>4, <2>1
<1>5. CASE thread'.archiving = thread.archiving
  BY <1>2, <1>3, <1>5 DEF Ordered, Elsewhere
<1> QED BY <1>2, <1>4, <1>5

LEMMA SettleKeeps == ASSUME IInv, Settle PROVE IInv'
<1> DEFINE change == inbox[1].change
           u == Dispatched(SessionSetting(change, 0))
<1>1. /\ inbox # <<>> /\ inbox[1] \in Intent /\ inbox[1].type = "settle"
      /\ Head(inbox) = inbox[1] /\ inbox' = Tail(inbox) /\ thread' = u
      /\ UNCHANGED <<bound, session, from, turns, out, hand, clock, commands, lost>>
  BY FirstIs DEF Settle, processes
<1>2. change \in SessionChanges /\ change.status \in {"idle", "stopped"}
  <2>1. change \in {Settling("idle", None), Stopping}
    BY <1>1 DEF Intent
  <2>2. Settling("idle", None) \in SessionChanges
    <3>1. "idle" \in {"running", "idle"} /\ None \in Instances \cup {None}
      OBVIOUS
    <3>2. Settling("idle", None) \in
             {Settling(s, i) : s \in {"running", "idle"}, i \in Instances \cup {None}}
      BY <3>1
    <3> QED BY <3>2 DEF SessionChanges
  <2>4. Settling("idle", None).status = "idle"
    BY DEF Settling, NoChange
  <2>3. Stopping \in SessionChanges /\ Stopping.status = "stopped"
    BY DEF SessionChanges, Stopping, NoChange
  <2> HIDE DEF change
  <2> QED BY <2>1, <2>2, <2>3, <2>4
<1> HIDE DEF change
<1>3. ~thread.archived /\ Sound(thread) /\ ~thread.deleted
  BY <1>1 DEF IInv, Ordered
<1>4. ~Fenced(thread, SessionSetting(change, 0))
  BY DEF Fenced, SessionSetting
<1>5. Sound(u) /\ SameLife(thread, u) /\ ~u.inFlight
  BY <1>2, <1>3, <1>4, SetDispatched
<1> HIDE DEF u
<1>6. inbox' \in Seq(Intent) /\ Ordered(inbox', thread') /\ HeadFits'
  BY <1>1, <1>3, <1>5, Dropped DEF SameLife
<1>7. TypeOK'
  BY <1>1, <1>5, <1>6 DEF IInv, TypeOK, Sound
<1>8. ClockAhead' /\ InHand' /\ NoTurnWithoutSession' /\ OneSession' /\ NeverStuck'
      /\ ArchivedHasNoProcess'
  BY <1>1, <1>3, <1>5
  DEF IInv, ClockAhead, InHand, NoTurnWithoutSession, OneSession, HasSession, NeverStuck,
      ArchivedHasNoProcess, SameLife
<1> QED BY <1>1, <1>3, <1>5, <1>6, <1>7, <1>8 DEF IInv, SameLife

LEMMA ArchiveFailedKeeps == ASSUME IInv, ArchiveFailed PROVE IInv'
<1> DEFINE u == Dispatched([type |-> "archiveFailed"])
<1>1. /\ inbox # <<>> /\ inbox \in Seq(Intent) /\ inbox[1].type = "archiveFailed"
      /\ inbox' = Tail(inbox) /\ thread' = u
      /\ UNCHANGED <<bound, session, from, turns, out, hand, clock, commands, lost>>
  BY FirstIs DEF ArchiveFailed, processes
<1>2. ~thread.archived /\ Sound(thread) /\ ~thread.deleted /\ thread.archiving /\ Len(inbox) = 1
  <2>1. 1 \in 1..Len(inbox)
    BY <1>1, Nonempty
  <2> QED BY <1>1, <2>1 DEF IInv, Ordered, Archives
<1>3. Sound(u) /\ u = [thread EXCEPT !.archiving = FALSE]
  BY <1>2, UnarchiveDispatched
<1> HIDE DEF u
<1>4. /\ u.instance = thread.instance /\ ~u.archived /\ u.cutoff = thread.cutoff
      /\ ~u.deleted /\ u.inFlight = thread.inFlight /\ ~u.archiving
  BY <1>2, <1>3 DEF Sound, Thread
<1>5. inbox' \in Seq(Intent) /\ Ordered(inbox', thread') /\ HeadFits'
  BY <1>1, <1>4, Dropped DEF Archives
<1>6. TypeOK'
  BY <1>1, <1>3, <1>5 DEF IInv, TypeOK, Sound
<1>7. ClockAhead'
  BY <1>1, <1>2, <1>4, RulesAssumption DEF IInv, ClockAhead, TypeOK
<1>8. InHand' /\ NoTurnWithoutSession' /\ OneSession' /\ ArchivedHasNoProcess'
  BY <1>1, <1>4
  DEF IInv, InHand, NoTurnWithoutSession, OneSession, HasSession, ArchivedHasNoProcess
<1>9. NeverStuck'
  <2>1. ~ToReact
    BY <1>1, <1>2 DEF ToReact, Settler
  <2> QED BY <1>1, <1>2, <1>4, <2>1 DEF IInv, NeverStuck, AtWork, ToLook, ToDeliver
<1> QED BY <1>1, <1>3, <1>4, <1>5, <1>6, <1>7, <1>8, <1>9 DEF IInv

LEMMA ArchiveCompleteKeeps == ASSUME IInv, ArchiveComplete PROVE IInv'
<1> DEFINE u == Dispatched([type |-> "archiveComplete", cutoff |-> clock])
<1>1. /\ inbox # <<>> /\ inbox \in Seq(Intent) /\ inbox[1].type = "archiveComplete"
      /\ inbox' = Tail(inbox) /\ thread' = u /\ clock' = clock + 1
      /\ UNCHANGED <<bound, session, from, turns, out, hand, commands, lost>>
  BY FirstIs DEF ArchiveComplete, processes
<1>2. /\ ~thread.archived /\ Sound(thread) /\ ~thread.deleted /\ thread.archiving
      /\ Ordered(inbox, thread)
  <2>1. 1 \in 1..Len(inbox)
    BY <1>1, Nonempty
  <2> QED BY <1>1, <2>1 DEF IInv, Ordered, Archives
<1>3. clock \in Times /\ clock \in Nat /\ clock <= commands /\ commands \in 0..MaxCommands
  BY <1>2, RulesAssumption DEF IInv, TypeOK, ClockAhead
<1>4. clock + 1 \in Times
  BY <1>3, TurnsAssumption
<1>5. Sound(u) /\ u.archived /\ ~u.archiving /\ u.cutoff = clock /\ ~u.deleted
  BY <1>2, <1>3, ArchiveDispatched
<1> HIDE DEF u
<1>6. inbox' = <<>> /\ NoSession
  BY <1>1, <1>2, OrderedTail DEF IInv, HeadFits, Archives
<1>7. TypeOK'
  BY <1>1, <1>4, <1>5, <1>6 DEF IInv, TypeOK, Sound
<1>8. Ordered(inbox', thread') /\ HeadFits'
  BY <1>6 DEF Ordered, HeadFits
<1>9. ClockAhead' /\ NeverStuck' /\ ArchivedHasNoProcess'
  BY <1>1, <1>3, <1>5, <1>6
  DEF ClockAhead, NeverStuck, ArchivedHasNoProcess, NoSession, HasSession
<1>10. InHand' /\ NoTurnWithoutSession' /\ OneSession'
  BY <1>1 DEF IInv, InHand, NoTurnWithoutSession, OneSession, HasSession
<1> QED BY <1>1, <1>5, <1>7, <1>8, <1>9, <1>10 DEF IInv

LEMMA ReactKeeps == ASSUME IInv, React PROVE IInv'
BY EnsureKeeps, BeginKeeps, BeginFailsKeeps, SendKeeps, ReactInterruptKeeps, ReactStopKeeps,
   ReactArchiveKeeps, SettleKeeps, ArchiveFailedKeeps, ArchiveCompleteKeeps
DEF React

-----------------------------------------------------------------------------
(***************************************************************************)
(* The operator.                                                           *)
(***************************************************************************)

\* An order puts one thing at the end of the inbox of an open thread.
LEMMA OrderKeeps ==
    ASSUME IInv, commands < MaxCommands, commands' = commands + 1,
           UNCHANGED <<bound, session, from, turns, out, hand, clock>>,
           NEW x \in Intent, IsAsked(x), inbox' = inbox \o <<x>>,
           ~thread.archived, ~thread.archiving,
           Sound(thread'), ~thread'.archived, ~thread'.deleted,
           thread'.cutoff = thread.cutoff,
           x.type \in Archives => thread'.archiving,
           thread'.instance # thread.instance => IsMessage(x),
           ~Elsewhere(x, thread'), lost' \in Loss,
           Settler(x) \/ (thread'.inFlight = thread.inFlight /\ lost' = lost)
    PROVE  IInv'
<1>1. inbox \in Seq(Intent) /\ Ordered(inbox, thread) /\ Len(inbox) \in Nat
  BY DEF IInv, TypeOK
<1>2. /\ Ordered(inbox', thread') /\ inbox' # <<>> /\ Len(inbox') = Len(inbox) + 1
      /\ inbox'[Len(inbox')] = x /\ \A n \in 1..Len(inbox) : inbox'[n] = inbox[n]
      /\ MessageFrom(inbox, 2) => MessageFrom(inbox', 2)
      /\ inbox # <<>> /\ IsMessage(x) => MessageFrom(inbox', 2)
  BY <1>1, OrderedNewLast
<1>3. inbox' \in Seq(Intent)
  BY <1>1, NewLast
<1>4. commands' \in 0..MaxCommands
  BY TurnsAssumption DEF IInv, TypeOK
<1>5. TypeOK'
  BY <1>3, <1>4 DEF IInv, TypeOK, Sound
<1>6. HeadFits'
  <2>1. CASE inbox = <<>>
    <3>1. inbox'[1] = x
      BY <1>2, <2>1
    <3> QED BY <3>1 DEF HeadFits, IsAsked, IsMessage
  <2>2. CASE inbox # <<>>
    <3>1. 1 \in 1..Len(inbox)
      BY <1>1, <2>2, Nonempty
    <3>2. inbox'[1] = inbox[1]
      BY <1>2, <3>1
    <3> QED BY <1>2, <2>2, <3>2 DEF IInv, HeadFits, NoSession, HasSession
  <2> QED BY <2>1, <2>2
<1>7. ClockAhead'
  BY RulesAssumption DEF IInv, TypeOK, ClockAhead
<1>8. InHand' /\ NoTurnWithoutSession' /\ OneSession' /\ ArchivedHasNoProcess'
  BY DEF IInv, InHand, NoTurnWithoutSession, OneSession, HasSession, ArchivedHasNoProcess
<1>9. NeverStuck'
  <2>1. CASE Settler(x)
    <3>1. Len(inbox') \in 1..Len(inbox')
      BY <1>1, <1>2
    <3> QED BY <1>2, <2>1, <3>1 DEF NeverStuck, ToReact
  <2>2. CASE ~Settler(x)
    <3>1. thread'.instance = thread.instance
      BY <2>2 DEF Settler, IsMessage
    <3>2. ToReact => ToReact'
      BY <1>1, <1>2 DEF ToReact
    <3> QED BY <2>2, <3>1, <3>2 DEF IInv, NeverStuck, AtWork, ToLook, ToDeliver
  <2> QED BY <2>1, <2>2
<1> QED BY <1>2, <1>5, <1>6, <1>7, <1>8, <1>9 DEF IInv

\* A turn started on an open thread moves it to the agent named, and nowhere else.
LEMMA TurnStartLife ==
    ASSUME NEW t, Sound(t), ~t.deleted, NEW i \in Instances \cup {None},
           Accepts(t, [type |-> "turnStart", instance |-> i])
    PROVE  LET c == [type |-> "turnStart", instance |-> i]
               u == Apply(t, Decide(t, c))
           IN  /\ ~t.archived /\ ~t.archiving
               /\ Sound(u) /\ ~u.archived /\ ~u.deleted /\ u.cutoff = t.cutoff
               /\ u.instance = IF i = None THEN t.instance ELSE i
<1> DEFINE c == [type |-> "turnStart", instance |-> i]
           e == [type |-> "turnStartRequested", instance |-> i]
           m == [type |-> "runtimeModeSet", mode |-> "auto"]
           w == [t EXCEPT !.mode = "auto"]
<1>0. t # NoThread /\ t \in Thread
  BY RulesAssumption DEF Sound
<1>1. c \in Command /\ ~Fenced(t, c)
  BY DEF Command, Fenced
<1>2. ~t.archived /\ ~t.archiving
  BY <1>0, <1>1 DEF Accepts, WorkCommands, Closed
<1>3. Sound(Apply(t, Decide(t, c)))
  BY <1>1, HandleSound
<1>4. /\ w \in Thread /\ w # NoThread /\ w.archived = t.archived /\ w.instance = t.instance
      /\ w.cutoff = t.cutoff /\ w.deleted = t.deleted
  BY <1>0, RulesAssumption DEF Thread, ThreadMode, RuntimeMode
<1>5. ASSUME NEW v \in Thread, v.instance = t.instance, v.cutoff = t.cutoff,
             ~v.archived, ~v.deleted
      PROVE  LET u == TurnStarted(v, e) IN
             /\ ~u.archived /\ ~u.deleted /\ u.cutoff = t.cutoff
             /\ u.instance = IF i = None THEN t.instance ELSE i
  BY <1>5 DEF TurnStarted, Thread
<1>6. Apply(t, Decide(t, c)) \in {TurnStarted(t, e), TurnStarted(w, e)}
  <2>1. CASE Rehomed(t, c)
    <3>1. Decide(t, c) = <<m, e>>
      BY <1>1, <2>1 DEF Decide
    <3>2. ApplyOne(t, m) = w
      BY <1>0, <1>2 DEF ApplyOne
    <3> HIDE DEF w
    <3>3. ApplyOne(w, e) = TurnStarted(w, e)
      BY <1>2, <1>4 DEF ApplyOne
    <3> QED BY <3>1, <3>2, <3>3 DEF Apply
  <2>2. CASE ~Rehomed(t, c)
    <3>1. Decide(t, c) = <<e>>
      BY <1>1, <2>2 DEF Decide
    <3>2. ApplyOne(t, e) = TurnStarted(t, e)
      BY <1>0, <1>2 DEF ApplyOne
    <3> QED BY <3>1, <3>2 DEF Apply
  <2> QED BY <2>1, <2>2
<1> HIDE DEF w, e, c
<1> QED BY <1>0, <1>2, <1>3, <1>4, <1>5, <1>6 DEF c

LEMMA TurnStartKeeps ==
    ASSUME IInv, NEW i \in Instances \cup {None}, TurnStart(i) PROVE IInv'
<1> DEFINE c == [type |-> "turnStart", instance |-> i]
           x == [type |-> "ensure", instance |-> i, send |-> TRUE]
           u == Apply(thread, Decide(thread, c))
<1>1. /\ commands < MaxCommands /\ commands' = commands + 1 /\ Accepts(thread, c)
      /\ thread' = u /\ inbox' = inbox \o <<x>> /\ lost' = "no"
      /\ UNCHANGED <<bound, session, from, turns, out, hand, clock>>
  BY DEF TurnStart, Order, processes
<1>2. /\ ~thread.archived /\ ~thread.archiving
      /\ Sound(u) /\ ~u.archived /\ ~u.deleted /\ u.cutoff = thread.cutoff
      /\ u.instance = IF i = None THEN thread.instance ELSE i
  BY <1>1, TurnStartLife DEF IInv
<1> HIDE DEF u
<1>3. /\ x \in Intent /\ IsMessage(x) /\ IsAsked(x) /\ x.type \notin Archives
      /\ Settler(x) /\ ~Elsewhere(x, thread')
  BY <1>1, <1>2 DEF Intent, IsMessage, IsAsked, Archives, Settler, Elsewhere
<1> HIDE DEF x
<1>4. lost' \in Loss
  BY <1>1 DEF Loss
<1> QED BY <1>1, <1>2, <1>3, <1>4, OrderKeeps

LEMMA AskKeeps ==
    ASSUME IInv, lost' = lost,
           \/ Order([type |-> "turnInterrupt"], <<[type |-> "interrupt"]>>)
           \/ Order([type |-> "sessionStop"], <<[type |-> "stop"]>>)
    PROVE  IInv'
<1>1. ASSUME NEW c, NEW x, Order(c, <<x>>),
             \/ c = [type |-> "turnInterrupt"] /\ x = [type |-> "interrupt"]
             \/ c = [type |-> "sessionStop"] /\ x = [type |-> "stop"]
      PROVE  IInv'
  <2>1. /\ commands < MaxCommands /\ commands' = commands + 1 /\ Accepts(thread, c)
        /\ thread' = Apply(thread, Decide(thread, c)) /\ inbox' = inbox \o <<x>>
        /\ UNCHANGED <<bound, session, from, turns, out, hand, clock>>
    BY <1>1 DEF Order, processes
  <2>2. /\ x \in Intent /\ IsAsked(x) /\ x.type \notin Archives
        /\ Settler(x) /\ ~Elsewhere(x, thread')
    BY <1>1 DEF Intent, IsAsked, Archives, Settler, Elsewhere
  <2>3. thread # NoThread /\ ~thread.archived /\ ~thread.archiving /\ ~Fenced(thread, c)
    BY <1>1, <2>1, RulesAssumption
    DEF IInv, Sound, Thread, Accepts, WorkCommands, Closed, Fenced
  <2>4. PICK e : /\ Decide(thread, c) = <<e>>
                 /\ e.type \in {"turnInterruptRequested", "sessionStopRequested"}
    BY <1>1, <2>3 DEF Decide
  <2>5. thread' = thread
    BY <2>1, <2>3, <2>4 DEF Apply, ApplyOne
  <2>6. lost' \in Loss
    BY DEF IInv, TypeOK
  <2> QED BY <2>1, <2>2, <2>3, <2>5, <2>6, OrderKeeps DEF IInv
<1> QED BY <1>1

LEMMA ArchiveKeeps == ASSUME IInv, Archive PROVE IInv'
<1> DEFINE c == [type |-> "archive"]
           x == [type |-> "archive"]
           u == [thread EXCEPT !.archiving = TRUE]
<1>1. /\ commands < MaxCommands /\ commands' = commands + 1 /\ Accepts(thread, c)
      /\ thread' = Apply(thread, Decide(thread, c)) /\ inbox' = inbox \o <<x>> /\ lost' = lost
      /\ UNCHANGED <<bound, session, from, turns, out, hand, clock>>
  BY DEF Archive, Order, processes
<1>2. /\ thread # NoThread /\ thread \in Thread /\ ~thread.archived /\ ~thread.archiving
      /\ ~Closed(thread)
  BY RulesAssumption DEF IInv, Sound, Archive, Closed
<1>3. c \in Command /\ ~Fenced(thread, c)
  BY DEF Command, Fenced
<1>4. Decide(thread, c) = <<[type |-> "archiveRequested"]>>
  BY <1>2, <1>3 DEF Decide
<1>5. ApplyOne(thread, [type |-> "archiveRequested"]) = u
  BY <1>2 DEF ApplyOne, Muted
<1>6. thread' = u /\ Sound(thread')
  BY <1>1, <1>3, <1>4, <1>5, HandleSound DEF Apply, IInv
<1>7. /\ u.instance = thread.instance /\ ~u.archived /\ u.archiving /\ ~u.deleted
      /\ u.cutoff = thread.cutoff /\ u.inFlight = thread.inFlight
  BY <1>2 DEF IInv, Thread
<1> HIDE DEF u
<1>8. x \in Intent /\ IsAsked(x) /\ ~Elsewhere(x, thread')
  BY DEF Intent, IsAsked, Elsewhere
<1> HIDE DEF x
<1>9. lost' \in Loss
  BY <1>1 DEF IInv, TypeOK
<1> QED BY <1>1, <1>2, <1>6, <1>7, <1>8, <1>9, OrderKeeps

LEMMA ResumeKeeps == ASSUME IInv, Resume PROVE IInv'
<1> DEFINE c == [type |-> "resume"]
           u == [thread EXCEPT !.archived = FALSE, !.status = "idle"]
<1>1. /\ commands < MaxCommands /\ commands' = commands + 1 /\ Accepts(thread, c)
      /\ thread' = Apply(thread, Decide(thread, c)) /\ inbox' = inbox \o <<>> /\ lost' = lost
      /\ UNCHANGED <<bound, session, from, turns, out, hand, clock>>
  BY DEF Resume, Order, processes
<1>2. /\ thread # NoThread /\ thread \in Thread /\ thread.archived /\ ~thread.archiving
      /\ ~thread.inFlight
  BY RulesAssumption DEF IInv, Sound, Resume
<1>3. c \in Command /\ ~Fenced(thread, c)
  BY DEF Command, Fenced
<1>4. Decide(thread, c) = <<[type |-> "resumed"]>>
  BY <1>2, <1>3 DEF Decide
<1>5. ApplyOne(thread, [type |-> "resumed"]) = u
  BY <1>2 DEF ApplyOne, Muted
<1>6. thread' = u /\ Sound(thread')
  BY <1>1, <1>3, <1>4, <1>5, HandleSound DEF Apply, IInv
<1>7. /\ ~u.archived /\ ~u.deleted /\ u.cutoff = thread.cutoff /\ ~u.inFlight /\ ~u.archiving
  BY <1>2 DEF IInv, Thread
<1> HIDE DEF u
<1>8. inbox' = <<>> /\ inbox' \in Seq(Intent)
  BY <1>1, <1>2, NothingBefore DEF IInv, Ordered
<1>9. commands' \in 0..MaxCommands
  BY <1>1, TurnsAssumption DEF IInv, TypeOK
<1>10. TypeOK'
  BY <1>1, <1>6, <1>8, <1>9 DEF IInv, TypeOK, Sound
<1>11. ClockAhead'
  BY <1>1, <1>6, <1>7, RulesAssumption DEF IInv, TypeOK, ClockAhead
<1>12. Ordered(inbox', thread') /\ HeadFits' /\ NeverStuck' /\ ArchivedHasNoProcess'
  BY <1>6, <1>7, <1>8 DEF Ordered, HeadFits, NeverStuck, ArchivedHasNoProcess
<1>13. InHand' /\ NoTurnWithoutSession' /\ OneSession'
  BY <1>1 DEF IInv, InHand, NoTurnWithoutSession, OneSession, HasSession
<1> QED BY <1>6, <1>7, <1>10, <1>11, <1>12, <1>13 DEF IInv

-----------------------------------------------------------------------------
(***************************************************************************)
(* The processes.                                                          *)
(***************************************************************************)

\* What a process says is younger than every cutoff; if it ends a turn and cannot
\* be said, that is on record.
LEMMA Emitted ==
    ASSUME IInv, thread' = thread, NEW i \in Instances,
           NEW word \in {"started", "ended", "exited"}, Emit(i, word)
    PROVE  /\ out' \in [Instances -> Seq(Word)] /\ lost' \in Loss
           /\ \A j \in Instances : Len(out'[j]) <= ChannelSize
           /\ lost # "no" => lost' # "no"
           /\ ToLook => ToLook'
           /\ word # "started" /\ i = thread.instance => ToLook' \/ lost' # "no"
<1> DEFINE e == [type |-> word, at |-> clock]
           room == Len(out[i]) < ChannelSize
<1>1. /\ out \in [Instances -> Seq(Word)] /\ out[i] \in Seq(Word) /\ lost \in Loss
      /\ \A j \in Instances : Len(out[j]) <= ChannelSize
      /\ e \in Word /\ thread.instance \in Instances /\ thread.cutoff < clock
      /\ e.type = word /\ e.at = clock /\ ChannelSize \in Nat
  BY TurnsAssumption DEF IInv, TypeOK, Word, Thread, ClockAhead
<1>2. CASE room
  <2>1. out' = [out EXCEPT ![i] = Append(@, e)] /\ lost' = lost
    BY <1>2 DEF Emit
  <2> HIDE DEF e
  <2>2. /\ out'[i] \in Seq(Word) /\ Len(out'[i]) = Len(out[i]) + 1 /\ Len(out[i]) \in Nat
        /\ out'[i][Len(out[i]) + 1] = e
        /\ \A n \in 1..Len(out[i]) : out'[i][n] = out[i][n]
    BY <1>1, <2>1
  <2>3. \A j \in Instances : j # i => out'[j] = out[j]
    BY <1>1, <2>1
  <2>4. out' \in [Instances -> Seq(Word)] /\ \A j \in Instances : Len(out'[j]) <= ChannelSize
    BY <1>1, <1>2, <2>1, <2>2, <2>3
  <2>5. ASSUME ToLook PROVE ToLook'
    <3>1. PICK n \in 1..Len(out[thread.instance]) :
             /\ out[thread.instance][n].type # "started"
             /\ out[thread.instance][n].at > thread.cutoff
      BY <2>5 DEF ToLook
    <3>2. n \in 1..Len(out'[thread.instance]) /\ out'[thread.instance][n] = out[thread.instance][n]
      <4>1. CASE i = thread.instance
        <5>1. n \in 1..Len(out[i])
          BY <3>1, <4>1
        <5>2. n \in 1..Len(out'[i]) /\ out'[i][n] = out[i][n]
          BY <2>2, <5>1
        <5> QED BY <4>1, <5>2
      <4>2. CASE i # thread.instance
        <5>1. out'[thread.instance] = out[thread.instance]
          BY <1>1, <2>3, <4>2
        <5> QED BY <3>1, <5>1
      <4> QED BY <4>1, <4>2
    <3> QED BY <3>1, <3>2 DEF ToLook
  <2>6. ASSUME word # "started", i = thread.instance PROVE ToLook'
    <3>1. Len(out[i]) + 1 \in 1..Len(out'[i])
      BY <2>2
    <3> QED BY <1>1, <2>2, <2>6, <3>1, RulesAssumption DEF ToLook, IInv, TypeOK, Thread
  <2> QED BY <1>1, <2>1, <2>4, <2>5, <2>6
<1>3. CASE ~room
  <2>1. out' = out /\ lost' = IF word = "started" \/ thread.instance # i THEN lost ELSE "dropped"
    BY <1>3 DEF Emit
  <2> QED BY <1>1, <2>1 DEF Loss, ToLook
<1> QED BY <1>2, <1>3

\* A process that speaks or ends leaves the Reactor and Ingestion alone.
LEMMA SpeakKeeps ==
    ASSUME IInv, UNCHANGED <<thread, inbox, bound, hand, clock, commands>>, ProcessesFit',
           out' \in [Instances -> Seq(Word)], lost' \in Loss,
           \A i \in Instances : Len(out'[i]) <= ChannelSize,
           \A i \in Instances : HasSession(i)' => HasSession(i),
           lost # "no" => lost' # "no", ToLook => ToLook',
           turns'[thread.instance] # turns[thread.instance] /\ AtWork => ToLook' \/ lost' # "no"
    PROVE  IInv'
<1>1. TypeOK'
  BY DEF IInv, TypeOK, ProcessesFit
<1>2. Ordered(inbox', thread') /\ HeadFits' /\ ArchivedHasNoProcess'
  BY DEF IInv, HeadFits, NoSession, ArchivedHasNoProcess
<1>3. ClockAhead' /\ InHand' /\ Sound(thread)' /\ ~thread'.deleted
  BY DEF IInv, ClockAhead, InHand
<1>4. NeverStuck'
  BY DEF IInv, NeverStuck, AtWork, ToReact, ToDeliver
<1> QED BY <1>1, <1>2, <1>3, <1>4 DEF IInv, ProcessesFit

LEMMA AnnounceKeeps == ASSUME IInv, NEW i \in Instances, Announce(i) PROVE IInv'
<1>1. /\ session[i] = "fresh" /\ session' = [session EXCEPT ![i] = "live"] /\ Emit(i, "started")
      /\ UNCHANGED <<thread, inbox, bound, from, turns, hand, clock, commands>>
  BY DEF Announce
<1>2. ProcessesFit' /\ \A j \in Instances : HasSession(j)' => HasSession(j)
  BY <1>1 DEF IInv, TypeOK, ProcessesFit, HasSession, NoTurnWithoutSession, OneSession, Stage
<1> QED BY <1>1, <1>2, Emitted, SpeakKeeps

LEMMA EndTurnKeeps == ASSUME IInv, NEW i \in Instances, EndTurn(i) PROVE IInv'
<1>1. /\ Emit(i, "ended")
      /\ UNCHANGED <<thread, inbox, bound, session, from, hand, clock, commands>>
  BY DEF EndTurn
<1>2. PICK n \in 0..turns[i] : n < turns[i] /\ turns' = [turns EXCEPT ![i] = n]
  BY DEF EndTurn
<1>3. turns \in [Instances -> Nat] /\ thread.instance \in Instances
  BY DEF IInv, TypeOK, Thread
<1>4. ProcessesFit' /\ \A j \in Instances : HasSession(j)' => HasSession(j)
  BY <1>1, <1>2, <1>3 DEF IInv, TypeOK, ProcessesFit, HasSession, NoTurnWithoutSession, OneSession
<1>5. turns'[thread.instance] # turns[thread.instance] => i = thread.instance
  BY <1>2, <1>3
<1> QED BY <1>1, <1>4, <1>5, Emitted, SpeakKeeps

LEMMA DieKeeps == ASSUME IInv, NEW i \in Instances, Die(i) PROVE IInv'
<1>1. /\ UNCHANGED <<thread, inbox, bound, hand, clock, commands>>
      /\ session' = [session EXCEPT ![i] = "none"] /\ from' = [from EXCEPT ![i] = None]
      /\ turns' = [turns EXCEPT ![i] = 0]
  BY DEF Die, Ended
<1>2. turns \in [Instances -> Nat] /\ thread.instance \in Instances /\ lost \in Loss
  BY DEF IInv, TypeOK, Thread
<1>3. ProcessesFit' /\ \A j \in Instances : HasSession(j)' => HasSession(j)
  BY <1>1, <1>2 DEF IInv, TypeOK, ProcessesFit, HasSession, NoTurnWithoutSession, OneSession, Stage
<1>4. turns'[thread.instance] # turns[thread.instance] => i = thread.instance
  BY <1>1, <1>2
<1>5. CASE session[i] = "condemned"
  <2>1. out' = out /\ lost' = IF turns[i] > 0 THEN "silenced" ELSE lost
    BY <1>5 DEF Die
  <2>2. /\ out' \in [Instances -> Seq(Word)] /\ lost' \in Loss
        /\ \A j \in Instances : Len(out'[j]) <= ChannelSize
    BY <1>2, <2>1 DEF IInv, TypeOK, Loss
  <2>3. ToLook => ToLook'
    BY <1>1, <2>1 DEF ToLook
  <2>4. lost # "no" => lost' # "no"
    BY <2>1
  <2>5. turns'[thread.instance] # turns[thread.instance] /\ AtWork => lost' # "no"
    BY <1>4, <2>1 DEF AtWork
  <2> QED BY <1>1, <1>3, <2>2, <2>3, <2>4, <2>5, SpeakKeeps
<1>6. CASE session[i] # "condemned"
  <2>1. Emit(i, "exited")
    BY <1>6 DEF Die
  <2> QED BY <1>1, <1>3, <1>4, <2>1, Emitted, SpeakKeeps
<1> QED BY <1>5, <1>6

-----------------------------------------------------------------------------
(***************************************************************************)
(* Ingestion.                                                              *)
(***************************************************************************)

\* What handle makes of a word is a session-set, one that ends the turn or, for
\* a session's start alone, perhaps not.
LEMMA MeaningIs ==
    ASSUME NEW i \in Instances, NEW word \in {"started", "ended", "exited"}
    PROVE  /\ Meaning(i, word) \in SessionChanges
           /\ Meaning(i, word).status \in {"running", "idle", "stopped"}
           /\ word # "started" => Meaning(i, word).status \in {"idle", "stopped"}
<1>1. ASSUME NEW s \in {"running", "idle"}, NEW k \in Instances \cup {None}
      PROVE  Settling(s, k) \in SessionChanges /\ Settling(s, k).status = s
  <2>1. Settling(s, k).status = s
    BY DEF Settling, NoChange
  <2>2. Settling(s, k) \in
           {Settling(v, j) : v \in {"running", "idle"}, j \in Instances \cup {None}}
    OBVIOUS
  <2> QED BY <2>1, <2>2 DEF SessionChanges
<1>2. Stopping \in SessionChanges /\ Stopping.status = "stopped"
  BY DEF SessionChanges, Stopping, NoChange
<1>3. CASE word = "started"
  <2> DEFINE s == IF i \in Antigravity /\ ~thread.inFlight THEN "idle" ELSE "running"
  <2>1. s \in {"running", "idle"} /\ Meaning(i, word) = Settling(s, i)
    BY <1>3 DEF Meaning
  <2> HIDE DEF s
  <2> QED BY <1>1, <1>3, <2>1
<1>4. CASE word = "ended"
  <2>1. Meaning(i, word) = Settling("idle", None)
    BY <1>4 DEF Meaning
  <2> QED BY <1>1, <2>1
<1>5. CASE word = "exited"
  <2>1. Meaning(i, word) = Stopping
    BY <1>5 DEF Meaning
  <2> QED BY <1>2, <2>1
<1> QED BY <1>3, <1>4, <1>5

LEMMA CutoffNat == ASSUME NEW t \in Thread PROVE t.cutoff \in Nat
<1>1. t.cutoff \in Times \cup {0}
  BY DEF Thread
<1>2. \A x \in Times : x \in Nat
  BY RulesAssumption
<1> QED BY <1>1, <1>2

LEMMA LookKeeps == ASSUME IInv, NEW i \in Instances, Look(i) PROVE IInv'
<1> DEFINE e == Head(out[i])
           h == [change |-> Meaning(i, e.type), at |-> e.at]
           q == out[thread.instance]
<1>1. /\ out[i] # <<>> /\ hand[i] = NoHand /\ out' = [out EXCEPT ![i] = Tail(@)]
      /\ UNCHANGED <<thread, inbox, bound, session, from, turns, clock, commands>>
  BY DEF Look, processes
<1>0. thread.cutoff \in Nat
  BY CutoffNat DEF IInv, TypeOK
<1>2. /\ out \in [Instances -> Seq(Word)] /\ out[i] \in Seq(Word)
      /\ thread.instance \in Instances /\ thread.cutoff \in Nat
      /\ \A j \in Instances : Len(out[j]) <= ChannelSize
  BY <1>0 DEF IInv, TypeOK, Thread
<1>3. /\ Len(out[i]) \in Nat \ {0} /\ e = out[i][1] /\ e \in Word
      /\ Tail(out[i]) \in Seq(Word) /\ Len(Tail(out[i])) = Len(out[i]) - 1
      /\ \A n \in 1..Len(Tail(out[i])) : Tail(out[i])[n] = out[i][n + 1]
  BY <1>1, <1>2, Nonempty
<1>4. e.type \in {"started", "ended", "exited"} /\ e.at \in Times /\ e.at \in Nat
  BY <1>3, RulesAssumption DEF Word
<1> HIDE DEF e
<1>5. out' \in [Instances -> Seq(Word)] /\ \A j \in Instances : Len(out'[j]) <= ChannelSize
  BY <1>1, <1>2, <1>3, TurnsAssumption
<1>6. /\ h.change = Meaning(i, e.type) /\ h.at = e.at
      /\ h \in [change : SessionChanges \cup {NoChange}, at : Times \cup {0}]
      /\ h.change \in SessionChanges /\ h.change.status \in {"running", "idle", "stopped"}
      /\ e.type # "started" => h.change.status \in {"idle", "stopped"}
  BY <1>4, MeaningIs
<1> HIDE DEF h
<1>7. \/ /\ Muffled(i, e.at) /\ hand' = hand
         /\ lost' = IF thread.instance = i /\ thread.archiving /\ e.type # "started"
                      THEN "swallowed" ELSE lost
      \/ ~Muffled(i, e.at) /\ hand' = [hand EXCEPT ![i] = h] /\ lost' = lost
  BY DEF Look, e, h
<1>8. TypeOK' /\ InHand'
  <2>1. lost' \in Loss
    BY <1>7 DEF IInv, TypeOK, Loss
  <2>2. hand' \in [Instances -> [change : SessionChanges \cup {NoChange}, at : Times \cup {0}]]
    BY <1>6, <1>7 DEF IInv, TypeOK
  <2>3. InHand'
    BY <1>4, <1>6, <1>7 DEF IInv, TypeOK, InHand
  <2> QED BY <1>1, <1>5, <2>1, <2>2, <2>3 DEF IInv, TypeOK
<1>9. ToDeliver => ToDeliver'
  BY <1>1, <1>7 DEF ToDeliver, IInv, TypeOK
<1>10. ASSUME ToLook, ~thread.archived
       PROVE  ToLook' \/ ToDeliver' \/ lost' # "no"
  <2>1. PICK n \in 1..Len(q) : q[n].type # "started" /\ q[n].at > thread.cutoff
    BY <1>10 DEF ToLook
  <2>2. CASE i # thread.instance
    BY <1>1, <1>2, <2>1, <2>2 DEF ToLook
  <2>3. CASE i = thread.instance /\ n > 1
    <3>1. /\ n - 1 \in 1..Len(Tail(out[i])) /\ (n - 1) + 1 = n
          /\ out'[thread.instance] = Tail(out[i])
      BY <1>1, <1>2, <1>3, <2>1, <2>3
    <3>2. out'[thread.instance][n - 1] = q[n]
      BY <1>3, <2>3, <3>1
    <3> QED BY <1>1, <2>1, <3>1, <3>2 DEF ToLook
  <2>4. CASE i = thread.instance /\ n = 1
    <3>1. e.type # "started" /\ e.at > thread.cutoff
      BY <1>3, <2>1, <2>4
    <3>2. CASE Muffled(i, e.at)
      <4>1. thread.archiving
        BY <1>2, <1>4, <1>10, <2>4, <3>1, <3>2 DEF Muffled, Closed
      <4> QED BY <1>7, <2>4, <3>1, <3>2, <4>1
    <3>3. CASE ~Muffled(i, e.at)
      <4>1. hand'[i] = h
        BY <1>7, <3>3 DEF IInv, TypeOK
      <4>2. h # NoHand
        BY <1>4, <1>6, RulesAssumption DEF NoHand
      <4> QED BY <1>1, <1>6, <3>1, <4>1, <4>2 DEF ToDeliver
    <3> QED BY <3>2, <3>3
  <2> QED BY <2>1, <2>2, <2>3, <2>4
<1>11. NeverStuck'
  <2>1. lost # "no" => lost' # "no"
    BY <1>7
  <2> QED BY <1>1, <1>9, <1>10, <2>1 DEF IInv, NeverStuck, AtWork, ToReact
<1>12. /\ Ordered(inbox', thread') /\ HeadFits' /\ ClockAhead' /\ NoTurnWithoutSession'
       /\ OneSession' /\ ArchivedHasNoProcess' /\ Sound(thread)' /\ ~thread'.deleted
  BY <1>1
  DEF IInv, HeadFits, NoSession, ClockAhead, NoTurnWithoutSession, OneSession, HasSession,
      ArchivedHasNoProcess
<1> QED BY <1>8, <1>11, <1>12 DEF IInv

LEMMA DeliverKeeps == ASSUME IInv, NEW i \in Instances, Deliver(i) PROVE IInv'
<1> DEFINE change == hand[i].change
           at == hand[i].at
           c == SessionSetting(change, at)
           u == Dispatched(c)
<1>1. /\ hand[i] # NoHand /\ thread' = u /\ hand' = [hand EXCEPT ![i] = NoHand]
      /\ lost' = IF thread.archiving /\ change.status # "running" THEN "swallowed" ELSE lost
      /\ UNCHANGED <<inbox, bound, session, from, turns, out, clock, commands>>
  BY DEF Deliver, processes
<1>2. /\ change \in SessionChanges /\ at \in Times
      /\ change.status \in {"running", "idle", "stopped"}
      /\ thread \in Thread /\ Sound(thread) /\ ~thread.deleted
      /\ at \in Nat \ {0} /\ thread.cutoff \in Nat
  BY <1>1, CutoffNat, RulesAssumption DEF IInv, InHand, TypeOK
<1>3. thread # NoThread /\ c.type = "sessionSet" /\ c.at = at
  BY <1>2, RulesAssumption DEF SessionSetting
<1> HIDE DEF change, at
<1>4. Fenced(thread, c) <=> thread.archiving \/ thread.archived \/ at <= thread.cutoff
  BY <1>2, <1>3 DEF Fenced, Closed
<1>5. /\ Sound(u) /\ SameLife(thread, u)
      /\ thread.archived => u = thread
      /\ Fenced(thread, c) => u = thread
      /\ ~Fenced(thread, c) => u.inFlight = (change.status = "running" /\ thread.inFlight)
  <2>1. CASE thread.archived
    <3>1. Accepts(thread, c) /\ Decide(thread, c) = <<>>
      BY <1>4, <2>1 DEF Accepts, Decide
    <3>2. u = thread
      BY <3>1 DEF Dispatched, Apply
    <3> QED BY <1>2, <1>4, <2>1, <3>2 DEF SameLife
  <2>2. CASE ~thread.archived
    <3>1. at \in Times \cup {0}
      BY <1>2
    <3> QED BY <1>2, <2>2, <3>1, SetDispatched
  <2> QED BY <2>1, <2>2
<1> HIDE DEF c, u
<1>6. TypeOK'
  <2>1. lost' \in Loss
    BY <1>1 DEF IInv, TypeOK, Loss
  <2>2. hand' \in [Instances -> [change : SessionChanges \cup {NoChange}, at : Times \cup {0}]]
    BY <1>1 DEF IInv, TypeOK, NoHand
  <2> QED BY <1>1, <1>5, <2>1, <2>2 DEF IInv, TypeOK, Sound
<1>7. Ordered(inbox', thread') /\ HeadFits' /\ ClockAhead' /\ ArchivedHasNoProcess'
  BY <1>1, <1>5
  DEF IInv, Ordered, Elsewhere, HeadFits, NoSession, HasSession, ClockAhead,
      ArchivedHasNoProcess, SameLife
<1>8. InHand' /\ NoTurnWithoutSession' /\ OneSession'
  BY <1>1 DEF IInv, TypeOK, InHand, NoTurnWithoutSession, OneSession, HasSession
<1>9. NeverStuck'
  <2> SUFFICES ASSUME u.inFlight, ~u.archived, lost' = "no" PROVE NeverStuck'
    BY <1>1 DEF NeverStuck
  <2>1. ~thread.archived /\ lost = "no" /\ thread.inFlight /\ u.instance = thread.instance
        /\ u.cutoff = thread.cutoff
    BY <1>1, <1>5 DEF SameLife
  <2>2. change.status = "running" \/ at <= thread.cutoff
    BY <1>1, <1>2, <1>4, <1>5, <2>1
  <2>3. ASSUME ToDeliver PROVE ToDeliver'
    <3>1. PICK j \in Instances : /\ hand[j] # NoHand /\ hand[j].at > thread.cutoff
                                 /\ hand[j].change.status \in {"idle", "stopped"}
      BY <2>3 DEF ToDeliver
    <3>2. j # i
      BY <1>2, <2>2, <3>1 DEF change, at
    <3>3. hand'[j] = hand[j]
      BY <1>1, <3>2 DEF IInv, TypeOK
    <3> QED BY <1>1, <2>1, <3>1, <3>3 DEF ToDeliver
  <2> QED BY <1>1, <2>1, <2>3 DEF IInv, NeverStuck, AtWork, ToReact, ToLook
<1>10. ~thread'.deleted
  BY <1>1, <1>2, <1>5 DEF SameLife
<1> QED BY <1>1, <1>5, <1>6, <1>7, <1>8, <1>9, <1>10 DEF IInv

\* What was produced before the last archive comes to nothing.
LEMMA DeliverOld ==
    ASSUME IInv, NEW i \in Instances, Deliver(i), hand[i].at <= thread.cutoff
    PROVE  thread' = thread
<1> DEFINE c == SessionSetting(hand[i].change, hand[i].at)
<1>1. hand[i] # NoHand /\ hand[i].at \in Times /\ thread # NoThread
  BY RulesAssumption DEF Deliver, IInv, InHand, Sound
<1>2. Fenced(thread, c)
  BY <1>1, RulesAssumption DEF Fenced, SessionSetting
<1>3. Accepts(thread, c) /\ Decide(thread, c) = <<>>
  BY <1>2 DEF Accepts, Decide
<1> QED BY <1>3 DEF Deliver, Dispatched, Apply

-----------------------------------------------------------------------------
(***************************************************************************)
(* The program starts again.                                               *)
(***************************************************************************)

\* Whatever the thread was doing, it is not in a turn when the Reactor starts.
LEMMA Reconciled ==
    ASSUME IInv, Reboot
    PROVE  /\ Sound(thread') /\ ~thread'.deleted /\ ~thread'.archiving
           /\ ~thread'.inFlight \/ thread'.archived
           /\ thread'.cutoff < clock' /\ clock' <= commands + 1 /\ clock' \in Times
<1>0. /\ thread \in Thread /\ Sound(thread) /\ ~thread.deleted /\ thread.cutoff < clock
      /\ clock <= commands + (IF thread.archiving THEN 0 ELSE 1)
      /\ clock \in Times /\ clock \in Nat /\ commands \in 0..MaxCommands
  BY RulesAssumption DEF IInv, TypeOK, ClockAhead
<1>1. CASE thread.archiving
  <2>1. thread' = Dispatched([type |-> "archiveComplete", cutoff |-> clock]) /\ clock' = clock + 1
    BY <1>1 DEF Reboot
  <2>2. clock' \in Times
    BY <1>0, <1>1, <2>1, TurnsAssumption
  <2>3. /\ Sound(thread') /\ thread'.archived /\ ~thread'.archiving /\ thread'.cutoff = clock
        /\ ~thread'.deleted
    BY <1>0, <1>1, <2>1, ArchiveDispatched
  <2> QED BY <1>0, <1>1, <2>1, <2>2, <2>3
<1>2. CASE ~thread.archiving /\ (thread.archived \/ thread.status \notin {"running", "waiting"})
  <2>1. thread' = thread /\ clock' = clock
    BY <1>2 DEF Reboot
  <2>2. ~thread.inFlight \/ thread.archived
    BY <1>0, <1>2 DEF Sound, Thread, Status
  <2> QED BY <1>0, <1>2, <2>1, <2>2
<1>3. CASE ~thread.archiving /\ ~(thread.archived \/ thread.status \notin {"running", "waiting"})
  <2> DEFINE c == SessionSetting(Reconciling, 0)
  <2>1. thread' = Dispatched(c) /\ clock' = clock /\ ~thread.archived
    BY <1>3 DEF Reboot
  <2>2. Reconciling \in SessionChanges /\ Reconciling.status = "idle"
    BY DEF SessionChanges, Reconciling, NoChange
  <2>3. ~Fenced(thread, c)
    BY DEF Fenced, SessionSetting
  <2>4. Sound(thread') /\ SameLife(thread, thread') /\ ~thread'.inFlight
    BY <1>0, <2>1, <2>2, <2>3, SetDispatched
  <2> QED BY <1>0, <1>3, <2>1, <2>4 DEF SameLife
<1> QED BY <1>1, <1>2, <1>3

LEMMA RebootKeeps == ASSUME IInv, Reboot PROVE IInv'
<1>1. /\ inbox' = <<>> /\ bound' = None
      /\ session' = [i \in Instances |-> "none"] /\ from' = [i \in Instances |-> None]
      /\ turns' = [i \in Instances |-> 0]
      /\ out' = [i \in Instances |-> <<>>] /\ hand' = [i \in Instances |-> NoHand]
      /\ commands' = commands /\ lost' = lost
  BY DEF Reboot
<1>2. /\ Sound(thread') /\ ~thread'.deleted /\ ~thread'.archiving
      /\ ~thread'.inFlight \/ thread'.archived
      /\ thread'.cutoff < clock' /\ clock' <= commands + 1 /\ clock' \in Times
  BY Reconciled
<1>3. inbox' \in Seq(Intent) /\ NoHand \in [change : SessionChanges \cup {NoChange}, at : Times \cup {0}]
  BY <1>1 DEF NoHand
<1>4. out' \in [Instances -> Seq(Word)] /\ \A i \in Instances : Len(out'[i]) <= ChannelSize
  BY <1>1, TurnsAssumption
<1>5. TypeOK'
  BY <1>1, <1>2, <1>3, <1>4 DEF IInv, TypeOK, Sound, Stage
<1> QED
  BY <1>1, <1>2, <1>5
  DEF IInv, Ordered, HeadFits, ClockAhead, InHand, NoTurnWithoutSession, OneSession, HasSession,
      ArchivedHasNoProcess, NeverStuck

-----------------------------------------------------------------------------
LEMMA StepIInv == IInv /\ [Next]_vars => IInv'
<1> SUFFICES ASSUME IInv, [Next]_vars PROVE IInv'
  OBVIOUS
<1>1. CASE UNCHANGED vars
  BY <1>1
  DEF vars, processes, IInv, TypeOK, HeadFits, NoSession, ClockAhead, InHand,
      NoTurnWithoutSession, OneSession, HasSession, ArchivedHasNoProcess, NeverStuck,
      AtWork, ToReact, ToLook, ToDeliver
<1>2. CASE \E i \in Instances \cup {None} : TurnStart(i)
  BY <1>2, TurnStartKeeps
<1>3. CASE Interrupt \/ Stop
  BY <1>3, AskKeeps DEF Interrupt, Stop
<1>4. CASE \E i \in Instances : Announce(i) \/ EndTurn(i) \/ Die(i) \/ Look(i) \/ Deliver(i)
  BY <1>4, AnnounceKeeps, EndTurnKeeps, DieKeeps, LookKeeps, DeliverKeeps
<1> QED
  BY <1>1, <1>2, <1>3, <1>4, ArchiveKeeps, ResumeKeeps, ReactKeeps, RebootKeeps DEF Next

\* What holds between any two steps of the reactor, of the drivers and of the
\* ingestion: where each turn's end is, and what stands between a thread that shows
\* a turn and one that shows none.
THEOREM TurnsInvariant == Spec => []IInv
BY InitIInv, StepIInv, PTL DEF Spec

\* The thread, the inbox, the processes and what they say have their types.
THEOREM TurnsTyped == Spec => []TypeOK
<1>1. IInv => TypeOK
  BY DEF IInv
<1> QED BY <1>1, TurnsInvariant, PTL

\* One agent at a time: a process runs only on the instance the thread is bound
\* to, whatever ensureSession, a failed start and a failed stop leave behind.
THEOREM OneAgentAtATime == Spec => []OneSession
<1>1. IInv => OneSession
  BY DEF IInv
<1> QED BY <1>1, TurnsInvariant, PTL

\* The archive completes only when the session is gone, and none is started for
\* an archived thread.
THEOREM ArchivedThreadsAreQuiet == Spec => []ArchivedHasNoProcess
<1>1. IInv => ArchivedHasNoProcess
  BY DEF IInv
<1> QED BY <1>1, TurnsInvariant, PTL

\* A thread shown in a turn has a process at work on it, or something that will
\* settle it is on its way, or its end is on record as lost.
THEOREM NoTurnIsForgotten == Spec => []TurnsEnd
<1>1. IInv => TurnsEnd
  <2> SUFFICES ASSUME IInv, thread.inFlight, ~Closed(thread) PROVE Settles \/ lost # "no"
    BY DEF TurnsEnd
  <2>1. /\ thread # NoThread /\ ~thread.archived /\ ~thread.archiving
        /\ thread.instance \in Instances
    BY RulesAssumption DEF IInv, Sound, Thread, Closed
  <2>2. AtWork => Settles
    BY DEF AtWork, Settles
  <2>3. ASSUME ToReact PROVE Settles
    <3>1. PICK n \in 1..Len(inbox) : Settler(inbox[n])
      BY <2>3 DEF ToReact
    <3>2. inbox[n].type # "archiveComplete"
      BY <2>1 DEF IInv, Ordered, Archives
    <3>3. n \in DOMAIN inbox
      BY DEF IInv, TypeOK
    <3> QED BY <3>1, <3>2, <3>3 DEF Settler, Settles
  <2>4. ASSUME ToLook PROVE Settles
    <3>1. DOMAIN out[thread.instance] = 1..Len(out[thread.instance])
      BY <2>1 DEF IInv, TypeOK
    <3> QED BY <2>4, <3>1 DEF ToLook, Settles
  <2>5. ToDeliver => Settles
    BY DEF ToDeliver, Settles
  <2> QED BY <2>1, <2>2, <2>3, <2>4, <2>5 DEF IInv, NeverStuck
<1> QED BY <1>1, TurnsInvariant, PTL

\* Output from before an archive leaves the resumed thread alone, also when
\* handle had looked at it before the archive was complete.
THEOREM ArchiveCutsOffOutput == Spec => ArchiveCutsOff
<1>1. IInv /\ [Next]_vars =>
         [\A i \in Instances :
             Deliver(i) /\ hand[i].at <= thread.cutoff => UNCHANGED thread]_vars
  BY DeliverOld
<1> QED BY <1>1, TurnsInvariant, PTL DEF Spec, ArchiveCutsOff
=============================================================================
