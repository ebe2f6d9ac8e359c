--------------------------- MODULE ChatSyncProofs ---------------------------
(***************************************************************************)
(* Proofs about ChatSync, for any panes, requests, items and times, any    *)
(* buffer and chunk sizes and any bounds.                                  *)
(*                                                                         *)
(* The reference is At(l, n): the first n events of log l, folded one by   *)
(* one.  The first half is about the two loops: folding a chain of wire    *)
(* events onto At(l, n), whether they are the log's own events or runs of  *)
(* deltas made one, gives At where the chain ends, and a tail that comes   *)
(* again changes nothing.  The second half is about the system: what is in *)
(* a subscription and in the frames joins, without a hole, what the        *)
(* browser has to what the log has (Streamed); the thread and the view of  *)
(* its whole log tell the same story (Match), event by event; and a card   *)
(* in a handler's hand is still the thread's when it is dispatched         *)
(* (Handy).                                                                *)
(***************************************************************************)
EXTENDS ChatSync, ThreadRulesProofs, SequenceTheorems, FiniteSetTheorems

-----------------------------------------------------------------------------
(***************************************************************************)
(* The loops.  Each is a recursive function; that it exists is by          *)
(* induction on how far it has got.                                        *)
(***************************************************************************)

\* The view after k turns of the reducer's loop over s.
ReduceTurn(f, v, s, k) ==
    IF k = 0 THEN v
    ELSE IF s[k].seq <= v.lastSeq THEN f[k - 1]
    ELSE [FoldOne(f[k - 1], s[k]) EXCEPT !.lastSeq = s[k].seq]
Reducing(f, v, s, n) == f = [k \in 0..n |-> ReduceTurn(f, v, s, k)]

LEMMA ReducingExists ==
    ASSUME NEW v, NEW s PROVE \A n \in Nat : \E f : Reducing(f, v, s, n)
<1> DEFINE S == {n \in Nat : \E f : Reducing(f, v, s, n)}
<1>1. 0 \in S
  <2> DEFINE f == [k \in 0..0 |-> v]
  <2>1. Reducing(f, v, s, 0)
    BY DEF Reducing, ReduceTurn
  <2> QED BY <2>1
<1>2. ASSUME NEW n \in Nat, n \in S PROVE n + 1 \in S
  <2>1. PICK f : Reducing(f, v, s, n)
    BY <1>2
  <2> DEFINE g == [k \in 0..(n + 1) |-> IF k = n + 1 THEN ReduceTurn(f, v, s, n + 1) ELSE f[k]]
  <2>2. \A k \in 0..n : g[k] = f[k]
    OBVIOUS
  <2>3. ASSUME NEW k \in 0..(n + 1) PROVE g[k] = ReduceTurn(g, v, s, k)
    <3>1. k # 0 => k - 1 \in 0..n /\ g[k - 1] = f[k - 1]
      BY <2>2
    <3>2. ReduceTurn(g, v, s, k) = ReduceTurn(f, v, s, k)
      BY <3>1 DEF ReduceTurn
    <3>3. CASE k = n + 1
      BY <3>2, <3>3
    <3>4. CASE k \in 0..n
      <4>1. f[k] = ReduceTurn(f, v, s, k)
        BY <2>1, <3>4 DEF Reducing
      <4> QED BY <2>2, <3>2, <3>4, <4>1
    <3> QED BY <3>3, <3>4
  <2>4. Reducing(g, v, s, n + 1)
    BY <2>3 DEF Reducing
  <2> QED BY <2>4
<1> HIDE DEF S
<1>3. \A n \in Nat : n \in S
  BY <1>1, <1>2, Induction
<1> QED BY <1>3 DEF S

LEMMA Reduced ==
    ASSUME NEW v, NEW s, Len(s) \in Nat
    PROVE  \E f : Reducing(f, v, s, Len(s)) /\ ReduceAgentEvents(v, s) = f[Len(s)]
<1> DEFINE g == CHOOSE f : Reducing(f, v, s, Len(s))
<1>1. Reducing(g, v, s, Len(s))
  BY ReducingExists
<1>2. ReduceAgentEvents(v, s) = g[Len(s)]
  BY DEF ReduceAgentEvents, Reducing, ReduceTurn
<1> QED BY <1>1, <1>2

\* What CoalesceReplay has out after k events.
Coalescing(f, s, n) == f = [k \in 0..n |-> IF k = 0 THEN <<>> ELSE Extended(f[k - 1], s[k])]

LEMMA CoalescingExists ==
    ASSUME NEW s PROVE \A n \in Nat : \E f : Coalescing(f, s, n)
<1> DEFINE S == {n \in Nat : \E f : Coalescing(f, s, n)}
<1>1. 0 \in S
  <2> DEFINE f == [k \in 0..0 |-> <<>>]
  <2>1. Coalescing(f, s, 0)
    BY DEF Coalescing
  <2> QED BY <2>1
<1>2. ASSUME NEW n \in Nat, n \in S PROVE n + 1 \in S
  <2>1. PICK f : Coalescing(f, s, n)
    BY <1>2
  <2> DEFINE g == [k \in 0..(n + 1) |-> IF k = n + 1 THEN Extended(f[n], s[n + 1]) ELSE f[k]]
  <2>2. \A k \in 0..n : g[k] = f[k]
    OBVIOUS
  <2>3. ASSUME NEW k \in 0..(n + 1) PROVE g[k] = IF k = 0 THEN <<>> ELSE Extended(g[k - 1], s[k])
    <3>1. CASE k = n + 1
      BY <2>2, <3>1
    <3>2. CASE k \in 1..n
      BY <2>1, <2>2, <3>2 DEF Coalescing
    <3>3. CASE k = 0
      BY <2>1, <2>2, <3>3 DEF Coalescing
    <3> QED BY <3>1, <3>2, <3>3
  <2>4. Coalescing(g, s, n + 1)
    BY <2>3 DEF Coalescing
  <2> QED BY <2>4
<1> HIDE DEF S
<1>3. \A n \in Nat : n \in S
  BY <1>1, <1>2, Induction
<1> QED BY <1>3 DEF S

LEMMA Coalesced ==
    ASSUME NEW s, Len(s) \in Nat
    PROVE  \E f : Coalescing(f, s, Len(s)) /\ CoalesceReplay(s) = f[Len(s)]
<1> DEFINE g == CHOOSE f : Coalescing(f, s, Len(s))
<1>1. Coalescing(g, s, Len(s))
  BY CoalescingExists
<1>2. CoalesceReplay(s) = g[Len(s)]
  BY DEF CoalesceReplay, Coalescing
<1> QED BY <1>1, <1>2

-----------------------------------------------------------------------------
(***************************************************************************)
(* Types: what a log holds, what a wire carries, what a view is.           *)
(***************************************************************************)

\* What engine and client log: ThreadRules' events, an activity with its body.
LogEvent ==
    {e \in Event : e.type # "activityAppended"} \cup [type : {"activityAppended"}, body : Activity]
WireEvent == [seq : Nat, event : LogEvent]

\* A row of the transcript, and a view with everything it can hold.
Rows == [id : Nat \cup Items, kind : {"user", "question", "error", "assistant"},
         text : Seq(Nat), last : Nat]
Views ==
    [items : Seq(Rows), status : Status, archived : BOOLEAN, archiving : BOOLEAN,
     mode : RuntimeMode, lastSeq : Nat, hasGap : BOOLEAN,
     approvals : SUBSET Requests, userInputs : SUBSET Requests]

LEMMA EventFacts ==
    ASSUME NEW e \in LogEvent
    PROVE  /\ e.type = "responseRequested" => e.request \in Requests
           /\ e.type = "sessionSet" => e.change \in SessionChanges
           /\ e.type = "activityAppended" => e = [type |-> "activityAppended", body |-> e.body]
           /\ e.type = "activityAppended" => e.body \in Activity
BY DEF LogEvent, Event

LEMMA ChangeFacts ==
    ASSUME NEW ch \in SessionChanges
    PROVE  /\ ch.status \in Status \cup {None} /\ ch.add \in Requests \cup {None}
           /\ ch.remove \in Requests \cup {None} /\ ch.cursor \in Instances \cup {None}
<1>1. ASSUME NEW s \in {"running", "idle"}, NEW i \in Instances \cup {None}, ch = Settling(s, i)
      PROVE  ch = [status |-> s, cursor |-> i, add |-> None, remove |-> None, clear |-> FALSE]
  BY <1>1 DEF Settling, NoChange
<1>2. ASSUME NEW r \in Requests, ch = Asking(r)
      PROVE  ch = [status |-> "waiting", cursor |-> None, add |-> r, remove |-> None, clear |-> FALSE]
  BY <1>2 DEF Asking, NoChange
<1>3. ASSUME NEW r \in Requests, ch = Resolving(r)
      PROVE  ch = [status |-> None, cursor |-> None, add |-> None, remove |-> r, clear |-> FALSE]
  BY <1>3 DEF Resolving, NoChange
<1>4. ASSUME ch \in {Stopping, Reconciling}
      PROVE  /\ ch.status \in {"idle", "stopped"} /\ ch.cursor = None /\ ch.add = None
             /\ ch.remove = None
  BY <1>4 DEF Stopping, Reconciling, NoChange
<1>5. \/ \E s \in {"running", "idle"}, i \in Instances \cup {None} : ch = Settling(s, i)
      \/ \E r \in Requests : ch = Asking(r) \/ ch = Resolving(r)
      \/ ch \in {Stopping, Reconciling}
  BY DEF SessionChanges
<1> QED BY <1>1, <1>2, <1>3, <1>4, <1>5 DEF Status

LEMMA BodyFacts ==
    ASSUME NEW b \in Activity
    PROVE  /\ b.kind \in {"delta", "opened", "resolved", "error", "reactorError"}
           /\ b.kind \in {"opened", "resolved"} => b.request \in Requests
           /\ b.kind = "delta" => /\ b.item \in Items /\ b.first \in Nat /\ b.sequence \in Nat
                                  /\ b.text \in Seq(Nat)
BY DEF Activity

LEMMA EmptyViewType == EmptyView \in Views
BY DEF EmptyView, Views, Status, RuntimeMode

LEMMA Replaced ==
    ASSUME NEW S, NEW q \in Seq(S), NEW k \in DOMAIN q, NEW x \in S
    PROVE  LET r == [q EXCEPT ![k] = x] IN
           /\ r \in Seq(S) /\ Len(r) = Len(q) /\ DOMAIN r = DOMAIN q /\ r[k] = x
           /\ \A j \in DOMAIN q : j # k => r[j] = q[j]
BY ExceptSeq

LEMMA RowType ==
    ASSUME NEW v \in Views, NEW n \in Nat, NEW kind \in {"user", "question", "error"}
    PROVE  /\ Row(v, n, kind) \in Views
           /\ \E its \in Seq(Rows) : Row(v, n, kind) = [v EXCEPT !.items = its]
<1> DEFINE its == Append(v.items, [id |-> n, kind |-> kind, text |-> <<>>, last |-> 0])
<1>1. [id |-> n, kind |-> kind, text |-> <<>>, last |-> 0] \in Rows
  BY DEF Rows
<1>2. its \in Seq(Rows)
  BY <1>1 DEF Views
<1>3. Row(v, n, kind) = [v EXCEPT !.items = its]
  BY DEF Row
<1> HIDE DEF its
<1> QED BY <1>2, <1>3 DEF Views

LEMMA ApplyDeltaType ==
    ASSUME NEW v \in Views, NEW d \in Activity, d.kind = "delta"
    PROVE  /\ ApplyDelta(v, d) \in Views
           /\ \E its \in Seq(Rows), g \in BOOLEAN :
                ApplyDelta(v, d) = [v EXCEPT !.items = its, !.hasGap = g]
<1>0. d.item \in Items /\ d.sequence \in Nat /\ d.text \in Seq(Nat)
  BY BodyFacts
<1>1. CASE ~Held(v, d.item)
  <2> DEFINE its == Append(v.items, [id |-> d.item, kind |-> "assistant", text |-> d.text,
                                     last |-> d.sequence])
  <2>1. [id |-> d.item, kind |-> "assistant", text |-> d.text, last |-> d.sequence] \in Rows
    BY <1>0 DEF Rows
  <2>2. its \in Seq(Rows)
    BY <2>1 DEF Views
  <2>3. ApplyDelta(v, d) = [v EXCEPT !.items = its]
    BY <1>1 DEF ApplyDelta
  <2> HIDE DEF its
  <2>4. [v EXCEPT !.items = its] = [v EXCEPT !.items = its, !.hasGap = v.hasGap]
    BY DEF Views
  <2> QED BY <2>2, <2>3, <2>4 DEF Views
<1>2. CASE Held(v, d.item)
  <2> DEFINE k == Place(v, d.item)
             row == [v.items[k] EXCEPT !.text = @ \o d.text, !.last = d.sequence]
             its == [v.items EXCEPT ![k] = row]
             g == v.hasGap \/ d.first > v.items[k].last + 1
  <2>1. v.items \in Seq(Rows)
    BY DEF Views
  <2>2. ASSUME k \in DOMAIN v.items PROVE its \in Seq(Rows)
    <3>1. v.items[k] \in Rows
      BY <2>1, <2>2
    <3>2. v.items[k].text \o d.text \in Seq(Nat)
      BY <1>0, <3>1 DEF Rows
    <3>3. row \in Rows
      BY <1>0, <3>1, <3>2 DEF Rows
    <3> HIDE DEF k, row
    <3> QED BY <2>1, <2>2, <3>3, Replaced
  <2>3. ASSUME k \notin DOMAIN v.items PROVE its \in Seq(Rows)
    <3> HIDE DEF k, row
    <3>1. its = v.items
      BY <2>1, <2>3
    <3> QED BY <2>1, <3>1
  <2>4. ApplyDelta(v, d) = [v EXCEPT !.items = its, !.hasGap = g]
    BY <1>2 DEF ApplyDelta, Views
  <2>5. g \in BOOLEAN
    OBVIOUS
  <2>6. its \in Seq(Rows)
    BY <2>2, <2>3
  <2> HIDE DEF its, g
  <2> QED BY <2>4, <2>5, <2>6 DEF Views
<1> QED BY <1>1, <1>2

LEMMA PendingType ==
    ASSUME NEW v \in Views, NEW r \in Requests
    PROVE  /\ OpenPending(v, r) \in Views /\ ClosePending(v, r) \in Views
           /\ OpenPending(v, r).lastSeq = v.lastSeq /\ ClosePending(v, r).lastSeq = v.lastSeq
<1>1. ASSUME NEW w \in Views
      PROVE  SettleAfterPending(w) \in Views /\ SettleAfterPending(w).lastSeq = w.lastSeq
  BY DEF SettleAfterPending, Cards, Views, Status
<1>2. [v EXCEPT !.approvals = @ \ {r}, !.userInputs = @ \ {r}] \in Views
  BY DEF Views
<1>3. [v EXCEPT !.approvals = @ \ {r}, !.userInputs = @ \ {r}].lastSeq = v.lastSeq
  BY DEF Views
<1>4. OpenPending(v, r) \in Views /\ OpenPending(v, r).lastSeq = v.lastSeq
  BY DEF OpenPending, Views
<1> QED BY <1>1, <1>2, <1>3, <1>4 DEF ClosePending

LEMMA FoldOneType ==
    ASSUME NEW v \in Views, NEW ev \in WireEvent
    PROVE  FoldOne(v, ev) \in Views /\ FoldOne(v, ev).lastSeq = v.lastSeq
<1> DEFINE e == ev.event
<1>0. e \in LogEvent /\ ev.seq \in Nat
  BY DEF WireEvent
<1> HIDE DEF e
<1>1. CASE e.type \in {"archiveRequested", "archiveFailed", "archived", "resumed", "created",
                       "runtimeModeSet"}
  BY <1>1 DEF e, FoldOne, ArchiveSeen, Views, Status, RuntimeMode
<1>2. CASE e.type = "responseRequested"
  <2>1. e.request \in Requests /\ FoldOne(v, ev) = Answered(v, ev.seq, e.request)
    BY <1>0, <1>2, EventFacts DEF e, FoldOne
  <2>2. Row(v, ev.seq, "question") \in Views /\ Row(v, ev.seq, "question").lastSeq = v.lastSeq
    BY <1>0, RowType DEF Views
  <2> QED BY <2>1, <2>2, PendingType DEF Answered
<1>3. CASE e.type = "turnStartRequested"
  <2>1. PICK w \in Views : w = Row(v, ev.seq, "user")
    BY <1>0, RowType
  <2>2. w.lastSeq = v.lastSeq
    BY <1>0, <2>1, RowType DEF Views
  <2>3. FoldOne(v, ev) = [w EXCEPT !.status = IF v.archived THEN @ ELSE "running"]
    BY <1>3, <2>1 DEF e, FoldOne
  <2> QED BY <2>2, <2>3 DEF Views, Status
<1>4. CASE e.type = "sessionSet" /\ ~v.archived
  <2>1. PICK ch \in SessionChanges : ch = e.change
    BY <1>0, <1>4, EventFacts
  <2>2. FoldOne(v, ev) = SessionSeen(v, ch)
    BY <1>4, <2>1 DEF e, FoldOne
  <2>3. PICK w : w = IF ch.status = None THEN v ELSE [v EXCEPT !.status = ch.status]
    OBVIOUS
  <2>4. w \in Views /\ w.lastSeq = v.lastSeq
    BY <2>3, ChangeFacts DEF Views
  <2>5. SessionSeen(v, ch) = IF ch.remove = None THEN w ELSE ClosePending(w, ch.remove)
    BY <2>3 DEF SessionSeen
  <2>6. ch.remove # None => ch.remove \in Requests
    BY ChangeFacts
  <2> QED BY <2>2, <2>4, <2>5, <2>6, PendingType
<1>5. CASE e.type = "activityAppended" /\ ~(v.archived /\ Forwarded(e))
  <2>1. PICK b \in Activity : b = e.body
    BY <1>0, <1>5, EventFacts
  <2>2. FoldOne(v, ev) = ActivitySeen(v, ev.seq, b)
    BY <1>5, <2>1 DEF e, FoldOne
  <2>3. CASE b.kind = "delta"
    <3>1. FoldOne(v, ev) = ApplyDelta(v, b)
      BY <2>2, <2>3 DEF ActivitySeen
    <3>2. PICK its \in Seq(Rows), g \in BOOLEAN :
            ApplyDelta(v, b) = [v EXCEPT !.items = its, !.hasGap = g]
      BY <2>3, ApplyDeltaType
    <3> QED BY <3>1, <3>2 DEF Views
  <2>4. CASE b.kind \in {"error", "reactorError"}
    <3>1. PICK w \in Views : w = Row(v, ev.seq, "error")
      BY <1>0, RowType
    <3>2. w.lastSeq = v.lastSeq
      BY <1>0, <3>1, RowType DEF Views
    <3>3. PICK s \in BOOLEAN :
            FoldOne(v, ev) = [w EXCEPT !.status = IF @ = "running" /\ s THEN "idle" ELSE @]
      BY <2>2, <2>4, <3>1 DEF ActivitySeen, Failed, Views
    <3> QED BY <3>2, <3>3 DEF Views, Status
  <2>5. CASE b.kind = "opened"
    <3>1. FoldOne(v, ev) = OpenPending(v, b.request)
      BY <2>2, <2>5 DEF ActivitySeen
    <3> QED BY <2>5, <3>1, BodyFacts, PendingType
  <2>6. CASE b.kind = "resolved"
    <3>1. FoldOne(v, ev) = ClosePending(v, b.request)
      BY <2>2, <2>6 DEF ActivitySeen
    <3> QED BY <2>6, <3>1, BodyFacts, PendingType
  <2> QED BY <2>3, <2>4, <2>5, <2>6, BodyFacts
<1>6. CASE /\ e.type \notin {"archiveRequested", "archiveFailed", "archived", "resumed", "created",
                             "runtimeModeSet", "responseRequested", "turnStartRequested"}
           /\ ~(e.type = "sessionSet" /\ ~v.archived)
           /\ ~(e.type = "activityAppended" /\ ~(v.archived /\ Forwarded(e)))
  BY <1>6 DEF e, FoldOne
<1> QED BY <1>1, <1>2, <1>3, <1>4, <1>5, <1>6

-----------------------------------------------------------------------------
(***************************************************************************)
(* What panes paint the composer and the panels from: all of a view but    *)
(* its transcript.                                                         *)
(***************************************************************************)

\* v and w differ in their transcripts at most.
SameCore(v, w) ==
    /\ v.status = w.status /\ v.archived = w.archived /\ v.archiving = w.archiving
    /\ v.mode = w.mode /\ v.approvals = w.approvals /\ v.userInputs = w.userInputs

LEMMA RowCore ==
    ASSUME NEW v \in Views, NEW n \in Nat, NEW kind \in {"user", "question", "error"}
    PROVE  SameCore(Row(v, n, kind), v)
<1>1. PICK its : its = Append(v.items, [id |-> n, kind |-> kind, text |-> <<>>, last |-> 0])
  OBVIOUS
<1>2. Row(v, n, kind) = [v EXCEPT !.items = its]
  BY <1>1 DEF Row
<1> QED BY <1>2 DEF SameCore, Views

LEMMA DeltaCore ==
    ASSUME NEW v \in Views, NEW d \in Activity, d.kind = "delta"
    PROVE  SameCore(ApplyDelta(v, d), v)
<1>1. PICK its \in Seq(Rows), g \in BOOLEAN :
        ApplyDelta(v, d) = [v EXCEPT !.items = its, !.hasGap = g]
  BY ApplyDeltaType
<1> QED BY <1>1 DEF SameCore, Views

LEMMA PendingCore ==
    ASSUME NEW v \in Views, NEW w \in Views, SameCore(v, w), NEW r \in Requests
    PROVE  SameCore(OpenPending(v, r), OpenPending(w, r)) /\ SameCore(ClosePending(v, r), ClosePending(w, r))
<1>1. ASSUME NEW x \in Views, NEW y \in Views, SameCore(x, y)
      PROVE  SameCore(SettleAfterPending(x), SettleAfterPending(y))
  BY <1>1 DEF SettleAfterPending, Cards, Views, SameCore
<1>2. [v EXCEPT !.approvals = @ \ {r}, !.userInputs = @ \ {r}] \in Views
  BY DEF Views
<1>3. [w EXCEPT !.approvals = @ \ {r}, !.userInputs = @ \ {r}] \in Views
  BY DEF Views
<1>4. SameCore([v EXCEPT !.approvals = @ \ {r}, !.userInputs = @ \ {r}],
               [w EXCEPT !.approvals = @ \ {r}, !.userInputs = @ \ {r}])
  BY DEF SameCore, Views
<1>5. SameCore(OpenPending(v, r), OpenPending(w, r))
  BY DEF OpenPending, SameCore, Views
<1> QED BY <1>1, <1>2, <1>3, <1>4, <1>5 DEF ClosePending

LEMMA FoldCore ==
    ASSUME NEW v \in Views, NEW w \in Views, SameCore(v, w), NEW ev \in WireEvent
    PROVE  SameCore(FoldOne(v, ev), FoldOne(w, ev))
<1> DEFINE e == ev.event
<1>0. e \in LogEvent /\ ev.seq \in Nat
  BY DEF WireEvent
<1> HIDE DEF e
<1>1. CASE e.type \in {"archiveRequested", "archiveFailed", "archived", "resumed", "created",
                       "runtimeModeSet"}
  BY <1>1 DEF e, FoldOne, ArchiveSeen, Views, SameCore
<1>2. CASE e.type = "responseRequested"
  <2>1. /\ e.request \in Requests
        /\ FoldOne(v, ev) = Answered(v, ev.seq, e.request)
        /\ FoldOne(w, ev) = Answered(w, ev.seq, e.request)
    BY <1>0, <1>2, EventFacts DEF e, FoldOne
  <2>2. PICK x \in Views, y \in Views :
          /\ x = IF e.request \in Questions THEN Row(v, ev.seq, "question") ELSE v
          /\ y = IF e.request \in Questions THEN Row(w, ev.seq, "question") ELSE w
    BY <1>0, RowType
  <2>3. SameCore(x, y)
    BY <1>0, <2>2, RowCore DEF SameCore
  <2> QED BY <2>1, <2>2, <2>3, PendingCore DEF Answered
<1>3. CASE e.type = "turnStartRequested"
  <2>1. PICK x \in Views, y \in Views :
          x = Row(v, ev.seq, "user") /\ y = Row(w, ev.seq, "user")
    BY <1>0, RowType
  <2>2. SameCore(x, v) /\ SameCore(y, w)
    BY <1>0, <2>1, RowCore
  <2>3. /\ FoldOne(v, ev) = [x EXCEPT !.status = IF v.archived THEN @ ELSE "running"]
        /\ FoldOne(w, ev) = [y EXCEPT !.status = IF w.archived THEN @ ELSE "running"]
    BY <1>3, <2>1 DEF e, FoldOne
  <2> QED BY <2>2, <2>3 DEF Views, SameCore
<1>4. CASE e.type = "sessionSet" /\ ~v.archived
  <2>1. PICK ch \in SessionChanges : ch = e.change
    BY <1>0, <1>4, EventFacts
  <2>2. FoldOne(v, ev) = SessionSeen(v, ch) /\ FoldOne(w, ev) = SessionSeen(w, ch)
    BY <1>4, <2>1 DEF e, FoldOne, SameCore
  <2>3. PICK x, y : /\ x = IF ch.status = None THEN v ELSE [v EXCEPT !.status = ch.status]
                    /\ y = IF ch.status = None THEN w ELSE [w EXCEPT !.status = ch.status]
    OBVIOUS
  <2>4. x \in Views /\ y \in Views /\ SameCore(x, y)
    BY <2>3, ChangeFacts DEF Views, SameCore
  <2>5. /\ SessionSeen(v, ch) = IF ch.remove = None THEN x ELSE ClosePending(x, ch.remove)
        /\ SessionSeen(w, ch) = IF ch.remove = None THEN y ELSE ClosePending(y, ch.remove)
    BY <2>3 DEF SessionSeen
  <2>6. ch.remove # None => ch.remove \in Requests
    BY ChangeFacts
  <2> QED BY <2>2, <2>4, <2>5, <2>6, PendingCore
<1>5. CASE e.type = "activityAppended" /\ ~(v.archived /\ Forwarded(e))
  <2>1. PICK b \in Activity : b = e.body
    BY <1>0, <1>5, EventFacts
  <2>2. /\ FoldOne(v, ev) = ActivitySeen(v, ev.seq, b)
        /\ FoldOne(w, ev) = ActivitySeen(w, ev.seq, b)
    BY <1>5, <2>1 DEF e, FoldOne, SameCore
  <2>3. CASE b.kind = "delta"
    <3>1. FoldOne(v, ev) = ApplyDelta(v, b) /\ FoldOne(w, ev) = ApplyDelta(w, b)
      BY <2>2, <2>3 DEF ActivitySeen
    <3> QED BY <2>3, <3>1, DeltaCore DEF SameCore
  <2>4. CASE b.kind \in {"error", "reactorError"}
    <3>1. PICK x \in Views, y \in Views :
            x = Row(v, ev.seq, "error") /\ y = Row(w, ev.seq, "error")
      BY <1>0, RowType
    <3>2. SameCore(x, v) /\ SameCore(y, w)
      BY <1>0, <3>1, RowCore
    <3>3. PICK s \in BOOLEAN :
            /\ FoldOne(v, ev) = [x EXCEPT !.status = IF @ = "running" /\ s THEN "idle" ELSE @]
            /\ FoldOne(w, ev) = [y EXCEPT !.status = IF @ = "running" /\ s THEN "idle" ELSE @]
      BY <2>2, <2>4, <3>1 DEF ActivitySeen, Failed, Views, SameCore
    <3> QED BY <3>2, <3>3 DEF Views, SameCore
  <2>5. CASE b.kind = "opened"
    <3>1. FoldOne(v, ev) = OpenPending(v, b.request) /\ FoldOne(w, ev) = OpenPending(w, b.request)
      BY <2>2, <2>5 DEF ActivitySeen
    <3> QED BY <2>5, <3>1, BodyFacts, PendingCore
  <2>6. CASE b.kind = "resolved"
    <3>1. FoldOne(v, ev) = ClosePending(v, b.request) /\ FoldOne(w, ev) = ClosePending(w, b.request)
      BY <2>2, <2>6 DEF ActivitySeen
    <3> QED BY <2>6, <3>1, BodyFacts, PendingCore
  <2> QED BY <2>3, <2>4, <2>5, <2>6, BodyFacts
<1>6. CASE /\ e.type \notin {"archiveRequested", "archiveFailed", "archived", "resumed", "created",
                             "runtimeModeSet", "responseRequested", "turnStartRequested"}
           /\ ~(e.type = "sessionSet" /\ ~v.archived)
           /\ ~(e.type = "activityAppended" /\ ~(v.archived /\ Forwarded(e)))
  <2>1. FoldOne(v, ev) = v /\ FoldOne(w, ev) = w
    BY <1>6 DEF e, FoldOne, SameCore
  <2> QED BY <2>1
<1> QED BY <1>1, <1>2, <1>3, <1>4, <1>5, <1>6

-----------------------------------------------------------------------------
(***************************************************************************)
(* The view of somebody who was there from the start: the first n events   *)
(* of log l, folded one by one.                                            *)
(***************************************************************************)

Entry(l, n) == [seq |-> n, event |-> l[n]]
Batch(l, lo, hi) == [k \in 1..(hi - lo + 1) |-> [seq |-> lo + k - 1, event |-> l[lo + k - 1]]]
At(l, n) == ReduceAgentEvents(EmptyView, Batch(l, 1, n))

\* Loops over the same events do the same.
LEMMA SameTurns ==
    ASSUME NEW v, NEW s, NEW t, NEW n \in Nat, NEW m \in Nat, NEW f, NEW g,
           n <= m, \A k \in 1..n : s[k] = t[k], Reducing(f, v, s, n), Reducing(g, v, t, m)
    PROVE  f[n] = g[n]
<1> DEFINE S == {k \in Nat : k <= n => f[k] = g[k]}
<1>0. ASSUME NEW k \in 0..n
      PROVE  f[k] = ReduceTurn(f, v, s, k) /\ g[k] = ReduceTurn(g, v, t, k)
  <2>1. f[k] = ReduceTurn(f, v, s, k)
    BY DEF Reducing
  <2>2. k \in 0..m
    OBVIOUS
  <2>3. g[k] = ReduceTurn(g, v, t, k)
    BY <2>2 DEF Reducing
  <2> QED BY <2>1, <2>3
<1>1. 0 \in S
  <2>1. 0 \in 0..n
    OBVIOUS
  <2>2. f[0] = ReduceTurn(f, v, s, 0) /\ g[0] = ReduceTurn(g, v, t, 0)
    BY <1>0, <2>1
  <2>3. f[0] = v /\ g[0] = v
    BY <2>2 DEF ReduceTurn
  <2> QED BY <2>3
<1>2. ASSUME NEW k \in Nat, k \in S PROVE k + 1 \in S
  <2> SUFFICES ASSUME k + 1 <= n PROVE f[k + 1] = g[k + 1]
    OBVIOUS
  <2>1. f[k] = g[k] /\ k + 1 # 0 /\ (k + 1) - 1 = k
    BY <1>2
  <2>2. s[k + 1] = t[k + 1]
    OBVIOUS
  <2>3. ReduceTurn(f, v, s, k + 1) = ReduceTurn(g, v, t, k + 1)
    BY <2>1, <2>2 DEF ReduceTurn
  <2>4. f[k + 1] = ReduceTurn(f, v, s, k + 1) /\ g[k + 1] = ReduceTurn(g, v, t, k + 1)
    BY <1>0
  <2> QED BY <2>3, <2>4
<1> HIDE DEF S
<1>3. \A k \in Nat : k \in S
  BY <1>1, <1>2, Induction
<1> QED BY <1>3 DEF S

LEMMA BatchType ==
    ASSUME NEW l \in Seq(LogEvent), NEW lo \in Nat \ {0}, NEW hi \in Nat, hi <= Len(l), lo <= hi + 1
    PROVE  Batch(l, lo, hi) \in Seq(WireEvent) /\ Len(Batch(l, lo, hi)) = hi - lo + 1
<1> DEFINE b == Batch(l, lo, hi)
           n == hi - lo + 1
<1>1. n \in Nat /\ \A k \in 1..n : lo + k - 1 \in 1..Len(l)
  OBVIOUS
<1>2. \A k \in 1..n : b[k] \in WireEvent
  BY <1>1 DEF Batch, WireEvent
<1>3. b = [k \in 1..n |-> b[k]]
  BY DEF Batch
<1> HIDE DEF b, n
<1>4. b \in [1..n -> WireEvent]
  BY <1>2, <1>3
<1>5. b \in Seq(WireEvent) /\ Len(b) = n
  BY <1>1, <1>4
<1> QED BY <1>5 DEF b, n

LEMMA AtStart == ASSUME NEW l PROVE At(l, 0) = EmptyView
<1> DEFINE b == Batch(l, 1, 0)
<1>1. b = <<>>
  BY DEF Batch
<1>2. Len(b) = 0
  BY <1>1
<1> HIDE DEF b
<1>3. PICK f : Reducing(f, EmptyView, b, 0) /\ ReduceAgentEvents(EmptyView, b) = f[0]
  BY <1>2, Reduced
<1>4. f[0] = EmptyView
  BY <1>3 DEF Reducing, ReduceTurn
<1> QED BY <1>3, <1>4 DEF At, b

LEMMA AtStep ==
    ASSUME NEW l \in Seq(LogEvent), NEW n \in Nat, n < Len(l)
    PROVE  At(l, n + 1) = [FoldOne(At(l, n), Entry(l, n + 1)) EXCEPT !.lastSeq = n + 1]
<1> DEFINE s == Batch(l, 1, n)
           t == Batch(l, 1, n + 1)
<1>1. /\ Len(s) = n /\ Len(t) = n + 1 /\ t[n + 1] = Entry(l, n + 1)
      /\ \A k \in 1..n : s[k] = t[k]
  <2>1. n <= Len(l) /\ n + 1 <= Len(l) /\ 1 <= n + 1 /\ 1 <= (n + 1) + 1 /\ n + 1 \in Nat
    OBVIOUS
  <2>2. Len(s) = (n - 1) + 1 /\ Len(t) = ((n + 1) - 1) + 1
    BY <2>1, BatchType
  <2>3. ASSUME NEW k \in 1..(n + 1) PROVE t[k] = Entry(l, k)
    BY DEF Batch, Entry
  <2>4. ASSUME NEW k \in 1..n PROVE s[k] = Entry(l, k)
    BY DEF Batch, Entry
  <2> HIDE DEF s, t
  <2> QED BY <2>2, <2>3, <2>4
<1>2. At(l, n) = ReduceAgentEvents(EmptyView, s) /\ At(l, n + 1) = ReduceAgentEvents(EmptyView, t)
  BY DEF At
<1> HIDE DEF s, t
<1>3. PICK f : Reducing(f, EmptyView, s, n) /\ At(l, n) = f[n]
  BY <1>1, <1>2, Reduced
<1>4. PICK g : Reducing(g, EmptyView, t, n + 1) /\ At(l, n + 1) = g[n + 1]
  BY <1>1, <1>2, Reduced
<1>5. f[n] = g[n]
  <2>1. PICK m \in Nat : m = n + 1
    OBVIOUS
  <2>2. n <= m /\ Reducing(g, EmptyView, t, m)
    BY <1>4, <2>1
  <2>3. Reducing(f, EmptyView, s, n) /\ \A k \in 1..n : s[k] = t[k]
    BY <1>1, <1>3
  <2>4. f[n] = g[n]
    BY <2>2, <2>3, SameTurns
  <2> QED BY <2>4
<1>6. g[n + 1] = ReduceTurn(g, EmptyView, t, n + 1)
  BY <1>4 DEF Reducing
<1>7. t[n + 1].seq = n + 1 /\ EmptyView.lastSeq = 0 /\ (n + 1) - 1 = n
  BY <1>1 DEF Entry, EmptyView
<1> QED BY <1>1, <1>3, <1>4, <1>5, <1>6, <1>7 DEF ReduceTurn

LEMMA EntryType ==
    ASSUME NEW l \in Seq(LogEvent), NEW n \in 1..Len(l)
    PROVE  /\ Entry(l, n) \in WireEvent /\ l[n] \in LogEvent
           /\ Entry(l, n).seq = n /\ Entry(l, n).event = l[n]
BY DEF Entry, WireEvent

LEMMA AtType ==
    ASSUME NEW l \in Seq(LogEvent)
    PROVE  \A n \in 0..Len(l) : At(l, n) \in Views /\ At(l, n).lastSeq = n
<1> DEFINE S == {n \in Nat : n <= Len(l) => At(l, n) \in Views /\ At(l, n).lastSeq = n}
<1>1. 0 \in S
  <2>1. At(l, 0) = EmptyView
    BY AtStart
  <2>2. EmptyView \in Views /\ EmptyView.lastSeq = 0
    BY EmptyViewType DEF EmptyView
  <2> QED BY <2>1, <2>2
<1>2. ASSUME NEW n \in Nat, n \in S PROVE n + 1 \in S
  <2> SUFFICES ASSUME n + 1 <= Len(l) PROVE At(l, n + 1) \in Views /\ At(l, n + 1).lastSeq = n + 1
    OBVIOUS
  <2>1. At(l, n) \in Views
    BY <1>2
  <2>2. PICK w : w = FoldOne(At(l, n), Entry(l, n + 1))
    OBVIOUS
  <2>3. w \in Views
    BY <2>1, <2>2, EntryType, FoldOneType
  <2>4. At(l, n + 1) = [w EXCEPT !.lastSeq = n + 1]
    BY <2>2, AtStep
  <2> QED BY <2>3, <2>4 DEF Views
<1> HIDE DEF S
<1>3. \A n \in Nat : n \in S
  BY <1>1, <1>2, Induction
<1> QED BY <1>3 DEF S

\* What is logged later does not change it.
LEMMA AtAppend ==
    ASSUME NEW l \in Seq(LogEvent), NEW es \in Seq(LogEvent), NEW n \in 0..Len(l)
    PROVE  At(l \o es, n) = At(l, n)
<1>1. \A k \in 1..n : (l \o es)[k] = l[k]
  OBVIOUS
<1>2. Batch(l \o es, 1, n) = Batch(l, 1, n)
  BY <1>1 DEF Batch
<1> QED BY <1>2 DEF At

-----------------------------------------------------------------------------
(***************************************************************************)
(* Runs of deltas.  Folding a run delta by delta, and folding what the     *)
(* replay makes of it, come to the same.                                   *)
(***************************************************************************)

\* What goes into a log: no delta in it is merged.
RawEvent == {e \in LogEvent : IsDelta(e) => \E i \in Items, n \in Nat : e.body = Delta(i, n)}

\* A run of n deltas of item i, numbered from a.
RunBody(i, a, n) ==
    [kind |-> "delta", item |-> i, first |-> a, sequence |-> a + n - 1,
     text |-> [k \in 1..n |-> a + k - 1]]
RunEvent(i, a, n) == [type |-> "activityAppended", body |-> RunBody(i, a, n)]

LEMMA NewRow ==
    ASSUME NEW r \in Rows, NEW t \in Seq(Nat), NEW n \in Nat
    PROVE  [r EXCEPT !.text = t, !.last = n] = [id |-> r.id, kind |-> r.kind, text |-> t, last |-> n]
<1>1. PICK x \in Rows : x = [r EXCEPT !.text = t, !.last = n]
  BY DEF Rows
<1>2. PICK y \in Rows : y = [id |-> r.id, kind |-> r.kind, text |-> t, last |-> n]
  BY DEF Rows
<1>3. x.id = y.id /\ x.kind = y.kind /\ x.text = y.text /\ x.last = y.last
  BY <1>1, <1>2 DEF Rows
<1>4. x = y
  BY <1>3 DEF Rows
<1> QED BY <1>1, <1>2, <1>4

LEMMA RunType ==
    ASSUME NEW i \in Items, NEW a \in Nat, NEW n \in Nat \ {0}
    PROVE  /\ RunBody(i, a, n) \in Activity /\ RunEvent(i, a, n) \in LogEvent
           /\ RunBody(i, a, n).kind = "delta" /\ RunBody(i, a, n).item = i
           /\ RunBody(i, a, n).first = a /\ RunBody(i, a, n).sequence = a + n - 1
           /\ RunBody(i, a, n).text \in Seq(Nat)
           /\ RunEvent(i, a, n).type = "activityAppended"
           /\ RunEvent(i, a, n).body = RunBody(i, a, n)
<1>1. PICK t : t = [k \in 1..n |-> a + k - 1]
  OBVIOUS
<1>2. t \in Seq(Nat)
  BY <1>1
<1>3. RunBody(i, a, n) = [kind |-> "delta", item |-> i, first |-> a, sequence |-> a + n - 1, text |-> t]
  BY <1>1 DEF RunBody
<1>4. a + n - 1 \in Nat
  OBVIOUS
<1>5. RunBody(i, a, n) \in Activity
  BY <1>2, <1>3, <1>4 DEF Activity
<1> QED BY <1>2, <1>3, <1>5 DEF RunEvent, LogEvent

LEMMA RunOfOne ==
    ASSUME NEW i \in Items, NEW a \in Nat
    PROVE  RunBody(i, a, 1) = Delta(i, a)
<1>1. [k \in 1..1 |-> a + k - 1] = <<a>>
  OBVIOUS
<1>2. a + 1 - 1 = a
  OBVIOUS
<1> QED BY <1>1, <1>2 DEF RunBody, Delta

LEMMA RunGrows ==
    ASSUME NEW i \in Items, NEW a \in Nat, NEW n \in Nat \ {0}
    PROVE  RunBody(i, a, n).text \o <<a + n>> = RunBody(i, a, n + 1).text
<1>1. PICK t : t = [k \in 1..n |-> a + k - 1]
  OBVIOUS
<1>2. PICK u : u = [k \in 1..(n + 1) |-> a + k - 1]
  OBVIOUS
<1>3. RunBody(i, a, n).text = t /\ RunBody(i, a, n + 1).text = u
  BY <1>1, <1>2 DEF RunBody
<1>4. t \in Seq(Nat) /\ Len(t) = n
  BY <1>1
<1>5. u \in Seq(Nat) /\ Len(u) = n + 1
  BY <1>2
<1>6. PICK w : w = t \o <<a + n>>
  OBVIOUS
<1>7. /\ w \in Seq(Nat) /\ Len(w) = n + 1 /\ w[n + 1] = a + n
      /\ \A k \in 1..n : w[k] = t[k]
  BY <1>4, <1>6
<1>8. ASSUME NEW k \in 1..(n + 1) PROVE w[k] = u[k]
  <2>1. u[k] = a + k - 1
    BY <1>2
  <2>2. CASE k \in 1..n
    <3>1. t[k] = a + k - 1
      BY <1>1, <2>2
    <3>2. w[k] = t[k]
      BY <1>7, <2>2
    <3> QED BY <2>1, <3>1, <3>2
  <2>3. CASE k = n + 1
    <3>1. w[k] = a + n /\ u[k] = a + (n + 1) - 1
      BY <1>7, <2>1, <2>3
    <3> QED BY <3>1
  <2> QED BY <2>2, <2>3
<1>9. w = u
  BY <1>5, <1>7, <1>8, SeqEqual
<1> QED BY <1>3, <1>6, <1>9

\* The place of an item does not depend on what its row says.
LEMMA PlaceStays ==
    ASSUME NEW v, NEW w, NEW id, DOMAIN v.items = DOMAIN w.items,
           \A k \in DOMAIN v.items : v.items[k].id = w.items[k].id
    PROVE  Held(v, id) = Held(w, id) /\ Place(v, id) = Place(w, id)
<1>1. Places(v, id) = Places(w, id)
  BY DEF Places
<1> QED BY <1>1 DEF Held, Place

LEMMA PlaceIsOne ==
    ASSUME NEW v, NEW id, DOMAIN v.items \subseteq Nat, Held(v, id)
    PROVE  Place(v, id) \in DOMAIN v.items /\ v.items[Place(v, id)].id = id
<1>1. Places(v, id) # {} /\ Places(v, id) \subseteq Nat
  BY DEF Held, Places
<1>2. PICK k \in Places(v, id) : \A j \in Places(v, id) : k <= j
  BY <1>1, Least
<1>3. Place(v, id) \in Places(v, id)
  BY <1>2 DEF Place, First
<1> QED BY <1>3 DEF Places

\* For runs' texts, the library's theorem.
LEMMA TextsJoin ==
    ASSUME NEW x \in Seq(Nat), NEW y \in Seq(Nat), NEW z \in Seq(Nat)
    PROVE  (x \o y) \o z = x \o (y \o z)
<1>1. PICK S : S = Nat
  OBVIOUS
<1>2. x \in Seq(S) /\ y \in Seq(S) /\ z \in Seq(S)
  BY <1>1
<1> QED BY <1>2, ConcatAssociative

\* A delta that continues a run just applied: as if it had been in the run.
LEMMA DeltaTwice ==
    ASSUME NEW v \in Views, NEW i \in Items, NEW a \in Nat, NEW n \in Nat \ {0}
    PROVE  ApplyDelta(ApplyDelta(v, RunBody(i, a, n)), RunBody(i, a + n, 1))
             = ApplyDelta(v, RunBody(i, a, n + 1))
<1> DEFINE b == RunBody(i, a, n)
           d == RunBody(i, a + n, 1)
           m == RunBody(i, a, n + 1)
<1>1. /\ b.item = i /\ b.first = a /\ b.sequence = a + n - 1 /\ b.text \in Seq(Nat)
      /\ b \in Activity /\ b.kind = "delta"
  <2>1. RunBody(i, a, n) \in Activity /\ RunBody(i, a, n).text \in Seq(Nat)
    BY RunType
  <2> QED BY <2>1 DEF RunBody
<1>2. /\ m.item = i /\ m.first = a /\ m.sequence = a + n /\ m.text = b.text \o <<a + n>>
  <2>1. n + 1 \in Nat \ {0} /\ a + (n + 1) - 1 = a + n
    OBVIOUS
  <2> HIDE DEF b, d
  <2>2. m.item = i /\ m.first = a /\ m.sequence = a + (n + 1) - 1
    BY <2>1, RunType
  <2>3. m.text = b.text \o <<a + n>>
    BY RunGrows DEF b
  <2> QED BY <2>1, <2>2, <2>3
<1>3. /\ d.item = i /\ d.first = a + n /\ d.sequence = a + n /\ d.text = <<a + n>>
  BY RunOfOne DEF Delta
<1> HIDE DEF b, d, m
<1>4. v.items \in Seq(Rows) /\ v.hasGap \in BOOLEAN
  BY DEF Views
<1>5. <<a + n>> \in Seq(Nat)
  OBVIOUS
<1>6. PICK w \in Views : w = ApplyDelta(v, b)
  BY <1>1, ApplyDeltaType
<1>7. CASE ~Held(v, i)
  <2>1. PICK row : row = [id |-> i, kind |-> "assistant", text |-> b.text, last |-> b.sequence]
    OBVIOUS
  <2>2. row \in Rows
    BY <1>1, <2>1 DEF Rows
  <2>3. PICK its : its = Append(v.items, row)
    OBVIOUS
  <2>4. w = [v EXCEPT !.items = its]
    BY <1>1, <1>6, <1>7, <2>1, <2>3 DEF ApplyDelta
  <2>5. w.items = its /\ w.hasGap = v.hasGap
    BY <2>4 DEF Views
  <2>6. PICK k \in Nat : k = Len(v.items) + 1
    BY <1>4
  <2>7. /\ its \in Seq(Rows) /\ DOMAIN its = 1..k /\ its[k] = row
        /\ \A j \in 1..k : j # k => j \in DOMAIN v.items /\ its[j] = v.items[j]
    BY <1>4, <2>2, <2>3, <2>6
  <2>8. \A j \in DOMAIN v.items : v.items[j].id # i
    BY <1>7 DEF Held, Places
  <2>9. Held(w, i)
    BY <2>1, <2>5, <2>6, <2>7 DEF Held, Places
  <2>10. Place(w, i) = k
    <3>1. Place(w, i) \in 1..k /\ its[Place(w, i)].id = i
      BY <2>5, <2>7, <2>9, PlaceIsOne
    <3> QED BY <2>7, <2>8, <3>1
  <2>11. PICK row2 : row2 = [id |-> i, kind |-> "assistant", text |-> m.text, last |-> m.sequence]
    OBVIOUS
  <2>12. [row EXCEPT !.text = @ \o d.text, !.last = d.sequence] = row2
    <3>1. PICK t : t = b.text \o <<a + n>>
      OBVIOUS
    <3>2. row.text \o d.text = t /\ d.sequence = a + n
      BY <1>3, <2>1, <3>1
    <3>3. [row EXCEPT !.text = t, !.last = a + n]
            = [id |-> i, kind |-> "assistant", text |-> t, last |-> a + n]
      <4>1. row.id = i /\ row.kind = "assistant"
        BY <2>1
      <4>2. t \in Seq(Nat) /\ a + n \in Nat
        BY <1>1, <3>1
      <4> QED BY <2>2, <4>1, <4>2, NewRow
    <3>4. [row EXCEPT !.text = @ \o d.text, !.last = d.sequence] = [row EXCEPT !.text = t, !.last = a + n]
      BY <3>2
    <3> QED BY <1>2, <2>11, <3>1, <3>3, <3>4
  <2>13. ~(d.first > row.last + 1)
    BY <1>1, <1>3, <2>1
  <2>14. ApplyDelta(w, d) = [w EXCEPT !.items = [its EXCEPT ![k] = row2], !.hasGap = v.hasGap]
    <3>1. ApplyDelta(w, d) =
            [w EXCEPT !.items[k] = [row EXCEPT !.text = @ \o d.text, !.last = d.sequence],
                      !.hasGap = @ \/ d.first > row.last + 1]
      BY <1>3, <2>5, <2>7, <2>9, <2>10 DEF ApplyDelta
    <3>2. (w.hasGap \/ d.first > row.last + 1) = v.hasGap
      BY <1>4, <2>5, <2>13
    <3> QED BY <2>5, <2>12, <3>1, <3>2 DEF Views
  <2>15. [its EXCEPT ![k] = row2] = Append(v.items, row2)
    <3>1. row2 \in Rows
      <4>1. m.text \in Seq(Nat) /\ m.sequence \in Nat
        BY <1>1, <1>2, <1>5
      <4> QED BY <2>11, <4>1 DEF Rows
    <3>2. /\ [its EXCEPT ![k] = row2] \in Seq(Rows) /\ Len([its EXCEPT ![k] = row2]) = k
          /\ \A j \in 1..k : [its EXCEPT ![k] = row2][j] = IF j = k THEN row2 ELSE its[j]
      <4>1. k \in DOMAIN its /\ Len(its) = k
        BY <1>4, <2>2, <2>3, <2>6, <2>7
      <4> QED BY <2>7, <3>1, <4>1, Replaced
    <3>3. /\ Append(v.items, row2) \in Seq(Rows) /\ Len(Append(v.items, row2)) = k
          /\ Append(v.items, row2)[k] = row2
          /\ \A j \in 1..k : j # k => Append(v.items, row2)[j] = v.items[j]
      BY <1>4, <2>6, <3>1
    <3>4. \A j \in 1..k : [its EXCEPT ![k] = row2][j] = Append(v.items, row2)[j]
      BY <2>7, <3>2, <3>3
    <3> QED BY <3>2, <3>3, <3>4, SeqEqual
  <2>16. ApplyDelta(v, m) = [v EXCEPT !.items = Append(v.items, row2)]
    BY <1>2, <1>7, <2>11 DEF ApplyDelta
  <2>17. [w EXCEPT !.items = Append(v.items, row2), !.hasGap = v.hasGap] = [v EXCEPT !.items = Append(v.items, row2)]
    BY <2>4 DEF Views
  <2> QED BY <1>6, <2>14, <2>15, <2>16, <2>17 DEF b, d, m
<1>8. CASE Held(v, i)
  <2>1. PICK k : k = Place(v, i)
    OBVIOUS
  <2>2. k \in DOMAIN v.items
    BY <1>4, <1>8, <2>1, PlaceIsOne
  <2>3. PICK old \in Rows : old = v.items[k]
    BY <1>4, <2>2
  <2>4. PICK row : row = [old EXCEPT !.text = @ \o b.text, !.last = b.sequence]
    OBVIOUS
  <2>5. row \in Rows
    <3>1. PICK t \in Seq(Nat) : t = old.text \o b.text
      <4>1. old.text \in Seq(Nat)
        BY <2>3 DEF Rows
      <4>2. old.text \o b.text \in Seq(Nat)
        BY <1>1, <4>1
      <4> QED BY <4>2
    <3>2. row = [old EXCEPT !.text = t, !.last = b.sequence] /\ b.sequence \in Nat
      BY <1>1, <2>4, <3>1
    <3> QED BY <2>3, <3>1, <3>2 DEF Rows
  <2>6. PICK its : its = [v.items EXCEPT ![k] = row]
    OBVIOUS
  <2>7. /\ its \in Seq(Rows) /\ DOMAIN its = DOMAIN v.items /\ its[k] = row
        /\ \A j \in DOMAIN v.items : j # k => its[j] = v.items[j]
    BY <1>4, <2>2, <2>5, <2>6, Replaced
  <2>8. w = [v EXCEPT !.items = its, !.hasGap = @ \/ b.first > old.last + 1]
    BY <1>1, <1>6, <1>8, <2>1, <2>3, <2>4, <2>6 DEF ApplyDelta, Views
  <2>9. w.items = its /\ w.hasGap = (v.hasGap \/ a > old.last + 1)
    BY <1>1, <2>8 DEF Views
  <2>10. Held(w, i) /\ Place(w, i) = k
    <3>1. \A j \in DOMAIN v.items : v.items[j].id = w.items[j].id
      <4>1. row.id = old.id
        BY <2>3, <2>4 DEF Rows
      <4> QED BY <2>3, <2>7, <2>9, <4>1
    <3> QED BY <1>8, <2>1, <2>7, <2>9, <3>1, PlaceStays
  <2>11. PICK row2 : row2 = [old EXCEPT !.text = @ \o m.text, !.last = m.sequence]
    OBVIOUS
  <2>12. [row EXCEPT !.text = @ \o d.text, !.last = d.sequence] = row2
    <3>1. old.text \in Seq(Nat)
      BY <2>3 DEF Rows
    <3>2. (old.text \o b.text) \o d.text = old.text \o m.text
      <4>1. (old.text \o b.text) \o <<a + n>> = old.text \o (b.text \o <<a + n>>)
        <5>1. PICK x \in Seq(Nat), y \in Seq(Nat), z \in Seq(Nat) :
                x = old.text /\ y = b.text /\ z = <<a + n>>
          BY <1>1, <1>5, <3>1
        <5>2. (x \o y) \o z = x \o (y \o z)
          BY TextsJoin
        <5> QED BY <5>1, <5>2
      <4> QED BY <1>2, <1>3, <4>1
    <3>3. PICK t, u : t = old.text \o b.text /\ u = old.text \o m.text
      OBVIOUS
    <3>4. row = [old EXCEPT !.text = t, !.last = b.sequence] /\ row.text = t
      BY <2>3, <2>4, <3>3 DEF Rows
    <3>5. [row EXCEPT !.text = @ \o d.text, !.last = d.sequence] = [row EXCEPT !.text = u, !.last = a + n]
      BY <1>3, <3>2, <3>3, <3>4
    <3>6. row2 = [old EXCEPT !.text = u, !.last = a + n]
      BY <1>2, <2>11, <3>3
    <3> QED BY <2>3, <3>4, <3>5, <3>6 DEF Rows
  <2>13. ~(d.first > row.last + 1)
    <3>1. row.last = a + n - 1
      BY <1>1, <2>3, <2>4 DEF Rows
    <3> QED BY <1>3, <3>1
  <2>14. ApplyDelta(w, d) = [w EXCEPT !.items = [its EXCEPT ![k] = row2], !.hasGap = @]
    <3>1. ApplyDelta(w, d) =
            [w EXCEPT !.items[k] = [row EXCEPT !.text = @ \o d.text, !.last = d.sequence],
                      !.hasGap = @ \/ d.first > row.last + 1]
      BY <1>3, <2>7, <2>9, <2>10 DEF ApplyDelta
    <3>2. w.hasGap \in BOOLEAN
      BY DEF Views
    <3>3. (w.hasGap \/ d.first > row.last + 1) = w.hasGap
      BY <2>13, <3>2
    <3> QED BY <2>9, <2>12, <3>1, <3>3 DEF Views
  <2>15. [its EXCEPT ![k] = row2] = [v.items EXCEPT ![k] = row2]
    BY <2>6
  <2>16. ApplyDelta(v, m) = [v EXCEPT !.items = [v.items EXCEPT ![k] = row2],
                                      !.hasGap = @ \/ a > old.last + 1]
    BY <1>2, <1>8, <2>1, <2>3, <2>11 DEF ApplyDelta, Views
  <2>17. PICK its2 : its2 = [v.items EXCEPT ![k] = row2]
    OBVIOUS
  <2>18. [w EXCEPT !.items = its2, !.hasGap = @] = [v EXCEPT !.items = its2, !.hasGap = @ \/ a > old.last + 1]
    BY <1>1, <2>8 DEF Views
  <2> QED BY <1>6, <2>14, <2>15, <2>16, <2>17, <2>18 DEF b, d, m
<1> QED BY <1>7, <1>8

-----------------------------------------------------------------------------
(***************************************************************************)
(* What the wire may carry in place of log l's events lo+1 to ev.seq.      *)
(***************************************************************************)

\* Events lo+1 to hi of l are deltas of i, one after the other from the a-th on.
Run(l, lo, hi, i, a) == \A k \in (lo + 1)..hi : l[k] = RunEvent(i, a + k - lo - 1, 1)

\* ev is the next event of l, or a run of deltas from there made one.
Stands(l, lo, ev) ==
    /\ lo \in Nat /\ ev \in WireEvent /\ ev.seq \in (lo + 1)..Len(l)
    /\ \/ ev.seq = lo + 1 /\ ev.event = l[ev.seq]
       \/ \E i \in Items, a \in Nat :
            Run(l, lo, ev.seq, i, a) /\ ev.event = RunEvent(i, a, ev.seq - lo)

LEMMA FoldDelta ==
    ASSUME NEW v \in Views, NEW s, NEW b \in Activity, b.kind = "delta"
    PROVE  FoldOne(v, [seq |-> s, event |-> [type |-> "activityAppended", body |-> b]])
             = ApplyDelta(v, b)
<1>1. PICK e : e = [type |-> "activityAppended", body |-> b]
  OBVIOUS
<1>2. PICK ev : ev = [seq |-> s, event |-> e]
  OBVIOUS
<1>3. ev.event = e /\ ev.seq = s /\ e.type = "activityAppended" /\ e.body = b
  BY <1>1, <1>2
<1>4. ~Forwarded(e)
  BY <1>3 DEF Forwarded
<1>5. FoldOne(v, ev) = ActivitySeen(v, s, b)
  BY <1>3, <1>4 DEF FoldOne
<1>6. FoldOne(v, ev) = ApplyDelta(v, b)
  BY <1>5 DEF ActivitySeen
<1> QED BY <1>1, <1>2, <1>6

\* Where a view has got to is nothing to a delta.
LEMMA DeltaAnywhere ==
    ASSUME NEW v \in Views, NEW n \in Nat, NEW d \in Activity, d.kind = "delta"
    PROVE  ApplyDelta([v EXCEPT !.lastSeq = n], d) = [ApplyDelta(v, d) EXCEPT !.lastSeq = n]
<1>1. PICK w : w = [v EXCEPT !.lastSeq = n]
  OBVIOUS
<1>2. w \in Views /\ w.items = v.items /\ w.hasGap = v.hasGap
  BY <1>1 DEF Views
<1>3. Held(w, d.item) = Held(v, d.item) /\ Place(w, d.item) = Place(v, d.item)
  BY <1>2, PlaceStays
<1>4. CASE ~Held(v, d.item)
  <2>1. PICK its : its = Append(v.items, [id |-> d.item, kind |-> "assistant", text |-> d.text,
                                          last |-> d.sequence])
    OBVIOUS
  <2>2. ApplyDelta(v, d) = [v EXCEPT !.items = its]
    BY <1>4, <2>1 DEF ApplyDelta
  <2>3. ApplyDelta(w, d) = [w EXCEPT !.items = its]
    BY <1>2, <1>3, <1>4, <2>1 DEF ApplyDelta
  <2>4. [w EXCEPT !.items = its] = [[v EXCEPT !.items = its] EXCEPT !.lastSeq = n]
    BY <1>1 DEF Views
  <2> QED BY <1>1, <2>2, <2>3, <2>4
<1>5. CASE Held(v, d.item)
  <2>1. PICK k : k = Place(v, d.item)
    OBVIOUS
  <2>2. PICK old : old = v.items[k]
    OBVIOUS
  <2>3. PICK its : its = [v.items EXCEPT ![k] = [old EXCEPT !.text = @ \o d.text, !.last = d.sequence]]
    OBVIOUS
  <2>4. PICK g : g = (v.hasGap \/ d.first > old.last + 1)
    OBVIOUS
  <2>5. ApplyDelta(v, d) = [v EXCEPT !.items = its, !.hasGap = g]
    BY <1>5, <2>1, <2>2, <2>3, <2>4 DEF ApplyDelta, Views
  <2>6. ApplyDelta(w, d) = [w EXCEPT !.items = its, !.hasGap = g]
    BY <1>2, <1>3, <1>5, <2>1, <2>2, <2>3, <2>4 DEF ApplyDelta, Views
  <2>7. [w EXCEPT !.items = its, !.hasGap = g]
          = [[v EXCEPT !.items = its, !.hasGap = g] EXCEPT !.lastSeq = n]
    BY <1>1 DEF Views
  <2> QED BY <1>1, <2>5, <2>6, <2>7
<1> QED BY <1>4, <1>5

\* A run, folded event by event.
LEMMA RunFolds ==
    ASSUME NEW l \in Seq(LogEvent), NEW lo \in Nat, NEW hi \in Nat, lo < hi, hi <= Len(l),
           NEW i \in Items, NEW a \in Nat, Run(l, lo, hi, i, a)
    PROVE  \A n \in 1..(hi - lo) :
             At(l, lo + n) = [ApplyDelta(At(l, lo), RunBody(i, a, n)) EXCEPT !.lastSeq = lo + n]
<1> DEFINE v == At(l, lo)
           S == {n \in Nat : n + 1 <= hi - lo =>
                    At(l, lo + n + 1) = [ApplyDelta(v, RunBody(i, a, n + 1)) EXCEPT !.lastSeq = lo + n + 1]}
<1>1. v \in Views
  BY AtType
<1>2. ASSUME NEW n \in Nat, n + 1 <= hi - lo
      PROVE  At(l, lo + n + 1) =
               [ApplyDelta(At(l, lo + n), RunBody(i, a + n, 1)) EXCEPT !.lastSeq = lo + n + 1]
  <2>1. PICK m \in Nat : m = lo + n
    OBVIOUS
  <2>2. m < Len(l) /\ m + 1 \in (lo + 1)..hi /\ a + (m + 1) - lo - 1 = a + n
    BY <1>2, <2>1
  <2>3. At(l, m + 1) = [FoldOne(At(l, m), Entry(l, m + 1)) EXCEPT !.lastSeq = m + 1]
    BY <2>2, AtStep
  <2>4. l[m + 1] = RunEvent(i, a + n, 1)
    BY <2>2 DEF Run
  <2>5. At(l, m) \in Views
    BY <2>2, AtType
  <2>6. PICK b \in Activity : b = RunBody(i, a + n, 1) /\ b.kind = "delta"
    <3>1. a + n \in Nat /\ 1 \in Nat \ {0}
      OBVIOUS
    <3>2. RunBody(i, a + n, 1) \in Activity /\ RunBody(i, a + n, 1).kind = "delta"
      BY <3>1, RunType
    <3> QED BY <3>2
  <2>7. Entry(l, m + 1) = [seq |-> m + 1, event |-> [type |-> "activityAppended", body |-> b]]
    BY <2>4, <2>6 DEF Entry, RunEvent
  <2>8. FoldOne(At(l, m), Entry(l, m + 1)) = ApplyDelta(At(l, m), b)
    BY <2>5, <2>6, <2>7, FoldDelta
  <2> QED BY <2>1, <2>3, <2>6, <2>8
<1> HIDE DEF v
<1>3. 0 \in S
  <2>1. 0 + 1 <= hi - lo /\ lo + 0 = lo /\ a + 0 = a /\ 0 + 1 = 1 /\ lo + 0 + 1 = lo + 1
    OBVIOUS
  <2>2. At(l, lo + 1) = [ApplyDelta(v, RunBody(i, a, 1)) EXCEPT !.lastSeq = lo + 1]
    BY <1>2, <2>1 DEF v
  <2> QED BY <2>1, <2>2
<1>4. ASSUME NEW n \in Nat, n \in S PROVE n + 1 \in S
  <2> SUFFICES ASSUME (n + 1) + 1 <= hi - lo
               PROVE  At(l, lo + (n + 1) + 1) =
                        [ApplyDelta(v, RunBody(i, a, (n + 1) + 1)) EXCEPT !.lastSeq = lo + (n + 1) + 1]
    OBVIOUS
  <2>1. PICK w : w = ApplyDelta(v, RunBody(i, a, n + 1))
    OBVIOUS
  <2>2. w \in Views
    <3>1. n + 1 \in Nat \ {0}
      OBVIOUS
    <3>2. RunBody(i, a, n + 1) \in Activity /\ RunBody(i, a, n + 1).kind = "delta"
      BY <3>1, RunType
    <3> QED BY <1>1, <2>1, <3>2, ApplyDeltaType
  <2>3. PICK m \in Nat : m = lo + n + 1
    OBVIOUS
  <2>4. At(l, m) = [w EXCEPT !.lastSeq = m]
    BY <1>4, <2>1, <2>3
  <2>5. At(l, m + 1) = [ApplyDelta(At(l, m), RunBody(i, a + (n + 1), 1)) EXCEPT !.lastSeq = m + 1]
    <3>1. lo + (n + 1) = m /\ lo + (n + 1) + 1 = m + 1
      BY <2>3
    <3> QED BY <1>2, <3>1
  <2>6. PICK d \in Activity : d = RunBody(i, a + (n + 1), 1) /\ d.kind = "delta"
    <3>1. a + (n + 1) \in Nat /\ 1 \in Nat \ {0}
      OBVIOUS
    <3>2. RunBody(i, a + (n + 1), 1) \in Activity /\ RunBody(i, a + (n + 1), 1).kind = "delta"
      BY <3>1, RunType
    <3> QED BY <3>2
  <2>7. ApplyDelta(At(l, m), d) = [ApplyDelta(w, d) EXCEPT !.lastSeq = m]
    BY <2>2, <2>4, <2>6, DeltaAnywhere
  <2>8. ApplyDelta(w, d) = ApplyDelta(v, RunBody(i, a, (n + 1) + 1))
    BY <1>1, <2>1, <2>6, DeltaTwice
  <2>9. PICK x \in Views : x = ApplyDelta(w, d)
    BY <2>2, <2>6, ApplyDeltaType
  <2>10. [[x EXCEPT !.lastSeq = m] EXCEPT !.lastSeq = m + 1] = [x EXCEPT !.lastSeq = m + 1]
    BY DEF Views
  <2>11. At(l, m + 1) = [x EXCEPT !.lastSeq = m + 1]
    BY <2>5, <2>6, <2>7, <2>9, <2>10
  <2>12. lo + (n + 1) + 1 = m + 1
    BY <2>3
  <2> QED BY <2>8, <2>9, <2>11, <2>12
<1> HIDE DEF S
<1>5. \A n \in Nat : n \in S
  BY <1>3, <1>4, Induction
<1>6. ASSUME NEW n \in 1..(hi - lo)
      PROVE  At(l, lo + n) = [ApplyDelta(v, RunBody(i, a, n)) EXCEPT !.lastSeq = lo + n]
  <2>1. PICK m \in Nat : m + 1 = n
    <3>1. n - 1 \in Nat /\ (n - 1) + 1 = n
      OBVIOUS
    <3> QED BY <3>1
  <2>2. m + 1 <= hi - lo /\ lo + m + 1 = lo + n
    BY <2>1
  <2>3. At(l, lo + m + 1) = [ApplyDelta(v, RunBody(i, a, m + 1)) EXCEPT !.lastSeq = lo + m + 1]
    BY <1>5, <2>2 DEF S
  <2> QED BY <2>1, <2>2, <2>3
<1> QED BY <1>6 DEF v

\* An event that stands for some of the log does what they do: to the view before
\* them exactly, and to a view part of the way through them but for its transcript.
LEMMA StandsExact ==
    ASSUME NEW l \in Seq(LogEvent), NEW lo, NEW ev, Stands(l, lo, ev)
    PROVE  [FoldOne(At(l, lo), ev) EXCEPT !.lastSeq = ev.seq] = At(l, ev.seq)
<1>0. lo \in Nat /\ ev \in WireEvent /\ ev.seq \in Nat /\ lo < ev.seq /\ ev.seq <= Len(l)
  BY DEF Stands, WireEvent
<1>e. ev = [seq |-> ev.seq, event |-> ev.event]
  BY <1>0 DEF WireEvent
<1>1. CASE ev.seq = lo + 1 /\ ev.event = l[ev.seq]
  <2>1. ev = Entry(l, lo + 1)
    BY <1>1, <1>e DEF Entry
  <2>2. At(l, lo + 1) = [FoldOne(At(l, lo), Entry(l, lo + 1)) EXCEPT !.lastSeq = lo + 1]
    BY <1>0, AtStep
  <2> QED BY <1>1, <2>1, <2>2
<1>2. ASSUME NEW i \in Items, NEW a \in Nat,
             Run(l, lo, ev.seq, i, a), ev.event = RunEvent(i, a, ev.seq - lo)
      PROVE  [FoldOne(At(l, lo), ev) EXCEPT !.lastSeq = ev.seq] = At(l, ev.seq)
  <2>1. PICK n \in Nat : n = ev.seq - lo
    BY <1>0
  <2>2. n \in 1..(ev.seq - lo) /\ lo + n = ev.seq /\ n \in Nat \ {0}
    BY <1>0, <2>1
  <2>3. At(l, lo + n) = [ApplyDelta(At(l, lo), RunBody(i, a, n)) EXCEPT !.lastSeq = lo + n]
    BY <1>0, <1>2, <2>2, RunFolds
  <2>4. At(l, lo) \in Views
    BY <1>0, AtType
  <2>5. PICK b \in Activity : b = RunBody(i, a, n) /\ b.kind = "delta"
    <3>1. n \in Nat \ {0}
      BY <2>2
    <3>2. RunBody(i, a, n) \in Activity /\ RunBody(i, a, n).kind = "delta"
      BY <3>1, RunType
    <3> QED BY <3>2
  <2>6. ev = [seq |-> ev.seq, event |-> [type |-> "activityAppended", body |-> b]]
    BY <1>2, <1>e, <2>1, <2>5 DEF RunEvent
  <2>7. FoldOne(At(l, lo), ev) = ApplyDelta(At(l, lo), b)
    BY <2>4, <2>5, <2>6, FoldDelta
  <2> QED BY <2>2, <2>3, <2>5, <2>7
<1> QED BY <1>1, <1>2 DEF Stands

LEMMA StandsCore ==
    ASSUME NEW l \in Seq(LogEvent), NEW lo, NEW ev, Stands(l, lo, ev),
           NEW n \in Nat, lo <= n, n < ev.seq, NEW v \in Views, SameCore(v, At(l, n))
    PROVE  SameCore(FoldOne(v, ev), At(l, ev.seq))
<1>0. lo \in Nat /\ ev \in WireEvent /\ ev.seq \in Nat /\ lo < ev.seq /\ ev.seq <= Len(l)
  BY DEF Stands, WireEvent
<1>e. ev = [seq |-> ev.seq, event |-> ev.event]
  BY <1>0 DEF WireEvent
<1>1. CASE ev.seq = lo + 1 /\ ev.event = l[ev.seq]
  <2>1. n = lo
    BY <1>0, <1>1
  <2>2. At(l, lo) \in Views
    BY <1>0, AtType
  <2>3. PICK w \in Views : w = FoldOne(At(l, lo), ev)
    BY <1>0, <2>2, FoldOneType
  <2>4. SameCore(FoldOne(v, ev), w)
    BY <1>0, <2>1, <2>2, <2>3, FoldCore
  <2>5. At(l, ev.seq) = [w EXCEPT !.lastSeq = ev.seq]
    BY <2>3, StandsExact
  <2>6. SameCore(w, [w EXCEPT !.lastSeq = ev.seq])
    BY DEF SameCore, Views
  <2> QED BY <2>4, <2>5, <2>6 DEF SameCore
<1>2. ASSUME NEW i \in Items, NEW a \in Nat,
             Run(l, lo, ev.seq, i, a), ev.event = RunEvent(i, a, ev.seq - lo)
      PROVE  SameCore(FoldOne(v, ev), At(l, ev.seq))
  <2>1. ASSUME NEW m \in Nat, lo < m, m <= ev.seq
        PROVE  SameCore(At(l, m), At(l, lo))
    <3>1. m - lo \in 1..(ev.seq - lo) /\ lo + (m - lo) = m /\ m - lo \in Nat \ {0}
      BY <1>0, <2>1
    <3>2. At(l, lo + (m - lo)) = [ApplyDelta(At(l, lo), RunBody(i, a, m - lo)) EXCEPT !.lastSeq = lo + (m - lo)]
      BY <1>0, <1>2, <3>1, RunFolds
    <3>3. At(l, lo) \in Views
      BY <1>0, AtType
    <3>4. PICK b \in Activity : b = RunBody(i, a, m - lo) /\ b.kind = "delta"
      <4>1. PICK k \in Nat \ {0} : k = m - lo
        BY <3>1
      <4>2. RunBody(i, a, k) \in Activity /\ RunBody(i, a, k).kind = "delta"
        BY RunType
      <4> QED BY <4>1, <4>2
    <3>5. PICK w \in Views : w = ApplyDelta(At(l, lo), b)
      BY <3>3, <3>4, ApplyDeltaType
    <3>6. SameCore(w, At(l, lo))
      BY <3>3, <3>4, <3>5, DeltaCore
    <3>7. At(l, m) = [w EXCEPT !.lastSeq = m]
      BY <3>1, <3>2, <3>4, <3>5
    <3>8. SameCore([w EXCEPT !.lastSeq = m], w)
      BY DEF SameCore, Views
    <3> QED BY <3>6, <3>7, <3>8 DEF SameCore
  <2>2. SameCore(At(l, n), At(l, lo))
    BY <1>0, <2>1 DEF SameCore
  <2>3. SameCore(At(l, ev.seq), At(l, lo))
    BY <1>0, <2>1
  <2>4. SameCore(FoldOne(v, ev), v)
    <3>1. PICK k \in Nat \ {0} : k = ev.seq - lo
      BY <1>0
    <3>2. PICK b \in Activity : b = RunBody(i, a, k) /\ b.kind = "delta"
      <4>1. RunBody(i, a, k) \in Activity /\ RunBody(i, a, k).kind = "delta"
        BY RunType
      <4> QED BY <4>1
    <3>3. ev = [seq |-> ev.seq, event |-> [type |-> "activityAppended", body |-> b]]
      BY <1>2, <1>e, <3>1, <3>2 DEF RunEvent
    <3>4. FoldOne(v, ev) = ApplyDelta(v, b)
      BY <3>2, <3>3, FoldDelta
    <3> QED BY <3>2, <3>4, DeltaCore
  <2> QED BY <2>2, <2>3, <2>4 DEF SameCore
<1> QED BY <1>1, <1>2 DEF Stands

-----------------------------------------------------------------------------
(***************************************************************************)
(* Chains: wire events that stand, one after the other and with nothing    *)
(* between them, for what the log has after its place lo.                  *)
(***************************************************************************)

\* Where the first k of them end.
Mark(lo, s, k) == IF k = 0 THEN lo ELSE s[k].seq
EndOf(lo, s) == Mark(lo, s, Len(s))

\* s is l from lo to where s ends.
Chain(l, lo, s) ==
    /\ lo \in 0..Len(l) /\ s \in Seq(WireEvent)
    /\ \A k \in 1..Len(s) : Stands(l, Mark(lo, s, k - 1), s[k])

LEMMA MarkStep ==
    ASSUME NEW l \in Seq(LogEvent), NEW lo, NEW s, Chain(l, lo, s), NEW k \in Nat, k + 1 <= Len(s)
    PROVE  /\ Stands(l, Mark(lo, s, k), s[k + 1]) /\ s[k + 1] \in WireEvent
           /\ Mark(lo, s, k + 1) = s[k + 1].seq
           /\ s[k + 1].seq \in Nat /\ s[k + 1].seq <= Len(l) /\ Mark(lo, s, k) \in Nat
           /\ Mark(lo, s, k) < s[k + 1].seq
<1>1. k + 1 \in 1..Len(s) /\ (k + 1) - 1 = k /\ k + 1 # 0
  BY DEF Chain
<1>2. Stands(l, Mark(lo, s, k), s[k + 1])
  <2>1. Stands(l, Mark(lo, s, (k + 1) - 1), s[k + 1])
    BY <1>1 DEF Chain
  <2> QED BY <1>1, <2>1
<1>3. Mark(lo, s, k + 1) = s[k + 1].seq
  BY <1>1 DEF Mark
<1>4. PICK m : m = Mark(lo, s, k)
  OBVIOUS
<1>5. m \in Nat /\ s[k + 1] \in WireEvent /\ s[k + 1].seq \in (m + 1)..Len(l)
  BY <1>2, <1>4 DEF Stands
<1> QED BY <1>2, <1>3, <1>4, <1>5

LEMMA Marks ==
    ASSUME NEW l \in Seq(LogEvent), NEW lo, NEW s, Chain(l, lo, s)
    PROVE  \A k \in 0..Len(s) : Mark(lo, s, k) \in Nat /\ lo <= Mark(lo, s, k) /\ Mark(lo, s, k) <= Len(l)
<1> DEFINE S == {k \in Nat : k <= Len(s) =>
                    Mark(lo, s, k) \in Nat /\ lo <= Mark(lo, s, k) /\ Mark(lo, s, k) <= Len(l)}
<1>0. lo \in Nat /\ lo <= Len(l) /\ Len(s) \in Nat
  BY DEF Chain
<1>1. 0 \in S
  BY <1>0 DEF Mark
<1>2. ASSUME NEW k \in Nat, k \in S PROVE k + 1 \in S
  <2> SUFFICES ASSUME k + 1 <= Len(s)
               PROVE  /\ Mark(lo, s, k + 1) \in Nat /\ lo <= Mark(lo, s, k + 1)
                      /\ Mark(lo, s, k + 1) <= Len(l)
    OBVIOUS
  <2>1. Mark(lo, s, k) \in Nat /\ lo <= Mark(lo, s, k)
    BY <1>0, <1>2
  <2>2. PICK m \in Nat : m = Mark(lo, s, k)
    BY <2>1
  <2>3. PICK q : q = s[k + 1].seq
    OBVIOUS
  <2>4. Mark(lo, s, k + 1) = q /\ q \in Nat /\ q <= Len(l) /\ m < q
    BY <2>2, <2>3, MarkStep
  <2> QED BY <1>0, <2>1, <2>2, <2>4
<1> HIDE DEF S
<1>3. \A k \in Nat : k \in S
  BY <1>1, <1>2, Induction
<1> QED BY <1>0, <1>3 DEF S

\* One event more.
LEMMA ChainAppend ==
    ASSUME NEW l \in Seq(LogEvent), NEW lo, NEW s, Chain(l, lo, s), NEW ev, Stands(l, EndOf(lo, s), ev)
    PROVE  Chain(l, lo, Append(s, ev)) /\ EndOf(lo, Append(s, ev)) = ev.seq
<1>0. s \in Seq(WireEvent) /\ ev \in WireEvent /\ Len(s) \in Nat
  BY DEF Chain, Stands
<1>1. PICK t \in Seq(WireEvent) : t = Append(s, ev)
  <2>1. Append(s, ev) \in Seq(WireEvent)
    BY <1>0
  <2> QED BY <2>1
<1>2. Len(t) = Len(s) + 1 /\ t[Len(s) + 1] = ev /\ \A k \in 1..Len(s) : t[k] = s[k]
  BY <1>0, <1>1
<1>3. \A k \in 0..Len(s) : Mark(lo, t, k) = Mark(lo, s, k)
  BY <1>2 DEF Mark
<1>4. ASSUME NEW k \in 1..Len(t) PROVE Stands(l, Mark(lo, t, k - 1), t[k])
  <2>1. Mark(lo, t, k - 1) = Mark(lo, s, k - 1)
    BY <1>0, <1>2, <1>3
  <2>2. CASE k = Len(s) + 1
    BY <1>0, <1>2, <2>1, <2>2 DEF EndOf
  <2>3. CASE k \in 1..Len(s)
    BY <1>2, <2>1, <2>3 DEF Chain
  <2> QED BY <1>0, <1>2, <2>2, <2>3
<1>5. Chain(l, lo, t)
  BY <1>4 DEF Chain
<1>6. EndOf(lo, t) = ev.seq
  BY <1>0, <1>2 DEF EndOf, Mark
<1> QED BY <1>1, <1>5, <1>6

\* Another last event.
LEMMA ChainLast ==
    ASSUME NEW l \in Seq(LogEvent), NEW lo, NEW s, Chain(l, lo, s), s # <<>>,
           NEW ev, Stands(l, Mark(lo, s, Len(s) - 1), ev)
    PROVE  Chain(l, lo, [s EXCEPT ![Len(s)] = ev]) /\ EndOf(lo, [s EXCEPT ![Len(s)] = ev]) = ev.seq
<1>0. s \in Seq(WireEvent) /\ ev \in WireEvent /\ Len(s) \in Nat \ {0}
  BY DEF Chain, Stands
<1>1. PICK n \in Nat \ {0} : n = Len(s)
  BY <1>0
<1>2. PICK t : t = [s EXCEPT ![n] = ev]
  OBVIOUS
<1>3. t \in Seq(WireEvent) /\ Len(t) = n /\ t[n] = ev /\ \A k \in 1..n : k # n => t[k] = s[k]
  <2>1. n \in DOMAIN s
    BY <1>0, <1>1
  <2> QED BY <1>0, <1>1, <1>2, <2>1, Replaced
<1>4. \A k \in 0..(n - 1) : Mark(lo, t, k) = Mark(lo, s, k)
  BY <1>3 DEF Mark
<1>5. ASSUME NEW k \in 1..n PROVE Stands(l, Mark(lo, t, k - 1), t[k])
  <2>1. Mark(lo, t, k - 1) = Mark(lo, s, k - 1)
    BY <1>4
  <2>2. CASE k = n
    BY <1>1, <1>3, <2>1, <2>2
  <2>3. CASE k # n
    BY <1>1, <1>3, <2>1, <2>3 DEF Chain
  <2> QED BY <2>2, <2>3
<1>6. Chain(l, lo, t)
  BY <1>3, <1>5 DEF Chain
<1>7. EndOf(lo, t) = ev.seq
  BY <1>3 DEF EndOf, Mark
<1> QED BY <1>1, <1>2, <1>6, <1>7

\* A part of it.
LEMMA ChainPart ==
    ASSUME NEW l \in Seq(LogEvent), NEW lo, NEW s, Chain(l, lo, s),
           NEW a \in 1..Len(s), NEW b \in a..Len(s)
    PROVE  /\ Chain(l, Mark(lo, s, a - 1), SubSeq(s, a, b)) /\ SubSeq(s, a, b) # <<>>
           /\ EndOf(Mark(lo, s, a - 1), SubSeq(s, a, b)) = Mark(lo, s, b)
<1>0. s \in Seq(WireEvent) /\ Len(s) \in Nat /\ a \in Nat \ {0} /\ b \in Nat \ {0}
  BY DEF Chain
<1>1. PICK t : t = SubSeq(s, a, b)
  OBVIOUS
<1>2. t \in Seq(WireEvent) /\ Len(t) = b - a + 1 /\ \A k \in 1..(b - a + 1) : t[k] = s[a + k - 1]
  BY <1>0, <1>1
<1>3. PICK m : m = Mark(lo, s, a - 1)
  OBVIOUS
<1>4. \A k \in 0..(b - a + 1) : Mark(m, t, k) = Mark(lo, s, a + k - 1)
  BY <1>0, <1>2, <1>3 DEF Mark
<1>5. ASSUME NEW k \in 1..Len(t) PROVE Stands(l, Mark(m, t, k - 1), t[k])
  <2>1. PICK j \in 1..Len(s) : j = a + k - 1
    BY <1>0, <1>2
  <2>2. k - 1 \in 0..(b - a + 1) /\ a + (k - 1) - 1 = j - 1 /\ k \in 1..(b - a + 1)
    BY <1>0, <1>2, <2>1
  <2>3. t[k] = s[j] /\ Mark(m, t, k - 1) = Mark(lo, s, j - 1)
    BY <1>2, <1>4, <2>1, <2>2
  <2> QED BY <2>3 DEF Chain
<1>6. m \in 0..Len(l)
  <2>1. a - 1 \in 0..Len(s)
    BY <1>0
  <2> QED BY <1>3, <2>1, Marks
<1>7. Chain(l, m, t)
  BY <1>2, <1>5, <1>6 DEF Chain
<1>8. EndOf(m, t) = Mark(lo, s, b)
  <2>1. Len(t) \in 0..(b - a + 1) /\ a + Len(t) - 1 = b
    BY <1>0, <1>2
  <2> QED BY <1>4, <2>1 DEF EndOf
<1>9. t # <<>>
  BY <1>0, <1>2
<1> QED BY <1>1, <1>3, <1>7, <1>8, <1>9

\* What is logged later does not change it.
LEMMA ChainGrows ==
    ASSUME NEW l \in Seq(LogEvent), NEW es \in Seq(LogEvent), NEW lo, NEW s, Chain(l, lo, s)
    PROVE  Chain(l \o es, lo, s)
<1>1. PICK k \in Seq(LogEvent) : k = l \o es
  <2>1. l \o es \in Seq(LogEvent)
    OBVIOUS
  <2> QED BY <2>1
<1>2. Len(k) \in Nat /\ Len(l) <= Len(k) /\ \A n \in 1..Len(l) : k[n] = l[n]
  BY <1>1
<1>3. ASSUME NEW m, NEW ev, Stands(l, m, ev) PROVE Stands(k, m, ev)
  <2>1. m \in Nat /\ ev \in WireEvent /\ ev.seq \in (m + 1)..Len(l) /\ ev.seq \in (m + 1)..Len(k)
    BY <1>2, <1>3 DEF Stands
  <2>2. CASE ev.seq = m + 1 /\ ev.event = l[ev.seq]
    BY <1>2, <2>1, <2>2 DEF Stands
  <2>3. ASSUME NEW i \in Items, NEW a \in Nat,
               Run(l, m, ev.seq, i, a), ev.event = RunEvent(i, a, ev.seq - m)
        PROVE  Stands(k, m, ev)
    <3>1. Run(k, m, ev.seq, i, a)
      BY <1>2, <2>1, <2>3 DEF Run
    <3> QED BY <2>1, <2>3, <3>1 DEF Stands
  <2> QED BY <1>3, <2>2, <2>3 DEF Stands
<1>4. lo \in 0..Len(k)
  BY <1>2 DEF Chain
<1> QED BY <1>1, <1>3, <1>4 DEF Chain

\* A batch as it is published.
LEMMA BatchChain ==
    ASSUME NEW l \in Seq(LogEvent), NEW lo \in Nat, NEW hi \in Nat, lo <= hi, hi <= Len(l)
    PROVE  Chain(l, lo, Batch(l, lo + 1, hi)) /\ EndOf(lo, Batch(l, lo + 1, hi)) = hi
<1>1. PICK s : s = Batch(l, lo + 1, hi)
  OBVIOUS
<1>2. s \in Seq(WireEvent) /\ Len(s) = hi - lo
  <2>1. lo + 1 \in Nat \ {0} /\ lo + 1 <= hi + 1 /\ hi - (lo + 1) + 1 = hi - lo
    OBVIOUS
  <2>2. Batch(l, lo + 1, hi) \in Seq(WireEvent) /\ Len(Batch(l, lo + 1, hi)) = hi - (lo + 1) + 1
    BY <2>1, BatchType
  <2> QED BY <1>1, <2>1, <2>2
<1>3. ASSUME NEW k \in 1..(hi - lo) PROVE s[k] = Entry(l, lo + k) /\ s[k].seq = lo + k
  BY <1>1, <1>3 DEF Batch, Entry
<1>4. \A k \in 0..(hi - lo) : Mark(lo, s, k) = lo + k
  BY <1>3 DEF Mark
<1>5. ASSUME NEW k \in 1..Len(s) PROVE Stands(l, Mark(lo, s, k - 1), s[k])
  <2>1. k \in 1..(hi - lo) /\ k - 1 \in 0..(hi - lo) /\ lo + (k - 1) \in Nat /\ lo + k \in 1..Len(l)
    BY <1>2
  <2>2. Mark(lo, s, k - 1) = lo + (k - 1)
    BY <1>4, <2>1
  <2>3. s[k] = Entry(l, lo + k) /\ s[k].seq = lo + k /\ s[k].event = l[lo + k] /\ s[k] \in WireEvent
    BY <1>3, <2>1, EntryType
  <2> QED BY <2>1, <2>2, <2>3 DEF Stands
<1>6. lo \in 0..Len(l)
  OBVIOUS
<1>7. Chain(l, lo, s)
  BY <1>2, <1>5, <1>6 DEF Chain
<1>8. EndOf(lo, s) = hi
  <2>1. hi - lo \in 0..(hi - lo) /\ lo + (hi - lo) = hi
    OBVIOUS
  <2> QED BY <1>2, <1>4, <2>1 DEF EndOf
<1> QED BY <1>1, <1>7, <1>8

-----------------------------------------------------------------------------
(***************************************************************************)
(* The loops over a chain.                                                 *)
(***************************************************************************)

\* The greater of two sequence numbers.
Later(m, n) == IF m < n THEN n ELSE m

\* No event of the chain stands for some that come before n and some that come after.
Whole(lo, s, n) == \A k \in 1..Len(s) : s[k].seq <= n \/ n <= Mark(lo, s, k - 1)

\* A view that has what a chain starts from has, after it, what the log has up to
\* the chain's end, or had more already; to the letter, if it had been part of the
\* way through no event of the chain.
LEMMA ReduceChain ==
    ASSUME NEW l \in Seq(LogEvent), NEW lo, NEW s, Chain(l, lo, s), NEW v \in Views,
           lo <= v.lastSeq, v.lastSeq <= Len(l)
    PROVE  LET w == ReduceAgentEvents(v, s) IN
           /\ w \in Views /\ w.lastSeq = Later(v.lastSeq, EndOf(lo, s))
           /\ SameCore(v, At(l, v.lastSeq)) => SameCore(w, At(l, w.lastSeq))
           /\ v = At(l, v.lastSeq) /\ Whole(lo, s, v.lastSeq) => w = At(l, w.lastSeq)
<1>0. lo \in Nat /\ s \in Seq(WireEvent) /\ Len(s) \in Nat
  BY DEF Chain
<1>1. PICK n \in Nat : n = v.lastSeq
  BY DEF Views
<1>2. PICK f : Reducing(f, v, s, Len(s)) /\ ReduceAgentEvents(v, s) = f[Len(s)]
  BY <1>0, Reduced
<1>3. \A k \in 0..Len(s) : f[k] = ReduceTurn(f, v, s, k)
  BY <1>2 DEF Reducing
<1> DEFINE exact == v = At(l, n) /\ Whole(lo, s, n)
           near == SameCore(v, At(l, n))
           Good(k) == /\ f[k] \in Views /\ f[k].lastSeq = Later(n, Mark(lo, s, k))
                      /\ near => SameCore(f[k], At(l, f[k].lastSeq))
                      /\ exact => f[k] = At(l, f[k].lastSeq)
           S == {k \in Nat : k <= Len(s) => Good(k)}
<1>4. 0 \in S
  <2>1. 0 \in 0..Len(s)
    BY <1>0
  <2>2. f[0] = v
    BY <1>3, <2>1 DEF ReduceTurn
  <2>3. Later(n, Mark(lo, s, 0)) = n
    BY <1>0, <1>1 DEF Later, Mark
  <2> QED BY <1>1, <2>2, <2>3
<1>5. ASSUME NEW k \in Nat, k \in S PROVE k + 1 \in S
  <2> SUFFICES ASSUME k + 1 <= Len(s) PROVE Good(k + 1)
    OBVIOUS
  <2>1. Good(k)
    BY <1>0, <1>5
  <2>2. PICK w \in Views : w = f[k]
    BY <2>1
  <2>3. PICK ev \in WireEvent : ev = s[k + 1]
    BY MarkStep
  <2>4. PICK m \in Nat : m = Mark(lo, s, k)
    BY MarkStep
  <2>5. /\ Stands(l, m, ev) /\ Mark(lo, s, k + 1) = ev.seq /\ ev.seq \in Nat
        /\ ev.seq <= Len(l) /\ m < ev.seq
    BY <2>3, <2>4, MarkStep
  <2>6. f[k + 1] = IF ev.seq <= n THEN w ELSE [FoldOne(w, ev) EXCEPT !.lastSeq = ev.seq]
    <3>1. k + 1 \in 0..Len(s) /\ k + 1 # 0 /\ (k + 1) - 1 = k
      BY <1>0
    <3>2. f[k + 1] = ReduceTurn(f, v, s, k + 1)
      BY <1>3, <3>1
    <3> QED BY <1>1, <2>2, <2>3, <3>1, <3>2 DEF ReduceTurn
  <2>7. /\ w.lastSeq = Later(n, m) /\ (near => SameCore(w, At(l, Later(n, m))))
        /\ exact => w = At(l, Later(n, m))
    BY <2>1, <2>2, <2>4
  <2>8. CASE ev.seq <= n
    <3>1. Later(n, m) = n /\ Later(n, ev.seq) = n
      BY <2>5, <2>8 DEF Later
    <3>2. f[k + 1] = w
      BY <2>6, <2>8
    <3> HIDE DEF exact, near
    <3> QED BY <2>5, <2>7, <3>1, <3>2
  <2>9. CASE n < ev.seq
    <3>1. PICK q \in Nat : q = Later(n, m)
      BY DEF Later
    <3>2. m <= q /\ q < ev.seq /\ Later(n, ev.seq) = ev.seq
      BY <2>5, <2>9, <3>1 DEF Later
    <3>3. ASSUME near PROVE SameCore(FoldOne(w, ev), At(l, ev.seq))
      BY <3>3, <2>5, <2>7, <3>1, <3>2, StandsCore
    <3>4. PICK u \in Views : u = FoldOne(w, ev)
      BY FoldOneType
    <3>5. f[k + 1] = [u EXCEPT !.lastSeq = ev.seq]
      BY <2>5, <2>6, <2>9, <3>4
    <3>6. /\ f[k + 1] \in Views /\ f[k + 1].lastSeq = ev.seq /\ SameCore(f[k + 1], u)
      BY <2>5, <3>5 DEF Views, SameCore
    <3>7. ASSUME near PROVE SameCore(f[k + 1], At(l, ev.seq))
      BY <3>7, <3>3, <3>4, <3>6 DEF SameCore
    <3>8. ASSUME exact PROVE f[k + 1] = At(l, ev.seq)
      <4>1. n <= m
        <5>1. k + 1 \in 1..Len(s) /\ (k + 1) - 1 = k
          BY <1>0
        <5>2. s[k + 1].seq <= n \/ n <= Mark(lo, s, (k + 1) - 1)
          BY <3>8, <5>1 DEF Whole
        <5> QED BY <2>3, <2>4, <2>5, <2>9, <5>1, <5>2
      <4>2. Later(n, m) = m
        BY <4>1 DEF Later
      <4>3. w = At(l, m)
        BY <2>7, <3>8, <4>2
      <4>4. [FoldOne(w, ev) EXCEPT !.lastSeq = ev.seq] = At(l, ev.seq)
        BY <2>5, <4>3, StandsExact
      <4> QED BY <3>4, <3>5, <4>4
    <3> HIDE DEF exact, near
    <3> QED BY <2>5, <3>2, <3>6, <3>7, <3>8
  <2>10. ev.seq <= n \/ n < ev.seq
    BY <2>5
  <2> QED BY <2>8, <2>9, <2>10
<1> HIDE DEF S, Good
<1>6. \A k \in Nat : k \in S
  BY <1>4, <1>5, Induction
<1>7. Good(Len(s))
  BY <1>0, <1>6 DEF S
<1> QED BY <1>1, <1>2, <1>7 DEF Good, EndOf

\* Whatever it is fed, a view stays one, and goes only forward.
LEMMA ReduceType ==
    ASSUME NEW v \in Views, NEW s \in Seq(WireEvent), NEW n \in Nat, v.lastSeq <= n,
           \A k \in 1..Len(s) : s[k].seq <= n
    PROVE  LET w == ReduceAgentEvents(v, s) IN
           w \in Views /\ v.lastSeq <= w.lastSeq /\ w.lastSeq <= n
<1>0. Len(s) \in Nat /\ v.lastSeq \in Nat
  BY DEF Views
<1>1. PICK f : Reducing(f, v, s, Len(s)) /\ ReduceAgentEvents(v, s) = f[Len(s)]
  BY <1>0, Reduced
<1>2. \A k \in 0..Len(s) : f[k] = ReduceTurn(f, v, s, k)
  BY <1>1 DEF Reducing
<1> DEFINE S == {k \in Nat : k <= Len(s) =>
                    f[k] \in Views /\ v.lastSeq <= f[k].lastSeq /\ f[k].lastSeq <= n}
<1>3. 0 \in S
  <2>1. 0 \in 0..Len(s)
    BY <1>0
  <2>2. f[0] = v
    BY <1>2, <2>1 DEF ReduceTurn
  <2> QED BY <1>0, <2>2
<1>4. ASSUME NEW k \in Nat, k \in S PROVE k + 1 \in S
  <2> SUFFICES ASSUME k + 1 <= Len(s)
               PROVE  /\ f[k + 1] \in Views /\ v.lastSeq <= f[k + 1].lastSeq
                      /\ f[k + 1].lastSeq <= n
    OBVIOUS
  <2>1. PICK w \in Views : w = f[k] /\ v.lastSeq <= w.lastSeq /\ w.lastSeq <= n
    BY <1>0, <1>4
  <2>2. k + 1 \in 1..Len(s) /\ k + 1 \in 0..Len(s) /\ k + 1 # 0 /\ (k + 1) - 1 = k
    BY <1>0
  <2>3. PICK ev \in WireEvent : ev = s[k + 1]
    BY <2>2
  <2>4. ev.seq <= n /\ ev.seq \in Nat
    BY <2>2, <2>3 DEF WireEvent
  <2>5. PICK u \in Views : u = FoldOne(w, ev)
    BY FoldOneType
  <2>6. f[k + 1] = IF ev.seq <= v.lastSeq THEN w ELSE [u EXCEPT !.lastSeq = ev.seq]
    <3>1. f[k + 1] = ReduceTurn(f, v, s, k + 1)
      BY <1>2, <2>2
    <3> QED BY <2>1, <2>2, <2>3, <2>5, <3>1 DEF ReduceTurn
  <2>7. CASE ev.seq <= v.lastSeq
    BY <2>1, <2>6, <2>7
  <2>8. CASE ~(ev.seq <= v.lastSeq)
    <3>1. f[k + 1] = [u EXCEPT !.lastSeq = ev.seq]
      BY <2>6, <2>8
    <3>2. f[k + 1] \in Views /\ f[k + 1].lastSeq = ev.seq
      BY <2>4, <3>1 DEF Views
    <3> QED BY <1>0, <2>4, <2>8, <3>2
  <2> QED BY <2>7, <2>8
<1> HIDE DEF S
<1>5. \A k \in Nat : k \in S
  BY <1>3, <1>4, Induction
<1> QED BY <1>0, <1>1, <1>5 DEF S

\* A delta of the log is a run of one.
LEMMA RawRun ==
    ASSUME NEW e \in RawEvent, IsDelta(e)
    PROVE  \E i \in Items, a \in Nat : e = RunEvent(i, a, 1)
<1>1. PICK i \in Items, a \in Nat : e.body = Delta(i, a)
  BY DEF RawEvent
<1>2. e.type = "activityAppended" /\ e \in LogEvent
  BY DEF RawEvent, IsDelta
<1>3. e = [type |-> "activityAppended", body |-> e.body]
  BY <1>2, EventFacts
<1>4. RunBody(i, a, 1) = Delta(i, a)
  BY RunOfOne
<1>5. e = RunEvent(i, a, 1)
  BY <1>1, <1>3, <1>4 DEF RunEvent
<1> QED BY <1>5

\* A delta on the wire is a run, of one or more.
LEMMA StandsRun ==
    ASSUME NEW l \in Seq(RawEvent), NEW lo, NEW ev, Stands(l, lo, ev), IsDelta(ev.event)
    PROVE  \E i \in Items, a \in Nat :
             Run(l, lo, ev.seq, i, a) /\ ev.event = RunEvent(i, a, ev.seq - lo)
<1>0. lo \in Nat /\ ev.seq \in (lo + 1)..Len(l)
  BY DEF Stands
<1>1. CASE ev.seq = lo + 1 /\ ev.event = l[ev.seq]
  <2>1. l[ev.seq] \in RawEvent
    BY <1>0
  <2>2. PICK i \in Items, a \in Nat : l[ev.seq] = RunEvent(i, a, 1)
    BY <1>1, <2>1, RawRun
  <2>3. ev.seq - lo = 1
    BY <1>0, <1>1
  <2>4. Run(l, lo, ev.seq, i, a)
    <3>1. ASSUME NEW k \in (lo + 1)..ev.seq PROVE k = ev.seq /\ a + k - lo - 1 = a
      BY <1>0, <1>1
    <3> QED BY <2>2, <3>1 DEF Run
  <2> QED BY <1>1, <2>2, <2>3, <2>4
<1> QED BY <1>1 DEF Stands

\* Merging one event more into a run.
MergedBody(b, a, t) == [b EXCEPT !.first = a, !.text = t]

LEMMA MergeBody ==
    ASSUME NEW b \in Activity, b.kind = "delta", NEW a \in Nat, NEW t \in Seq(Nat)
    PROVE  MergedBody(b, a, t)
             = [kind |-> "delta", item |-> b.item, first |-> a, sequence |-> b.sequence, text |-> t]
<1> DEFINE D == [kind : {"delta"}, item : Items, first : Nat, sequence : Nat, text : Seq(Nat)]
<1>1. b \in D
  BY DEF Activity
<1>2. PICK x \in D : x = MergedBody(b, a, t)
  BY <1>1 DEF MergedBody
<1>3. PICK y \in D : y = [kind |-> "delta", item |-> b.item, first |-> a, sequence |-> b.sequence, text |-> t]
  BY <1>1
<1>4. /\ x.kind = y.kind /\ x.item = y.item /\ x.first = y.first /\ x.sequence = y.sequence
      /\ x.text = y.text
  BY <1>1, <1>2, <1>3 DEF MergedBody
<1>5. x = y
  BY <1>4
<1> QED BY <1>2, <1>3, <1>5

LEMMA MergeEvent ==
    ASSUME NEW run, NEW s, NEW b \in Activity, b.kind = "delta",
           run.event.body.first \in Nat, run.event.body.text \in Seq(Nat)
    PROVE  Merged(run, [seq |-> s, event |-> [type |-> "activityAppended", body |-> b]])
             = [seq |-> s, event |-> [type |-> "activityAppended",
                   body |-> MergedBody(b, run.event.body.first, run.event.body.text \o b.text)]]
<1>1. PICK a, t : a = run.event.body.first /\ t = run.event.body.text
  OBVIOUS
<1>2. PICK e : e = [type |-> "activityAppended", body |-> b]
  OBVIOUS
<1>3. PICK ev : ev = [seq |-> s, event |-> e]
  OBVIOUS
<1>4. PICK b1 : b1 = [b EXCEPT !.first = a]
  OBVIOUS
<1>5. PICK e1 : e1 = [type |-> "activityAppended", body |-> b1]
  OBVIOUS
<1>6. PICK ev1 : ev1 = [seq |-> s, event |-> e1]
  OBVIOUS
<1>7. [e EXCEPT !.body = b1] = e1
  BY <1>2, <1>5
<1>8. [ev EXCEPT !.event.body.first = a] = ev1
  <2>1. ev.event = e /\ e.body = b
    BY <1>2, <1>3
  <2>2. [ev EXCEPT !.event.body.first = a] = [ev EXCEPT !.event = [e EXCEPT !.body = [b EXCEPT !.first = a]]]
    BY <1>3, <2>1
  <2>3. [ev EXCEPT !.event = e1] = ev1
    BY <1>3, <1>6
  <2> QED BY <1>4, <1>7, <2>2, <2>3
<1>9. b1.text = b.text
  BY <1>4 DEF Activity
<1>10. PICK b2 : b2 = [b1 EXCEPT !.text = t \o b.text]
  OBVIOUS
<1>11. [ev1 EXCEPT !.event.body.text = t \o @] = [seq |-> s, event |-> [type |-> "activityAppended", body |-> b2]]
  <2>1. ev1.event = e1 /\ e1.body = b1
    BY <1>5, <1>6
  <2>2. PICK x : x = t \o b.text
    OBVIOUS
  <2>3. [ev1 EXCEPT !.event.body.text = t \o @] = [ev1 EXCEPT !.event = [e1 EXCEPT !.body = b2]]
    BY <1>6, <1>9, <1>10, <2>1
  <2>4. PICK e2 : e2 = [e1 EXCEPT !.body = b2]
    OBVIOUS
  <2>5. e2 = [type |-> "activityAppended", body |-> b2]
    BY <1>5, <2>4
  <2>6. [ev1 EXCEPT !.event = e2] = [seq |-> s, event |-> e2]
    BY <1>6
  <2> QED BY <2>3, <2>4, <2>5, <2>6
<1>12. b2 = MergedBody(b, a, t \o b.text)
  BY <1>4, <1>10 DEF MergedBody
<1>13. Merged(run, ev) = [ev1 EXCEPT !.event.body.text = t \o @]
  BY <1>1, <1>8 DEF Merged
<1> QED BY <1>1, <1>2, <1>3, <1>11, <1>12, <1>13

LEMMA MergeStands ==
    ASSUME NEW l \in Seq(RawEvent), NEW lo, NEW run, Stands(l, lo, run), run.seq + 1 <= Len(l),
           Continues(Entry(l, run.seq + 1), run)
    PROVE  LET ev == Merged(run, Entry(l, run.seq + 1)) IN
           Stands(l, lo, ev) /\ ev.seq = run.seq + 1
<1>0. PICK m \in Nat : m = run.seq
  BY DEF Stands, WireEvent
<1>1. lo \in Nat /\ lo < m /\ m <= Len(l) /\ m + 1 <= Len(l) /\ run \in WireEvent
  BY <1>0 DEF Stands
<1>2. PICK ev : ev = Entry(l, m + 1)
  OBVIOUS
<1>3. ev = [seq |-> m + 1, event |-> l[m + 1]] /\ ev.event = l[m + 1] /\ ev.seq = m + 1
  BY <1>2 DEF Entry
<1>4. /\ IsDelta(run.event) /\ IsDelta(ev.event) /\ ev.event.body.item = run.event.body.item
      /\ ev.event.body.sequence = run.event.body.sequence + 1
  BY <1>0, <1>2 DEF Continues
<1>5. PICK i \in Items, a \in Nat : Run(l, lo, m, i, a) /\ run.event = RunEvent(i, a, m - lo)
  BY <1>0, <1>4, StandsRun
<1>6. l[m + 1] \in RawEvent
  BY <1>1
<1>7. PICK j \in Items, c \in Nat : l[m + 1] = RunEvent(j, c, 1)
  BY <1>3, <1>4, <1>6, RawRun
<1>8. PICK n \in Nat \ {0} : n = m - lo
  BY <1>1
<1>9. /\ run.event.body = RunBody(i, a, n) /\ run.event.body.item = i
      /\ run.event.body.sequence = a + n - 1
  <2>1. run.event = RunEvent(i, a, n)
    BY <1>5, <1>8
  <2>2. /\ RunEvent(i, a, n).body = RunBody(i, a, n) /\ RunBody(i, a, n).item = i
        /\ RunBody(i, a, n).sequence = a + n - 1
    BY DEF RunEvent, RunBody
  <2> QED BY <2>1, <2>2
<1>10. ev.event.body = RunBody(j, c, 1) /\ ev.event.body.item = j /\ ev.event.body.sequence = c
  <2>1. 1 \in Nat \ {0} /\ c + 1 - 1 = c
    OBVIOUS
  <2>2. ev.event = RunEvent(j, c, 1)
    BY <1>3, <1>7
  <2>3. RunBody(j, c, 1).item = j /\ RunBody(j, c, 1).sequence = c /\ RunEvent(j, c, 1).body = RunBody(j, c, 1)
    BY <2>1 DEF RunBody, RunEvent
  <2> QED BY <2>1, <2>2, <2>3
<1>11. i = j /\ c = a + n
  BY <1>4, <1>9, <1>10
<1>12. Run(l, lo, m + 1, i, a)
  <2>1. ASSUME NEW k \in (lo + 1)..(m + 1) PROVE l[k] = RunEvent(i, a + k - lo - 1, 1)
    <3>1. CASE k = m + 1
      <4>1. a + k - lo - 1 = c
        BY <1>1, <1>8, <1>11, <3>1
      <4> QED BY <1>7, <1>11, <3>1, <4>1
    <3>2. CASE k # m + 1
      BY <1>1, <1>5, <3>2 DEF Run
    <3> QED BY <3>1, <3>2
  <2> QED BY <2>1 DEF Run
<1>13. PICK w : w = Merged(run, ev)
  OBVIOUS
<1>14. PICK b \in Activity : b = ev.event.body /\ b.kind = "delta"
  <2>1. 1 \in Nat \ {0}
    OBVIOUS
  <2>2. RunBody(j, c, 1) \in Activity /\ RunBody(j, c, 1).kind = "delta"
    BY <2>1, RunType
  <2> QED BY <1>10, <2>2
<1>15. w = [seq |-> m + 1, event |-> RunEvent(i, a, n + 1)]
  <2>1. RunBody(i, a, n).text \o <<a + n>> = RunBody(i, a, n + 1).text
    BY RunGrows
  <2>2. b = Delta(i, a + n)
    BY <1>10, <1>11, <1>14, RunOfOne
  <2>3. b.item = i /\ b.sequence = a + n /\ b.text = <<a + n>>
    BY <2>2 DEF Delta
  <2>4. RunBody(i, a, n).first = a /\ RunBody(i, a, n).text \in Seq(Nat)
    <3>1. RunBody(i, a, n).first = a
      BY DEF RunBody
    <3>2. RunBody(i, a, n).text \in Seq(Nat)
      BY RunType
    <3> QED BY <3>1, <3>2
  <2>5. PICK t \in Seq(Nat) : t = RunBody(i, a, n + 1).text
    <3>1. n + 1 \in Nat \ {0}
      OBVIOUS
    <3>2. RunBody(i, a, n + 1).text \in Seq(Nat)
      BY <3>1, RunType
    <3> QED BY <3>2
  <2>6. ev = [seq |-> m + 1, event |-> [type |-> "activityAppended", body |-> b]]
    BY <1>3, <1>7, <1>10, <1>14 DEF RunEvent
  <2>7. run.event.body.first = a /\ run.event.body.text \o b.text = t /\ run.event.body.text \in Seq(Nat)
    BY <1>9, <2>1, <2>3, <2>4, <2>5
  <2>8. w = [seq |-> m + 1, event |-> [type |-> "activityAppended", body |-> MergedBody(b, a, t)]]
    <3>1. Merged(run, [seq |-> m + 1, event |-> [type |-> "activityAppended", body |-> b]])
            = [seq |-> m + 1, event |-> [type |-> "activityAppended",
                  body |-> MergedBody(b, run.event.body.first, run.event.body.text \o b.text)]]
      BY <1>14, <2>7, MergeEvent
    <3> QED BY <1>13, <2>6, <2>7, <3>1
  <2>9. MergedBody(b, a, t) = [kind |-> "delta", item |-> i, first |-> a, sequence |-> a + n, text |-> t]
    BY <1>14, <2>3, MergeBody
  <2>10. RunBody(i, a, n + 1) = [kind |-> "delta", item |-> i, first |-> a, sequence |-> a + n, text |-> t]
    <3>1. a + (n + 1) - 1 = a + n
      OBVIOUS
    <3> QED BY <2>5, <3>1 DEF RunBody
  <2> QED BY <2>8, <2>9, <2>10 DEF RunEvent
<1>16. Stands(l, lo, w)
  <2>1. n + 1 \in Nat \ {0} /\ m + 1 \in (lo + 1)..Len(l) /\ (m + 1) - lo = n + 1
    BY <1>1, <1>8
  <2>2. RunEvent(i, a, n + 1) \in LogEvent
    BY <2>1, RunType
  <2>3. w \in WireEvent /\ w.seq = m + 1 /\ w.event = RunEvent(i, a, n + 1)
    BY <1>15, <2>2 DEF WireEvent
  <2> QED BY <1>1, <1>12, <2>1, <2>3 DEF Stands
<1>17. w.seq = m + 1
  BY <1>15
<1> QED BY <1>0, <1>2, <1>13, <1>16, <1>17

\* What a replay makes of a batch: a chain from the same place to the same place.
LEMMA CoalesceChain ==
    ASSUME NEW l \in Seq(RawEvent), NEW lo \in Nat, NEW hi \in Nat, lo <= hi, hi <= Len(l)
    PROVE  LET s == CoalesceReplay(Batch(l, lo + 1, hi)) IN
           Chain(l, lo, s) /\ EndOf(lo, s) = hi
<1>0. l \in Seq(LogEvent)
  <2>1. RawEvent \subseteq LogEvent
    BY DEF RawEvent
  <2> QED BY <2>1, SeqMonotonic
<1>1. PICK b : b = Batch(l, lo + 1, hi)
  OBVIOUS
<1>2. Len(b) = hi - lo /\ Len(b) \in Nat
  <2>1. lo + 1 \in Nat \ {0} /\ lo + 1 <= hi + 1 /\ hi - (lo + 1) + 1 = hi - lo
    OBVIOUS
  <2>2. Len(Batch(l, lo + 1, hi)) = hi - (lo + 1) + 1
    BY <1>0, <2>1, BatchType
  <2> QED BY <1>1, <2>1, <2>2
<1>3. ASSUME NEW k \in 1..(hi - lo) PROVE b[k] = Entry(l, lo + k)
  BY <1>1, <1>3 DEF Batch, Entry
<1>4. PICK f : Coalescing(f, b, Len(b)) /\ CoalesceReplay(b) = f[Len(b)]
  BY <1>2, Coalesced
<1>5. \A k \in 0..Len(b) : f[k] = IF k = 0 THEN <<>> ELSE Extended(f[k - 1], b[k])
  BY <1>4 DEF Coalescing
<1> DEFINE S == {k \in Nat : k <= hi - lo => Chain(l, lo, f[k]) /\ EndOf(lo, f[k]) = lo + k}
<1>6. 0 \in S
  <2>1. f[0] = <<>>
    BY <1>2, <1>5
  <2>2. <<>> \in Seq(WireEvent) /\ Len(<<>>) = 0 /\ lo \in 0..Len(l) /\ lo + 0 = lo
    OBVIOUS
  <2>3. Chain(l, lo, <<>>) /\ EndOf(lo, <<>>) = lo
    BY <2>2 DEF Chain, EndOf, Mark
  <2> QED BY <2>1, <2>2, <2>3
<1>7. ASSUME NEW k \in Nat, k \in S PROVE k + 1 \in S
  <2> SUFFICES ASSUME k + 1 <= hi - lo
               PROVE  Chain(l, lo, f[k + 1]) /\ EndOf(lo, f[k + 1]) = lo + k + 1
    OBVIOUS
  <2>1. PICK out : out = f[k] /\ Chain(l, lo, out) /\ EndOf(lo, out) = lo + k
    BY <1>7
  <2>2. PICK m \in Nat : m = lo + k
    OBVIOUS
  <2>3. PICK ev : ev = Entry(l, m + 1)
    OBVIOUS
  <2>4. f[k + 1] = Extended(out, ev)
    <3>1. k + 1 \in 0..Len(b) /\ k + 1 # 0 /\ (k + 1) - 1 = k /\ k + 1 \in 1..(hi - lo) /\ lo + (k + 1) = m + 1
      BY <1>2, <2>2
    <3>2. f[k + 1] = Extended(f[(k + 1) - 1], b[k + 1])
      BY <1>5, <3>1
    <3>3. b[k + 1] = ev
      BY <1>3, <2>3, <3>1
    <3> QED BY <2>1, <3>1, <3>2, <3>3
  <2>5. m + 1 \in 1..Len(l) /\ m + 1 <= Len(l)
    BY <2>2
  <2>6. CASE out # <<>> /\ Continues(ev, out[Len(out)])
    <3>1. out \in Seq(WireEvent)
      BY <2>1 DEF Chain
    <3>2. PICK n \in Nat : n + 1 = Len(out)
      <4>1. Len(out) - 1 \in Nat /\ (Len(out) - 1) + 1 = Len(out)
        BY <2>6, <3>1
      <4> QED BY <4>1
    <3>3. PICK run : run = out[Len(out)]
      OBVIOUS
    <3>4. Stands(l, Mark(lo, out, n), run)
      BY <1>0, <2>1, <3>2, <3>3, MarkStep
    <3>5. run.seq = m
      BY <2>1, <2>2, <3>2, <3>3 DEF EndOf, Mark
    <3>6. PICK x : x = Merged(run, ev)
      OBVIOUS
    <3>7. Stands(l, Mark(lo, out, n), x) /\ x.seq = m + 1
      BY <2>3, <2>5, <2>6, <3>3, <3>4, <3>5, <3>6, MergeStands
    <3>8. Extended(out, ev) = [out EXCEPT ![Len(out)] = x]
      BY <2>6, <3>3, <3>6 DEF Extended
    <3>9. Len(out) - 1 = n
      BY <3>2
    <3>10. /\ Chain(l, lo, [out EXCEPT ![Len(out)] = x])
           /\ EndOf(lo, [out EXCEPT ![Len(out)] = x]) = x.seq
      BY <1>0, <2>1, <2>6, <3>7, <3>9, ChainLast
    <3> QED BY <2>2, <2>4, <3>7, <3>8, <3>10
  <2>7. CASE ~(out # <<>> /\ Continues(ev, out[Len(out)]))
    <3>1. Extended(out, ev) = Append(out, ev)
      BY <2>7 DEF Extended
    <3>2. Stands(l, m, ev) /\ ev.seq = m + 1
      <4>1. ev \in WireEvent /\ ev.seq = m + 1 /\ ev.event = l[m + 1]
        BY <1>0, <2>3, <2>5, EntryType
      <4> QED BY <2>5, <4>1 DEF Stands
    <3>3. Chain(l, lo, Append(out, ev)) /\ EndOf(lo, Append(out, ev)) = ev.seq
      BY <1>0, <2>1, <2>2, <3>2, ChainAppend
    <3> QED BY <2>2, <2>4, <3>1, <3>2, <3>3
  <2> QED BY <2>6, <2>7
<1> HIDE DEF S
<1>8. \A k \in Nat : k \in S
  BY <1>6, <1>7, Induction
<1>9. Chain(l, lo, f[hi - lo]) /\ EndOf(lo, f[hi - lo]) = lo + (hi - lo)
  <2>1. hi - lo \in Nat
    OBVIOUS
  <2> QED BY <1>8, <2>1 DEF S
<1>10. lo + (hi - lo) = hi
  OBVIOUS
<1> QED BY <1>1, <1>2, <1>4, <1>9, <1>10

-----------------------------------------------------------------------------
(***************************************************************************)
(* The thread and its log.                                                 *)
(***************************************************************************)

\* What is in log l: an activity, a card opened, a card closed, a failed archive, an
\* error that no later status took over from.
LoggedIn(l, b) == \E k \in 1..Len(l) : l[k].type = "activityAppended" /\ l[k].body = b
OpenedIn(l) == {r \in Requests : LoggedIn(l, Opened(r))}
ResolvedIn(l) == {r \in Requests : LoggedIn(l, Resolved(r))}
FellIn(l) == \E k \in 1..Len(l) : l[k].type = "archiveFailed"
IsError(e) == e.type = "activityAppended" /\ e.body.kind \in {"error", "reactorError"}
ErrorIn(l) == \E k \in 1..Len(l) : IsError(l[k]) /\ \A j \in (k + 1)..Len(l) : ~SetsStatus(l[j])

\* How the server's thread t and the view v of its whole log differ, o being the
\* requests opened in it, d those resolved and er whether an error stands.
Match(t, v, o, d, er) ==
    /\ v.mode = t.mode /\ v.archived = t.archived /\ v.archiving = t.archiving
    /\ (t.pending \cap o) \ d \subseteq Cards(v)
    /\ \/ er
       \/ v.status = t.status
       \/ v.status = "waiting" /\ t.status = "running" /\ t.pending = {} /\ Cards(v) # {}
       \/ v.status = "running" /\ t.status = "waiting" /\ t.pending \cap Cards(v) = {}

\* A view that waits has a card, unless an archive fell through.
Shows(v, fell) == fell \/ (v.status = "waiting" => Cards(v) # {})

\* The server: its thread, and a log whose every prefix is fit to be shown.
World(t, l) ==
    /\ l \in Seq(RawEvent)
    /\ t = NoThread => l = <<>>
    /\ t # NoThread => /\ Sound(t)
                       /\ Match(t, At(l, Len(l)), OpenedIn(l), ResolvedIn(l), ErrorIn(l))
    /\ \A n \in 0..Len(l) : Shows(At(l, n), FellIn(l))

-----------------------------------------------------------------------------
(***************************************************************************)
(* What an event handler has in hand.                                      *)
(***************************************************************************)

\* What Ingestion and reportError dispatch.
RawActivity == {b \in Activity : b.kind = "delta" => \E i \in Items, n \in Nat : b = Delta(i, n)}
HandCommand ==
    [type : {"activityAppend"}, at : Times, body : RawActivity]
    \cup [type : {"sessionSet"}, at : Times, change : SessionChanges]

Opens(c) == c.type = "activityAppend" /\ c.body.kind = "opened"
Asks(c) == c.type = "sessionSet" /\ c.change.add # None
OpenAt(r, a) == [type |-> "activityAppend", at |-> a, body |-> Opened(r)]
AskAt(r, a) == [type |-> "sessionSet", at |-> a, change |-> Asking(r)]

\* A card in hand is new; a question in hand has its card shown, unless it was
\* fenced off, and then it will be too or an archive has failed.
Handy(h, t, v, o, fell) ==
    \/ \A k \in 1..Len(h) : ~Opens(h[k]) /\ ~Asks(h[k])
    \/ \E r \in Requests, a \in Times :
         /\ h = <<OpenAt(r, a), AskAt(r, a)>>
         /\ r \notin t.pending /\ r \notin o /\ (t.archived => a <= t.cutoff)
    \/ \E r \in Requests, a \in Times :
         /\ h = <<AskAt(r, a)>> /\ r \notin t.pending
         /\ \/ a <= t.cutoff
            \/ /\ r \in o => r \in Cards(v)
               /\ fell \/ t.archiving \/ r \in Cards(v)

-----------------------------------------------------------------------------
(***************************************************************************)
(* A replay under way, and a subscription.                                 *)
(***************************************************************************)

\* Where the first k frames of fs end, if they start after b.
FrameMark(b, fs, k) == IF k = 0 THEN b ELSE fs[k][Len(fs[k])].seq

\* The frames fs carry l from b on.
Frames(l, b, fs) ==
    /\ b \in 0..Len(l)
    /\ \A k \in 1..Len(fs) : fs[k] # <<>> /\ Chain(l, FrameMark(b, fs, k - 1), fs[k])

\* Ranges of sequence numbers up to n; and without a hole up to n.
Batched(q, n) == \A k \in 1..Len(q) : q[k][1] >= 1 /\ q[k][1] <= q[k][2] /\ q[k][2] <= n
Joined(q, n) ==
    /\ \A k \in 1..(Len(q) - 1) : q[k + 1][1] = q[k][2] + 1
    /\ q # <<>> => q[Len(q)][2] = n

-----------------------------------------------------------------------------
(***************************************************************************)
(* The invariant.                                                          *)
(***************************************************************************)

\* What a pane sends, and what its socket is made of.
UserCommand ==
    {c \in Command : /\ c.type \in {"turnStart", "turnInterrupt", "runtimeModeSet", "respond",
                                    "archive", "resume"}
                     /\ c.type = "turnStart" => c.instance = None}
Sending == [number : Nat, command : UserCommand]
Queue(p) == conn[p].up \o outbox[p]
Orphans == [pane : Panes, up : Seq(Sending)]
Handlers == {"none", "hello", "subscribed", "replayed", "live"}
Conns ==
    [sock : {"draft", "down", "open"}, handler : Handlers, since : Nat, sub : Seq(Nat \X Nat),
     down : Seq(Seq(WireEvent)), up : Seq(Sending)]

\* One pane, at most, shows the thread.
OnePane == \A p, q \in Panes : p = q

Types ==
    /\ clock \in Times /\ hand \in Seq(HandCommand) /\ view \in Views /\ view.lastSeq <= Len(log)
    /\ conn \in [Panes -> Conns] /\ outbox \in [Panes -> Seq(Sending)]
    /\ stopAt \in [Panes -> Nat \cup {None}]
    /\ sent \in Nat /\ executed \in [Panes -> Seq(Nat)] /\ orphans \subseteq Orphans
    /\ overflowed \in BOOLEAN /\ strayed \subseteq Panes

\* What a handler has yet to dispatch is stamped, for a thread there is, and fits it.
InHand(h, t, l, now) ==
    /\ \A k \in 1..Len(h) : h[k].at <= now
    /\ t # NoThread => t.cutoff <= now
    /\ h # <<>> => t # NoThread
    /\ t # NoThread => Handy(h, t, At(l, Len(l)), OpenedIn(l), FellIn(l))

\* A pane's socket, its outbox being box.
Socketed(c, box) ==
    /\ c.handler = "none" <=> c.sock # "open"
    /\ c.handler = "none" => c.sub = <<>> /\ c.down = <<>> /\ c.up = <<>>
    /\ c.sock = "open" => box = <<>>
    /\ Len(c.sub) <= BufferSize

\* What a pane has been sent of log l joins what its browser, at n, has to what it is
\* still to be sent.
Streamed(c, l, n, ov) ==
    /\ Batched(c.sub, Len(l)) /\ (ov \/ Joined(c.sub, Len(l)))
    /\ c.handler = "hello" => c.sub = <<>>
    /\ c.handler \in {"hello", "subscribed"} =>
         /\ c.down = <<>> /\ c.since <= n /\ (OnePane => c.since = n)
    /\ c.handler \in {"replayed", "live"} =>
         \E b \in 0..n :
           /\ OnePane => b = n
           /\ Frames(l, b, c.down)
           /\ \/ ov
              \/ c.sub = <<>> /\ FrameMark(b, c.down, Len(c.down)) = Len(l)
              \/ c.sub # <<>> /\ c.sub[1][1] <= FrameMark(b, c.down, Len(c.down)) + 1

\* View v has of log l what it says it has.
Faithful(v, l, ov) ==
    ov \/ /\ SameCore(v, At(l, v.lastSeq))
          /\ OnePane => v = At(l, v.lastSeq)

\* Stop was pressed at a, the commands under way and waiting are q, and lost says
\* whether any got lost or may still come over an old socket.
HasInterrupt(q) == \E k \in 1..Len(q) : q[k].command.type = "turnInterrupt"
Stopped(a, q, lost, l, ov) ==
    /\ a # None => a <= Len(l)
    /\ ov \/ (a # None =>
         /\ lost \/ HasInterrupt(q) \/ a < Len(l)
         /\ ~At(l, a).archived /\ ~At(l, a).archiving)

\* A command of p got lost, or an interrupt of its is on an old socket.
Excused(p) == p \in strayed \/ \E o \in orphans : o.pane = p /\ HasInterrupt(o.up)

\* What holds of each pane.
PaneInv(p) ==
    /\ Socketed(conn[p], outbox[p])
    /\ conn[p].handler = "live" => thread # NoThread
    /\ Streamed(conn[p], log, view.lastSeq, overflowed)
    /\ Stopped(stopAt[p], Queue(p), Excused(p), log, overflowed)

IInv ==
    /\ Types /\ World(thread, log) /\ InHand(hand, thread, log, clock)
    /\ Faithful(view, log, overflowed)
    /\ \A p \in Panes : PaneInv(p)

-----------------------------------------------------------------------------
(***************************************************************************)
(* One event more in the log.                                              *)
(***************************************************************************)

\* The requests e opens, and closes.
OpenedBy(e) == {r \in Requests : e.type = "activityAppended" /\ e.body = Opened(r)}
ResolvedBy(e) == {r \in Requests : e.type = "activityAppended" /\ e.body = Resolved(r)}

LEMMA RawIsLogged == ASSUME NEW l \in Seq(RawEvent) PROVE l \in Seq(LogEvent)
<1>1. RawEvent \subseteq LogEvent
  BY DEF RawEvent
<1> QED BY <1>1, SeqMonotonic

LEMMA LogGrows ==
    ASSUME NEW l \in Seq(RawEvent), NEW e \in RawEvent
    PROVE  LET k == l \o <<e>> IN
           /\ k \in Seq(RawEvent) /\ Len(k) = Len(l) + 1 /\ k[Len(l) + 1] = e
           /\ \A j \in 1..Len(l) : k[j] = l[j]
           /\ OpenedIn(k) = OpenedIn(l) \cup OpenedBy(e)
           /\ ResolvedIn(k) = ResolvedIn(l) \cup ResolvedBy(e)
           /\ FellIn(k) <=> FellIn(l) \/ e.type = "archiveFailed"
           /\ ErrorIn(k) <=> IsError(e) \/ (ErrorIn(l) /\ ~SetsStatus(e))
           /\ \A n \in 0..Len(l) : At(k, n) = At(l, n)
           /\ At(k, Len(l) + 1) = [FoldOne(At(l, Len(l)), [seq |-> Len(l) + 1, event |-> e])
                                     EXCEPT !.lastSeq = Len(l) + 1]
<1>1. PICK k : k = l \o <<e>>
  OBVIOUS
<1>2. PICK m \in Nat : m = Len(l)
  OBVIOUS
<1>3. k \in Seq(RawEvent) /\ Len(k) = m + 1 /\ k[m + 1] = e /\ \A j \in 1..m : k[j] = l[j]
  BY <1>1, <1>2
<1>4. ASSUME NEW b PROVE LoggedIn(k, b) <=> LoggedIn(l, b) \/ (e.type = "activityAppended" /\ e.body = b)
  <2>1. \A j \in 1..(m + 1) : j \in 1..m \/ j = m + 1
    OBVIOUS
  <2> QED BY <1>2, <1>3, <2>1 DEF LoggedIn
<1>5. OpenedIn(k) = OpenedIn(l) \cup OpenedBy(e)
  BY <1>4 DEF OpenedIn, OpenedBy
<1>6. ResolvedIn(k) = ResolvedIn(l) \cup ResolvedBy(e)
  BY <1>4 DEF ResolvedIn, ResolvedBy
<1>7. FellIn(k) <=> FellIn(l) \/ e.type = "archiveFailed"
  <2>1. \A j \in 1..(m + 1) : j \in 1..m \/ j = m + 1
    OBVIOUS
  <2> QED BY <1>2, <1>3, <2>1 DEF FellIn
<1>8. ErrorIn(k) <=> IsError(e) \/ (ErrorIn(l) /\ ~SetsStatus(e))
  <2>1. \A j \in 1..(m + 1) : j \in 1..m \/ j = m + 1
    OBVIOUS
  <2>2. ASSUME ErrorIn(k) PROVE IsError(e) \/ (ErrorIn(l) /\ ~SetsStatus(e))
    <3>1. PICK i \in 1..(m + 1) : IsError(k[i]) /\ \A j \in (i + 1)..(m + 1) : ~SetsStatus(k[j])
      BY <1>3, <2>2 DEF ErrorIn
    <3>2. CASE i = m + 1
      BY <1>3, <3>1, <3>2
    <3>3. CASE i \in 1..m
      <4>1. IsError(l[i]) /\ m + 1 \in (i + 1)..(m + 1)
        BY <1>3, <3>1, <3>3
      <4>2. ~SetsStatus(e)
        BY <1>3, <3>1, <4>1
      <4>3. \A j \in (i + 1)..m : ~SetsStatus(l[j])
        BY <1>3, <3>1, <3>3
      <4> QED BY <1>2, <3>3, <4>1, <4>2, <4>3 DEF ErrorIn
    <3> QED BY <2>1, <3>2, <3>3
  <2>3. ASSUME IsError(e) PROVE ErrorIn(k)
    <3>1. m + 1 \in 1..Len(k) /\ \A j \in (m + 1 + 1)..Len(k) : FALSE
      BY <1>3
    <3> QED BY <1>3, <2>3, <3>1 DEF ErrorIn
  <2>4. ASSUME ErrorIn(l), ~SetsStatus(e) PROVE ErrorIn(k)
    <3>1. PICK i \in 1..m : IsError(l[i]) /\ \A j \in (i + 1)..m : ~SetsStatus(l[j])
      BY <1>2, <2>4 DEF ErrorIn
    <3>2. i \in 1..Len(k) /\ IsError(k[i])
      BY <1>3, <3>1
    <3>3. \A j \in (i + 1)..Len(k) : ~SetsStatus(k[j])
      BY <1>3, <2>1, <2>4, <3>1
    <3> QED BY <3>2, <3>3 DEF ErrorIn
  <2> QED BY <2>2, <2>3, <2>4
<1>9. l \in Seq(LogEvent) /\ k \in Seq(LogEvent) /\ <<e>> \in Seq(LogEvent)
  <2>1. <<e>> \in Seq(RawEvent)
    OBVIOUS
  <2> QED BY <1>3, <2>1, RawIsLogged
<1>10. \A n \in 0..m : At(k, n) = At(l, n)
  BY <1>1, <1>2, <1>9, AtAppend
<1>11. At(k, m + 1) = [FoldOne(At(l, m), [seq |-> m + 1, event |-> e]) EXCEPT !.lastSeq = m + 1]
  <2>1. At(k, m + 1) = [FoldOne(At(k, m), Entry(k, m + 1)) EXCEPT !.lastSeq = m + 1]
    BY <1>3, <1>9, AtStep
  <2>2. Entry(k, m + 1) = [seq |-> m + 1, event |-> e]
    BY <1>3 DEF Entry
  <2>3. At(k, m) = At(l, m)
    BY <1>10
  <2> QED BY <2>1, <2>2, <2>3
<1> QED BY <1>1, <1>2, <1>3, <1>5, <1>6, <1>7, <1>8, <1>10, <1>11

-----------------------------------------------------------------------------
(***************************************************************************)
(* What one event does to the status and the cards a view shows.           *)
(***************************************************************************)

\* A view with w's modes and archive marks, status s and cards c.
Like(v, w, s, c) ==
    /\ v.mode = w.mode /\ v.archived = w.archived /\ v.archiving = w.archiving
    /\ v.status = s /\ Cards(v) = c

LEMMA SameIsLike ==
    ASSUME NEW v, NEW w, SameCore(v, w) PROVE Like(v, w, w.status, Cards(w))
BY DEF SameCore, Like, Cards

LEMMA SettledLike ==
    ASSUME NEW v \in Views
    PROVE  Like(SettleAfterPending(v), v,
                IF v.status = "waiting" /\ Cards(v) = {} THEN "running" ELSE v.status, Cards(v))
BY DEF Like, SettleAfterPending, Cards, Views

LEMMA OpenLike ==
    ASSUME NEW v \in Views, NEW r \in Requests
    PROVE  Like(OpenPending(v, r), v, v.status, Cards(v) \cup {r})
BY DEF Like, OpenPending, Cards, Views

LEMMA CloseLike ==
    ASSUME NEW v \in Views, NEW r \in Requests
    PROVE  Like(ClosePending(v, r), v,
                IF v.status = "waiting" /\ Cards(v) \ {r} = {} THEN "running" ELSE v.status,
                Cards(v) \ {r})
<1>1. PICK w : w = [v EXCEPT !.approvals = @ \ {r}, !.userInputs = @ \ {r}]
  OBVIOUS
<1>2. w \in Views /\ Like(w, v, v.status, Cards(v) \ {r})
  BY <1>1 DEF Like, Cards, Views
<1>3. ClosePending(v, r) = SettleAfterPending(w)
  BY <1>1 DEF ClosePending
<1> QED BY <1>2, <1>3, SettledLike DEF Like

LEMMA AnsweredLike ==
    ASSUME NEW v \in Views, NEW n \in Nat, NEW r \in Requests
    PROVE  Like(Answered(v, n, r), v,
                IF v.status = "waiting" /\ Cards(v) \ {r} = {} THEN "running" ELSE v.status,
                Cards(v) \ {r})
<1>1. PICK w \in Views : w = IF r \in Questions THEN Row(v, n, "question") ELSE v
  BY RowType
<1>2. SameCore(w, v)
  BY <1>1, RowCore DEF SameCore
<1>3. Answered(v, n, r) = ClosePending(w, r)
  BY <1>1 DEF Answered
<1>4. w.status = v.status /\ Cards(w) = Cards(v)
  BY <1>2 DEF SameCore, Cards
<1> QED BY <1>2, <1>3, <1>4, CloseLike DEF Like, SameCore

LEMMA FailedLike ==
    ASSUME NEW v \in Views, NEW n \in Nat, NEW q \in BOOLEAN
    PROVE  \E s : Like(Failed(v, n, q), v, s, Cards(v)) /\ (s = "waiting" => v.status = "waiting")
<1>1. PICK w \in Views : w = Row(v, n, "error")
  BY RowType
<1>2. SameCore(w, v)
  BY <1>1, RowCore
<1>3. Failed(v, n, q) = [w EXCEPT !.status = IF @ = "running" /\ q THEN "idle" ELSE @]
  BY <1>1 DEF Failed
<1>4. PICK s : s = IF w.status = "running" /\ q THEN "idle" ELSE w.status
  OBVIOUS
<1>5. Like(Failed(v, n, q), v, s, Cards(v))
  BY <1>2, <1>3, <1>4 DEF Like, Cards, SameCore, Views
<1>6. s = "waiting" => v.status = "waiting"
  BY <1>2, <1>4 DEF SameCore
<1> QED BY <1>5, <1>6

-----------------------------------------------------------------------------
(***************************************************************************)
(* One event, on the thread and on the view of its log.                    *)
(***************************************************************************)

\* The events that can follow, the thread being t, the view of its log v, o the
\* requests opened in it and fell whether an archive has failed.
Legal(t, v, o, fell, e) ==
    \/ /\ ~Closed(t)
       /\ \/ e.type = "turnStartRequested"
          \/ e.type = "responseRequested" /\ e.request \in t.pending
          \/ e.type = "runtimeModeSet" /\ e.mode \in RuntimeMode
          \/ /\ e.type = "sessionSet"
             /\ e.change.add # None => /\ e.change.add \in o => e.change.add \in Cards(v)
                                       /\ fell \/ e.change.add \in Cards(v)
          \/ /\ e.type = "activityAppended"
             /\ e.body.kind = "opened" => e.body.request \notin t.pending
    \/ e.type \in {"turnInterruptRequested", "lifecycleUnchanged", "archiveRequested",
                   "archiveFailed", "archived", "resumed"}

LEMMA LifecycleStep ==
    ASSUME NEW t, Sound(t), NEW v \in Views, NEW o, NEW d, NEW er \in BOOLEAN, NEW fell \in BOOLEAN,
           Match(t, v, o, d, er), Shows(v, fell), NEW n \in Nat, NEW e \in RawEvent,
           e.type \in {"turnInterruptRequested", "lifecycleUnchanged", "archiveRequested",
                       "archiveFailed", "archived", "resumed"}
    PROVE  LET w == FoldOne(v, [seq |-> n, event |-> e]) IN
           /\ Match(ApplyOne(t, e), w, o, d, er /\ ~SetsStatus(e))
           /\ Shows(w, fell \/ e.type = "archiveFailed")
<1>0. t # NoThread /\ t \in Thread
  BY RulesAssumption DEF Sound
<1>1. CASE e.type \in {"turnInterruptRequested", "lifecycleUnchanged"}
  <2>1. ApplyOne(t, e) = t /\ FoldOne(v, [seq |-> n, event |-> e]) = v
    BY <1>0, <1>1 DEF ApplyOne, FoldOne
  <2> QED BY <1>1, <2>1 DEF Match, Shows, SetsStatus
<1>2. CASE e.type = "archiveRequested"
  <2>1. /\ ApplyOne(t, e) = [t EXCEPT !.archiving = TRUE]
        /\ FoldOne(v, [seq |-> n, event |-> e]) = [v EXCEPT !.archiving = TRUE]
    BY <1>0, <1>2 DEF ApplyOne, FoldOne, Muted
  <2> QED BY <1>0, <1>2, <2>1 DEF Match, Shows, SetsStatus, Cards, Views, Thread
<1>3. CASE e.type = "archiveFailed"
  <2>1. /\ ApplyOne(t, e) = [t EXCEPT !.archiving = FALSE]
        /\ FoldOne(v, [seq |-> n, event |-> e]) = [v EXCEPT !.archiving = FALSE]
    BY <1>0, <1>3 DEF ApplyOne, FoldOne, Muted
  <2> QED BY <1>0, <1>3, <2>1 DEF Match, Shows, SetsStatus, Cards, Views, Thread
<1>4. CASE e.type = "archived"
  <2>1. /\ ApplyOne(t, e) = Archived(t, e)
        /\ FoldOne(v, [seq |-> n, event |-> e]) = ArchiveSeen(v)
    BY <1>0, <1>4 DEF ApplyOne, FoldOne, Muted
  <2>2. PICK u : u = Archived(t, e)
    OBVIOUS
  <2>3. /\ u.mode = t.mode /\ u.archived /\ u.archiving = FALSE /\ u.archived = TRUE
        /\ u.pending = {} /\ u.status = "stopped"
    BY <1>0, <2>2 DEF Archived, Thread
  <2>4. PICK x : x = ArchiveSeen(v)
    OBVIOUS
  <2>5. /\ x.mode = v.mode /\ x.archived = TRUE /\ x.archiving = FALSE /\ x.status = "stopped"
        /\ Cards(x) = {}
    BY <2>4 DEF ArchiveSeen, Cards, Views
  <2> QED BY <1>4, <2>1, <2>2, <2>3, <2>4, <2>5 DEF Match, Shows
<1>5. CASE e.type = "resumed"
  <2>1. /\ ApplyOne(t, e) = [t EXCEPT !.archived = FALSE, !.status = "idle"]
        /\ FoldOne(v, [seq |-> n, event |-> e]) = [v EXCEPT !.archived = FALSE, !.status = "idle"]
    BY <1>0, <1>5 DEF ApplyOne, FoldOne, Muted
  <2> QED BY <1>0, <1>5, <2>1 DEF Match, Shows, SetsStatus, Cards, Views, Thread
<1> QED BY <1>1, <1>2, <1>3, <1>4, <1>5

LEMMA WorkStep ==
    ASSUME NEW t, Sound(t), ~Closed(t), NEW v \in Views, NEW o, NEW d, NEW er \in BOOLEAN,
           NEW fell \in BOOLEAN,
           Match(t, v, o, d, er), Shows(v, fell), NEW n \in Nat, NEW e \in RawEvent,
           \/ e.type = "turnStartRequested"
           \/ e.type = "responseRequested" /\ e.request \in t.pending
           \/ e.type = "runtimeModeSet" /\ e.mode \in RuntimeMode
    PROVE  LET w == FoldOne(v, [seq |-> n, event |-> e]) IN
           /\ Match(ApplyOne(t, e), w, o, d, er /\ ~SetsStatus(e)) /\ Shows(w, fell)
<1>0. t # NoThread /\ t \in Thread /\ ~t.archived /\ ~v.archived
  BY RulesAssumption DEF Sound, Closed, Match
<1>1. CASE e.type = "turnStartRequested"
  <2>1. PICK w : w = Row(v, n, "user")
    OBVIOUS
  <2>2. w \in Views /\ SameCore(w, v)
    BY <2>1, RowType, RowCore
  <2>3. /\ ApplyOne(t, e) = TurnStarted(t, e)
        /\ FoldOne(v, [seq |-> n, event |-> e]) = [w EXCEPT !.status = "running"]
    BY <1>0, <1>1, <2>1 DEF ApplyOne, FoldOne, Muted
  <2>4. PICK x : x = [w EXCEPT !.status = "running"]
    OBVIOUS
  <2>5. Like(x, v, "running", Cards(v))
    BY <2>2, <2>4 DEF Like, SameCore, Cards, Views
  <2>6. PICK u : u = TurnStarted(t, e)
    OBVIOUS
  <2>7. /\ u.mode = t.mode /\ u.archived = t.archived /\ u.archiving = t.archiving
        /\ u.pending = t.pending /\ u.status = "running"
    BY <1>0, <2>6 DEF TurnStarted, Thread
  <2> QED BY <1>1, <2>3, <2>4, <2>5, <2>6, <2>7 DEF Match, Shows, SetsStatus, Like
<1>2. CASE e.type = "responseRequested" /\ e.request \in t.pending
  <2>1. PICK r \in Requests : r = e.request
    BY <1>0, <1>2 DEF Thread
  <2>2. /\ ApplyOne(t, e) = Unblocked(t, r)
        /\ FoldOne(v, [seq |-> n, event |-> e]) = Answered(v, n, r)
    BY <1>0, <1>2, <2>1 DEF ApplyOne, FoldOne, Muted
  <2>3. PICK x : x = Answered(v, n, r)
    OBVIOUS
  <2>4. Like(x, v, IF v.status = "waiting" /\ Cards(v) \ {r} = {} THEN "running" ELSE v.status,
             Cards(v) \ {r})
    BY <2>3, AnsweredLike
  <2>5. PICK u : u = Unblocked(t, r)
    OBVIOUS
  <2>6. /\ u.mode = t.mode /\ u.archived = t.archived /\ u.archiving = t.archiving
        /\ u.pending = t.pending \ {r}
        /\ u.status = IF t.status = "waiting" /\ t.pending \subseteq {r} THEN "running" ELSE t.status
    BY <1>0, <2>5 DEF Unblocked, Thread
  <2>7. r \in t.pending /\ ~SetsStatus(e)
    BY <1>2, <2>1 DEF SetsStatus
  <2> QED BY <2>2, <2>3, <2>4, <2>5, <2>6, <2>7 DEF Match, Shows, Like
<1>3. CASE e.type = "runtimeModeSet" /\ e.mode \in RuntimeMode
  <2>1. /\ ApplyOne(t, e) = [t EXCEPT !.mode = e.mode]
        /\ FoldOne(v, [seq |-> n, event |-> e]) = [v EXCEPT !.mode = e.mode]
    BY <1>0, <1>3 DEF ApplyOne, FoldOne, Muted
  <2> QED BY <1>0, <1>3, <2>1 DEF Match, Shows, SetsStatus, Cards, Views, Thread
<1> QED BY <1>1, <1>2, <1>3

\* What a session-set does to the fields that are matched.
LEMMA SessionFields ==
    ASSUME NEW t \in Thread, NEW ch \in SessionChanges
    PROVE  LET u == SessionSet(t, ch) IN
           /\ u.mode = t.mode /\ u.archived = t.archived /\ u.archiving = t.archiving
           /\ u.cutoff = t.cutoff
           /\ \/ /\ ch.add = None /\ ch.remove = None
                 /\ ch.status \in {"running", "idle", "stopped"} /\ u.status = ch.status
                 /\ u.pending \subseteq t.pending
              \/ /\ ch.add \in Requests /\ ch.remove = None
                 /\ ch.status = "waiting" /\ u.status = "waiting"
                 /\ u.pending = t.pending \cup {ch.add}
              \/ /\ ch.add = None /\ ch.remove \in Requests /\ ch.status = None
                 /\ u.pending = t.pending \ {ch.remove}
                 /\ u.status = IF t.status = "waiting" /\ t.pending \subseteq {ch.remove}
                               THEN "running" ELSE t.status
<1>0. /\ None \notin Requests /\ None \notin Instances /\ None \notin Status
      /\ \A s \in {"running", "idle", "waiting", "stopped"} : s # None
  BY RulesAssumption DEF Status
<1>1. ASSUME NEW s \in {"running", "idle"}, NEW i \in Instances \cup {None}, ch = Settling(s, i)
      PROVE  LET u == SessionSet(t, ch) IN
             /\ u.mode = t.mode /\ u.archived = t.archived /\ u.archiving = t.archiving
             /\ u.cutoff = t.cutoff
             /\ ch.add = None /\ ch.remove = None /\ ch.status = s /\ u.status = s
             /\ u.pending = t.pending
  <2>1. /\ ch.status = s /\ ch.cursor = i /\ ch.add = None
        /\ ch.remove = None /\ ch.clear = FALSE /\ s # None
    BY <1>0, <1>1 DEF NoChange, Settling
  <2>2. PICK x : x = Settled(t, s)
    OBVIOUS
  <2>3. SessionSet(t, ch) = IF i = None THEN x ELSE [x EXCEPT !.cursor = i]
    BY <2>1, <2>2 DEF SessionSet, Settled
  <2>4. /\ x \in Thread /\ x.mode = t.mode /\ x.archived = t.archived /\ x.archiving = t.archiving
        /\ x.cutoff = t.cutoff /\ x.status = s /\ x.pending = t.pending
    BY <2>2 DEF Settled, Thread, Status
  <2> QED BY <2>1, <2>3, <2>4 DEF Thread
<1>2. ASSUME NEW r \in Requests, ch = Asking(r)
      PROVE  LET u == SessionSet(t, ch) IN
             /\ u.mode = t.mode /\ u.archived = t.archived /\ u.archiving = t.archiving
             /\ u.cutoff = t.cutoff
             /\ ch.add = r /\ ch.remove = None /\ ch.status = "waiting" /\ u.status = "waiting"
             /\ u.pending = t.pending \cup {r}
  <2>1. /\ ch.status = "waiting" /\ ch.cursor = None /\ ch.add = r
        /\ ch.remove = None /\ ch.clear = FALSE /\ "waiting" # None /\ r # None
    BY <1>0, <1>2 DEF NoChange, Asking
  <2>2. SessionSet(t, ch) = Asked(t, r)
    BY <2>1 DEF SessionSet, Settled, Asked
  <2>3. PICK x : x = Settled(t, "waiting")
    OBVIOUS
  <2>4. /\ x \in Thread /\ x.mode = t.mode /\ x.archived = t.archived /\ x.archiving = t.archiving
        /\ x.cutoff = t.cutoff /\ x.pending = t.pending
    BY <2>3 DEF Settled, Thread, Status
  <2>5. Asked(t, r) = [x EXCEPT !.pending = @ \cup {r}, !.status = "waiting"]
    BY <2>3 DEF Asked
  <2> QED BY <2>1, <2>2, <2>4, <2>5 DEF Thread
<1>3. ASSUME NEW r \in Requests, ch = Resolving(r)
      PROVE  LET u == SessionSet(t, ch) IN
             /\ u.mode = t.mode /\ u.archived = t.archived /\ u.archiving = t.archiving
             /\ u.cutoff = t.cutoff
             /\ ch.add = None /\ ch.remove = r /\ ch.status = None
             /\ u.pending = t.pending \ {r}
             /\ u.status = IF t.status = "waiting" /\ t.pending \subseteq {r} THEN "running" ELSE t.status
  <2>1. SessionSet(t, ch) = Unblocked(t, r)
    BY <1>0, <1>3 DEF NoChange, Resolving, SessionSet
  <2>2. ch.add = None /\ ch.remove = r /\ ch.status = None
    BY <1>3 DEF NoChange, Resolving
  <2> QED BY <2>1, <2>2 DEF Unblocked, Thread
<1>4. ASSUME ch \in {Stopping, Reconciling}
      PROVE  LET u == SessionSet(t, ch) IN
             /\ u.mode = t.mode /\ u.archived = t.archived /\ u.archiving = t.archiving
             /\ u.cutoff = t.cutoff
             /\ ch.add = None /\ ch.remove = None
             /\ ch.status \in {"running", "idle", "stopped"} /\ u.status = ch.status
             /\ u.pending \subseteq t.pending
  <2>1. /\ ch.status \in {"idle", "stopped"} /\ ch.cursor = None /\ ch.add = None
        /\ ch.remove = None /\ ch.status # None
    BY <1>0, <1>4 DEF NoChange, Stopping, Reconciling
  <2>2. PICK x : x = Settled(t, ch.status)
    OBVIOUS
  <2>3. SessionSet(t, ch) = IF ch.clear THEN [x EXCEPT !.pending = {}] ELSE x
    BY <2>1, <2>2 DEF SessionSet, Settled
  <2>4. /\ x \in Thread /\ x.mode = t.mode /\ x.archived = t.archived /\ x.archiving = t.archiving
        /\ x.cutoff = t.cutoff /\ x.status = ch.status /\ x.pending = t.pending
    BY <2>1, <2>2 DEF Settled, Thread, Status
  <2> QED BY <2>1, <2>3, <2>4 DEF Thread
<1>5. \/ \E s \in {"running", "idle"}, i \in Instances \cup {None} : ch = Settling(s, i)
      \/ \E r \in Requests : ch = Asking(r)
      \/ \E r \in Requests : ch = Resolving(r)
      \/ ch \in {Stopping, Reconciling}
  BY DEF SessionChanges
<1> QED BY <1>1, <1>2, <1>3, <1>4, <1>5

LEMMA SessionStep ==
    ASSUME NEW t, Sound(t), ~Closed(t), NEW v \in Views, NEW o, NEW d, NEW er \in BOOLEAN,
           NEW fell \in BOOLEAN,
           Match(t, v, o, d, er), Shows(v, fell), NEW n \in Nat, NEW e \in RawEvent,
           e.type = "sessionSet", Legal(t, v, o, fell, e)
    PROVE  LET w == FoldOne(v, [seq |-> n, event |-> e]) IN
           /\ Match(ApplyOne(t, e), w, o, d, er /\ ~SetsStatus(e)) /\ Shows(w, fell)
<1>0. t # NoThread /\ t \in Thread /\ ~t.archived /\ ~v.archived
  BY RulesAssumption DEF Sound, Closed, Match
<1>1. PICK ch \in SessionChanges : ch = e.change
  BY EventFacts DEF RawEvent
<1>2. /\ ApplyOne(t, e) = SessionSet(t, ch)
      /\ FoldOne(v, [seq |-> n, event |-> e]) = SessionSeen(v, ch)
  BY <1>0, <1>1 DEF ApplyOne, FoldOne, Muted
<1>3. PICK u : u = SessionSet(t, ch)
  OBVIOUS
<1>4. /\ u.mode = t.mode /\ u.archived = t.archived /\ u.archiving = t.archiving
      /\ \/ /\ ch.add = None /\ ch.remove = None
            /\ ch.status \in {"running", "idle", "stopped"} /\ u.status = ch.status
            /\ u.pending \subseteq t.pending
         \/ /\ ch.add \in Requests /\ ch.remove = None
            /\ ch.status = "waiting" /\ u.status = "waiting"
            /\ u.pending = t.pending \cup {ch.add}
         \/ /\ ch.add = None /\ ch.remove \in Requests /\ ch.status = None
            /\ u.pending = t.pending \ {ch.remove}
            /\ u.status = IF t.status = "waiting" /\ t.pending \subseteq {ch.remove}
                          THEN "running" ELSE t.status
  BY <1>0, <1>3, SessionFields
<1>5. /\ None \notin Requests
      /\ "running" # None /\ "idle" # None /\ "waiting" # None /\ "stopped" # None
  BY RulesAssumption DEF Status
<1>6. PICK x : x = SessionSeen(v, ch)
  OBVIOUS
<1>7. SetsStatus(e) <=> ch.status # None
  BY <1>1 DEF SetsStatus
<1>8. CASE ch.remove = None
  <2>1. ch.status # None /\ ch.status \in Status
    BY <1>4, <1>5, <1>8 DEF Status
  <2>2. x = [v EXCEPT !.status = ch.status]
    BY <1>6, <1>8, <2>1 DEF SessionSeen
  <2>3. Like(x, v, ch.status, Cards(v))
    BY <2>2 DEF Like, Cards, Views
  <2>4. ch.add # None => (ch.add \in o => ch.add \in Cards(v)) /\ (fell \/ ch.add \in Cards(v))
    BY <1>1 DEF Legal
  <2> QED BY <1>2, <1>3, <1>4, <1>5, <1>6, <1>7, <1>8, <2>1, <2>3, <2>4 DEF Match, Shows, Like
<1>9. CASE ch.remove # None
  <2>1. ch.status = None /\ ch.remove \in Requests
    BY <1>4, <1>9
  <2>2. PICK r \in Requests : r = ch.remove
    BY <2>1
  <2>3. x = ClosePending(v, r)
    BY <1>6, <1>9, <2>1, <2>2 DEF SessionSeen
  <2>4. Like(x, v, IF v.status = "waiting" /\ Cards(v) \ {r} = {} THEN "running" ELSE v.status,
             Cards(v) \ {r})
    BY <2>3, CloseLike
  <2>5. /\ u.pending = t.pending \ {r}
        /\ u.status = IF t.status = "waiting" /\ t.pending \subseteq {r} THEN "running" ELSE t.status
    BY <1>4, <1>9, <2>2
  <2> QED BY <1>2, <1>3, <1>4, <1>6, <1>7, <2>1, <2>4, <2>5 DEF Match, Shows, Like
<1> QED BY <1>8, <1>9

LEMMA ActivityStep ==
    ASSUME NEW t, Sound(t), ~Closed(t), NEW v \in Views, NEW o, NEW d, NEW er \in BOOLEAN,
           NEW fell \in BOOLEAN,
           Match(t, v, o, d, er), Shows(v, fell), NEW n \in Nat, NEW e \in RawEvent,
           e.type = "activityAppended", Legal(t, v, o, fell, e)
    PROVE  LET w == FoldOne(v, [seq |-> n, event |-> e]) IN
           /\ ApplyOne(t, e) = t
           /\ Match(t, w, o \cup OpenedBy(e), d \cup ResolvedBy(e), IsError(e) \/ er)
           /\ Shows(w, fell)
<1>0. t # NoThread /\ t \in Thread /\ ~t.archived /\ ~v.archived
  BY RulesAssumption DEF Sound, Closed, Match
<1>1. PICK b \in Activity : b = e.body
  BY EventFacts DEF RawEvent
<1>2. e = [type |-> "activityAppended", body |-> b]
  BY <1>1, EventFacts DEF RawEvent
<1>3. /\ ApplyOne(t, e) = t
      /\ FoldOne(v, [seq |-> n, event |-> e]) = ActivitySeen(v, n, b)
  BY <1>0, <1>2 DEF ApplyOne, FoldOne, Muted
<1>4. PICK x : x = ActivitySeen(v, n, b)
  OBVIOUS
<1>5. CASE b.kind = "delta"
  <2>1. x = ApplyDelta(v, b)
    BY <1>4, <1>5 DEF ActivitySeen
  <2>2. Like(x, v, v.status, Cards(v))
    BY <1>5, <2>1, DeltaCore, SameIsLike DEF SameCore, Like, Cards
  <2>3. OpenedBy(e) = {} /\ ResolvedBy(e) = {} /\ ~IsError(e)
    BY <1>2, <1>5 DEF OpenedBy, ResolvedBy, IsError, Opened, Resolved
  <2> QED BY <1>1, <1>3, <1>4, <1>5, <2>2, <2>3 DEF Match, Shows, Like
<1>6. CASE b.kind \in {"error", "reactorError"}
  <2>1. PICK q \in BOOLEAN : x = Failed(v, n, q)
    BY <1>4, <1>6 DEF ActivitySeen, Views
  <2>2. PICK s : Like(x, v, s, Cards(v)) /\ (s = "waiting" => v.status = "waiting")
    BY <2>1, FailedLike
  <2>3. OpenedBy(e) = {} /\ ResolvedBy(e) = {} /\ IsError(e)
    BY <1>2, <1>6 DEF OpenedBy, ResolvedBy, IsError, Opened, Resolved
  <2> QED BY <1>1, <1>3, <1>4, <1>6, <2>2, <2>3 DEF Match, Shows, Like
<1>7. CASE b.kind = "opened"
  <2>1. PICK r \in Requests : r = b.request
    BY <1>7, BodyFacts
  <2>2. x = OpenPending(v, r)
    BY <1>4, <1>7, <2>1 DEF ActivitySeen
  <2>3. Like(x, v, v.status, Cards(v) \cup {r})
    BY <2>2, OpenLike
  <2>4. b = Opened(r)
    BY <1>7, <2>1 DEF Opened, Activity
  <2>5. OpenedBy(e) = {r} /\ ResolvedBy(e) = {} /\ ~IsError(e)
    BY <1>2, <2>4 DEF OpenedBy, ResolvedBy, IsError, Opened, Resolved
  <2>6. r \notin t.pending
    BY <1>1, <1>7, <2>1 DEF Legal
  <2> QED BY <1>1, <1>3, <1>4, <2>1, <2>3, <2>5, <2>6 DEF Match, Shows, Like
<1>8. CASE b.kind = "resolved"
  <2>1. PICK r \in Requests : r = b.request
    BY <1>8, BodyFacts
  <2>2. x = ClosePending(v, r)
    BY <1>4, <1>8, <2>1 DEF ActivitySeen
  <2>3. Like(x, v, IF v.status = "waiting" /\ Cards(v) \ {r} = {} THEN "running" ELSE v.status,
             Cards(v) \ {r})
    BY <2>2, CloseLike
  <2>4. b = Resolved(r)
    BY <1>8, <2>1 DEF Resolved, Activity
  <2>5. OpenedBy(e) = {} /\ ResolvedBy(e) = {r} /\ ~IsError(e)
    BY <1>2, <2>4 DEF OpenedBy, ResolvedBy, IsError, Opened, Resolved
  <2> QED BY <1>1, <1>3, <1>4, <1>8, <2>1, <2>3, <2>5 DEF Match, Shows, Like
<1> QED BY <1>5, <1>6, <1>7, <1>8, BodyFacts

LEMMA LegalStep ==
    ASSUME NEW t, Sound(t), NEW v \in Views, NEW o, NEW d, NEW er \in BOOLEAN, NEW fell \in BOOLEAN,
           Match(t, v, o, d, er), Shows(v, fell), NEW n \in Nat, NEW e \in RawEvent,
           Legal(t, v, o, fell, e)
    PROVE  LET w == FoldOne(v, [seq |-> n, event |-> e]) IN
           /\ Match(ApplyOne(t, e), w, o \cup OpenedBy(e), d \cup ResolvedBy(e),
                    IsError(e) \/ (er /\ ~SetsStatus(e)))
           /\ Shows(w, fell \/ e.type = "archiveFailed")
<1>1. CASE e.type = "activityAppended"
  <2>1. ~Closed(t) /\ ~SetsStatus(e)
    BY <1>1 DEF Legal, SetsStatus
  <2>2. PICK w : w = FoldOne(v, [seq |-> n, event |-> e])
    OBVIOUS
  <2>3. /\ ApplyOne(t, e) = t
        /\ Match(t, w, o \cup OpenedBy(e), d \cup ResolvedBy(e), IsError(e) \/ er)
        /\ Shows(w, fell)
    BY <1>1, <2>1, <2>2, ActivityStep
  <2> QED BY <1>1, <2>1, <2>2, <2>3 DEF Match, Shows
<1>2. CASE e.type # "activityAppended"
  <2>1. OpenedBy(e) = {} /\ ResolvedBy(e) = {} /\ ~IsError(e)
    BY <1>2 DEF OpenedBy, ResolvedBy, IsError
  <2>2. PICK w : w = FoldOne(v, [seq |-> n, event |-> e])
    OBVIOUS
  <2>3. Match(ApplyOne(t, e), w, o, d, er /\ ~SetsStatus(e)) /\ Shows(w, fell \/ e.type = "archiveFailed")
    <3>1. CASE e.type = "sessionSet"
      <4>1. ~Closed(t)
        BY <3>1 DEF Legal
      <4> QED BY <2>2, <3>1, <4>1, SessionStep DEF Shows
    <3>2. CASE e.type \in {"turnStartRequested", "responseRequested", "runtimeModeSet"}
      <4>1. /\ ~Closed(t)
            /\ \/ e.type = "turnStartRequested"
               \/ e.type = "responseRequested" /\ e.request \in t.pending
               \/ e.type = "runtimeModeSet" /\ e.mode \in RuntimeMode
        BY <3>2 DEF Legal
      <4> QED BY <2>2, <3>2, <4>1, WorkStep DEF Shows
    <3>3. CASE e.type \in {"turnInterruptRequested", "lifecycleUnchanged", "archiveRequested",
                           "archiveFailed", "archived", "resumed"}
      BY <2>2, <3>3, LifecycleStep
    <3> QED BY <1>2, <3>1, <3>2, <3>3 DEF Legal
  <2> QED BY <2>1, <2>2, <2>3 DEF Match
<1> QED BY <1>1, <1>2

LEMMA MatchBySeq ==
    ASSUME NEW t, NEW v \in Views, NEW o, NEW d, NEW er, NEW n \in Nat
    PROVE  LET w == [v EXCEPT !.lastSeq = n] IN
           /\ w \in Views /\ Cards(w) = Cards(v) /\ SameCore(v, w)
           /\ Match(t, v, o, d, er) => Match(t, w, o, d, er)
           /\ \A fell : Shows(v, fell) => Shows(w, fell)
<1>1. PICK w : w = [v EXCEPT !.lastSeq = n]
  OBVIOUS
<1>2. /\ w \in Views /\ Cards(w) = Cards(v) /\ w.status = v.status
      /\ w.mode = v.mode /\ w.archived = v.archived /\ w.archiving = v.archiving
      /\ SameCore(v, w)
  BY <1>1 DEF Cards, Views, SameCore
<1> QED BY <1>1, <1>2 DEF Match, Shows

LEMMA WorldTypes ==
    ASSUME NEW t, NEW l, World(t, l)
    PROVE  /\ l \in Seq(RawEvent) /\ l \in Seq(LogEvent) /\ Len(l) \in Nat
           /\ \A n \in 0..Len(l) : At(l, n) \in Views /\ At(l, n).lastSeq = n
           /\ OpenedIn(l) \subseteq Requests
           /\ FellIn(l) \in BOOLEAN /\ ErrorIn(l) \in BOOLEAN
<1>1. l \in Seq(RawEvent) /\ l \in Seq(LogEvent)
  BY RawIsLogged DEF World
<1>2. \A n \in 0..Len(l) : At(l, n) \in Views /\ At(l, n).lastSeq = n
  BY <1>1, AtType
<1> QED BY <1>1, <1>2 DEF OpenedIn, FellIn, ErrorIn

LEMMA WorldStep ==
    ASSUME NEW t, NEW l, World(t, l), t # NoThread, NEW e \in RawEvent,
           Legal(t, At(l, Len(l)), OpenedIn(l), FellIn(l), e), Sound(ApplyOne(t, e))
    PROVE  World(ApplyOne(t, e), l \o <<e>>)
<1>1. PICK k : k = l \o <<e>>
  OBVIOUS
<1>2. PICK m \in Nat : m = Len(l)
  BY DEF World
<1>3. l \in Seq(RawEvent)
  BY DEF World
<1>4. /\ k \in Seq(RawEvent) /\ Len(k) = m + 1
      /\ OpenedIn(k) = OpenedIn(l) \cup OpenedBy(e)
      /\ ResolvedIn(k) = ResolvedIn(l) \cup ResolvedBy(e)
      /\ FellIn(k) <=> FellIn(l) \/ e.type = "archiveFailed"
      /\ ErrorIn(k) <=> IsError(e) \/ (ErrorIn(l) /\ ~SetsStatus(e))
      /\ \A n \in 0..m : At(k, n) = At(l, n)
      /\ At(k, m + 1) = [FoldOne(At(l, m), [seq |-> m + 1, event |-> e]) EXCEPT !.lastSeq = m + 1]
  BY <1>1, <1>2, <1>3, LogGrows
<1>5. PICK v : v = At(l, m)
  OBVIOUS
<1>6. v \in Views /\ m \in 0..m /\ m + 1 \in Nat /\ FellIn(l) \in BOOLEAN /\ ErrorIn(l) \in BOOLEAN
  BY <1>2, <1>5, WorldTypes
<1>7. /\ Sound(t) /\ Match(t, v, OpenedIn(l), ResolvedIn(l), ErrorIn(l)) /\ Shows(v, FellIn(l))
      /\ Legal(t, v, OpenedIn(l), FellIn(l), e)
  BY <1>2, <1>5, <1>6 DEF World
<1>8. PICK w : w = FoldOne(v, [seq |-> m + 1, event |-> e])
  OBVIOUS
<1>9. w \in Views
  <2>1. [seq |-> m + 1, event |-> e] \in WireEvent
    BY <1>6 DEF WireEvent, RawEvent
  <2> QED BY <1>6, <1>8, <2>1, FoldOneType
<1>10. /\ Match(ApplyOne(t, e), w, OpenedIn(k), ResolvedIn(k), IsError(e) \/ (ErrorIn(l) /\ ~SetsStatus(e)))
       /\ Shows(w, FellIn(l) \/ e.type = "archiveFailed")
  <2>1. /\ Match(ApplyOne(t, e), w, OpenedIn(l) \cup OpenedBy(e), ResolvedIn(l) \cup ResolvedBy(e),
                 IsError(e) \/ (ErrorIn(l) /\ ~SetsStatus(e)))
        /\ Shows(w, FellIn(l) \/ e.type = "archiveFailed")
    <3>1. PICK o : o = OpenedIn(l)
      OBVIOUS
    <3>2. PICK d : d = ResolvedIn(l)
      OBVIOUS
    <3>3. PICK er \in BOOLEAN : er <=> ErrorIn(l)
      OBVIOUS
    <3>4. PICK fell \in BOOLEAN : fell <=> FellIn(l)
      OBVIOUS
    <3>5. Match(t, v, o, d, er) /\ Shows(v, fell) /\ Legal(t, v, o, fell, e)
      BY <1>7, <3>1, <3>2, <3>3, <3>4 DEF Match, Shows, Legal
    <3>6. PICK n \in Nat : n = m + 1
      BY <1>6
    <3>7. w = FoldOne(v, [seq |-> n, event |-> e])
      BY <1>8, <3>6
    <3>8. /\ Match(ApplyOne(t, e), w, o \cup OpenedBy(e), d \cup ResolvedBy(e),
                   IsError(e) \/ (er /\ ~SetsStatus(e)))
          /\ Shows(w, fell \/ e.type = "archiveFailed")
      <4>1. Sound(t)
        BY <1>7
      <4>2. v \in Views
        BY <1>6
      <4>3. Match(t, v, o, d, er)
        BY <3>5
      <4>4. Shows(v, fell)
        BY <3>5
      <4>5. Legal(t, v, o, fell, e)
        BY <3>5
      <4>6. LET u == FoldOne(v, [seq |-> n, event |-> e]) IN
            /\ Match(ApplyOne(t, e), u, o \cup OpenedBy(e), d \cup ResolvedBy(e),
                     IsError(e) \/ (er /\ ~SetsStatus(e)))
            /\ Shows(u, fell \/ e.type = "archiveFailed")
        BY <4>1, <4>2, <4>3, <4>4, <4>5, LegalStep, SMTT(60)
      <4> QED BY <3>7, <4>6, Zenon
    <3> QED BY <3>1, <3>2, <3>3, <3>4, <3>8 DEF Match, Shows
  <2> QED BY <1>4, <2>1
<1>11. /\ Match(ApplyOne(t, e), At(k, m + 1), OpenedIn(k), ResolvedIn(k), ErrorIn(k))
       /\ Shows(At(k, m + 1), FellIn(k))
  <2>1. At(k, m + 1) = [w EXCEPT !.lastSeq = m + 1]
    BY <1>4, <1>5, <1>8
  <2>2. Match(ApplyOne(t, e), w, OpenedIn(k), ResolvedIn(k), ErrorIn(k)) /\ Shows(w, FellIn(k))
    BY <1>4, <1>10 DEF Match, Shows
  <2> QED BY <1>6, <1>9, <2>1, <2>2, MatchBySeq
<1>12. \A n \in 0..(m + 1) : Shows(At(k, n), FellIn(k))
  <2>1. \A n \in 0..m : Shows(At(k, n), FellIn(k))
    BY <1>2, <1>4 DEF World, Shows
  <2>2. \A n \in 0..(m + 1) : n \in 0..m \/ n = m + 1
    OBVIOUS
  <2> QED BY <1>11, <2>1, <2>2
<1>13. ApplyOne(t, e) # NoThread
  BY RulesAssumption DEF Sound
<1> QED BY <1>1, <1>4, <1>11, <1>12, <1>13 DEF World

LEMMA WorldStart == World(NoThread, <<>>)
<1>1. <<>> \in Seq(RawEvent) /\ Len(<<>>) = 0
  OBVIOUS
<1>2. Shows(At(<<>>, 0), FellIn(<<>>))
  BY AtStart DEF Shows, EmptyView
<1>3. \A n \in 0..0 : n = 0
  OBVIOUS
<1> QED BY <1>1, <1>2, <1>3 DEF World

LEMMA WorldCreated ==
    ASSUME NEW i \in Instances
    PROVE  LET e == [type |-> "created", instance |-> i,
                     mode |-> IF i \in Antigravity THEN "auto" ELSE None]
           IN  /\ e \in RawEvent /\ Sound(NewThread(e)) /\ World(NewThread(e), <<e>>)
               /\ NewThread(e).cutoff = 0
<1>1. PICK m : m = IF i \in Antigravity THEN "auto" ELSE None
  OBVIOUS
<1>2. PICK e : e = [type |-> "created", instance |-> i, mode |-> m]
  OBVIOUS
<1>3. /\ e.type = "created" /\ e.instance = i /\ e.mode = m
      /\ e \in [type : {"created"}, instance : Instances, mode : ThreadMode \cup {None}]
  BY <1>1, <1>2 DEF ThreadMode, RuntimeMode
<1>4. e \in RawEvent
  <2>1. e \in Event
    BY <1>3 DEF Event
  <2> QED BY <1>3, <2>1 DEF RawEvent, LogEvent, IsDelta
<1>5. None \notin ThreadMode
  BY RulesAssumption
<1>6. Sound(NewThread(e))
  BY <1>1, <1>3, NewThreadSound DEF AntigravityModes
<1>7. PICK t : t = NewThread(e)
  OBVIOUS
<1>8. /\ t.status = "idle" /\ t.archived = FALSE /\ t.archiving = FALSE /\ t.pending = {}
      /\ t.mode = IF i \in Antigravity THEN "auto" ELSE "approval-required"
      /\ t.cutoff = 0
  BY <1>1, <1>3, <1>5, <1>7 DEF NewThread, ThreadMode, RuntimeMode
<1>9. PICK k : k = <<>> \o <<e>>
  OBVIOUS
<1>10. k = <<e>> /\ k \in Seq(RawEvent) /\ Len(k) = 1 /\ <<>> \in Seq(RawEvent) /\ Len(<<>>) = 0
  BY <1>4, <1>9
<1>11. /\ At(k, 0) = At(<<>>, 0)
       /\ At(k, 1) = [FoldOne(At(<<>>, 0), [seq |-> 1, event |-> e]) EXCEPT !.lastSeq = 1]
  <2>1. PICK l \in Seq(RawEvent) : l = <<>>
    BY <1>10
  <2>2. Len(l) = 0 /\ k = l \o <<e>> /\ 0 \in 0..0 /\ 0 + 1 = 1
    BY <1>9, <2>1
  <2>3. /\ \A n \in 0..Len(l) : At(k, n) = At(l, n)
        /\ At(k, Len(l) + 1) = [FoldOne(At(l, Len(l)), [seq |-> Len(l) + 1, event |-> e])
                                  EXCEPT !.lastSeq = Len(l) + 1]
    <3>1. PICK h : h = l \o <<e>>
      OBVIOUS
    <3>2. PICK m0 \in Nat : m0 = Len(l)
      OBVIOUS
    <3>3. /\ \A n \in 0..m0 : At(h, n) = At(l, n)
          /\ At(h, m0 + 1) = [FoldOne(At(l, m0), [seq |-> m0 + 1, event |-> e])
                                 EXCEPT !.lastSeq = m0 + 1]
      BY <1>4, <3>1, <3>2, LogGrows
    <3> QED BY <2>2, <3>1, <3>2, <3>3
  <2>4. /\ At(k, 0) = At(l, 0)
        /\ At(k, 1) = [FoldOne(At(l, 0), [seq |-> 1, event |-> e]) EXCEPT !.lastSeq = 1]
    BY <2>2, <2>3
  <2> QED BY <2>1, <2>4
<1>12. At(<<>>, 0) = EmptyView /\ EmptyView \in Views
  BY AtStart, EmptyViewType
<1>13. PICK w : w = FoldOne(EmptyView, [seq |-> 1, event |-> e])
  OBVIOUS
<1>14. w = [EmptyView EXCEPT !.mode = t.mode]
  <2>1. t.mode = IF m \in RuntimeMode THEN m ELSE "approval-required"
    BY <1>1, <1>5, <1>8 DEF ThreadMode, RuntimeMode
  <2> QED BY <1>3, <1>13, <2>1 DEF FoldOne
<1>15. /\ w \in Views /\ w.mode = t.mode /\ w.archived = FALSE /\ w.archiving = FALSE
       /\ w.status = "idle" /\ Cards(w) = {}
  <2>1. t.mode \in RuntimeMode
    BY <1>8 DEF RuntimeMode
  <2>2. EmptyView.status = "idle" /\ Cards(EmptyView) = {} /\ EmptyView.archived = FALSE
        /\ EmptyView.archiving = FALSE
    BY DEF EmptyView, Cards
  <2> QED BY <1>12, <1>14, <2>1, <2>2 DEF Views, Cards
<1>16. Match(t, w, OpenedIn(k), ResolvedIn(k), ErrorIn(k)) /\ Shows(w, FellIn(k))
  BY <1>8, <1>15 DEF Match, Shows
<1>17. Match(t, At(k, 1), OpenedIn(k), ResolvedIn(k), ErrorIn(k)) /\ Shows(At(k, 1), FellIn(k))
  <2>1. At(k, 1) = [w EXCEPT !.lastSeq = 1] /\ 1 \in Nat
    BY <1>11, <1>12, <1>13
  <2> QED BY <1>15, <1>16, <2>1, MatchBySeq
<1>18. Shows(At(k, 0), FellIn(k))
  BY <1>11, <1>12 DEF Shows, EmptyView
<1>19. \A n \in 0..1 : n = 0 \/ n = 1
  OBVIOUS
<1>20. t # NoThread
  BY <1>6, <1>7, RulesAssumption DEF Sound
<1>21. World(t, k)
  BY <1>6, <1>7, <1>10, <1>17, <1>18, <1>19, <1>20 DEF World
<1> QED BY <1>1, <1>2, <1>4, <1>6, <1>7, <1>8, <1>10, <1>21

-----------------------------------------------------------------------------
(***************************************************************************)
(* What commands come to.                                                  *)
(***************************************************************************)

\* Events, of the thread t.
EventsOf(t, c) ==
    IF ~Accepts(t, c) THEN <<>>
    ELSE IF c.type = "activityAppend" /\ ~Fenced(t, c)
         THEN <<[type |-> "activityAppended", body |-> c.body]>>
         ELSE Decide(t, c)

\* Of those that can follow, the ones that users and the Reactor bring about.
UserLegal(t, e) ==
    \/ /\ ~Closed(t)
       /\ \/ e.type = "turnStartRequested"
          \/ e.type = "responseRequested" /\ e.request \in t.pending
          \/ e.type = "runtimeModeSet" /\ e.mode \in RuntimeMode
    \/ e.type \in {"turnInterruptRequested", "lifecycleUnchanged", "archiveRequested",
                   "archiveFailed", "archived", "resumed"}

\* How the Reactor ends an archive.
ReactorCommand ==
    [type : {"archiveComplete"}, cutoff : Times] \cup [type : {"archiveFailed"}]

LEMMA UserEvents ==
    ASSUME NEW t, Sound(t), NEW c \in UserCommand \cup ReactorCommand
    PROVE  \/ EventsOf(t, c) = <<>>
           \/ \E e \in RawEvent :
                /\ EventsOf(t, c) = <<e>> /\ UserLegal(t, e) /\ Sound(ApplyOne(t, e))
                /\ e.type = "archived" => c.type = "archiveComplete" /\ e.cutoff = c.cutoff
<1>1. CASE ~Accepts(t, c)
  BY <1>1 DEF EventsOf
<1>2. CASE Accepts(t, c)
  <2>1. /\ c \in Command
        /\ c.type \in {"turnStart", "turnInterrupt", "runtimeModeSet", "respond", "archive",
                       "resume", "archiveComplete", "archiveFailed"}
        /\ c.type = "turnStart" => c.instance = None
    <3>1. CASE c \in UserCommand
      <4>1. /\ c \in Command
            /\ c.type \in {"turnStart", "turnInterrupt", "runtimeModeSet", "respond", "archive",
                           "resume"}
            /\ c.type = "turnStart" => c.instance = None
        BY <3>1 DEF UserCommand
      <4> QED BY <4>1
    <3>2. CASE c \in ReactorCommand
      BY <3>2 DEF ReactorCommand, Command
    <3> QED BY <3>1, <3>2
  <2>2. ~Fenced(t, c) /\ c.type # "activityAppend"
    BY <2>1 DEF Fenced
  <2>3. EventsOf(t, c) = Decide(t, c)
    BY <1>2, <2>2 DEF EventsOf
  <2>4. t # NoThread /\ t \in Thread
    BY RulesAssumption DEF Sound
  <2>5. ASSUME NEW e, Decide(t, c) = <<e>>, UserLegal(t, e), e \in RawEvent,
               e.type = "archived" => c.type = "archiveComplete" /\ e.cutoff = c.cutoff
        PROVE  \E x \in RawEvent :
                 /\ EventsOf(t, c) = <<x>> /\ UserLegal(t, x) /\ Sound(ApplyOne(t, x))
                 /\ x.type = "archived" => c.type = "archiveComplete" /\ x.cutoff = c.cutoff
    <3>1. Sound(Apply(t, Decide(t, c)))
      BY <1>2, <2>1, HandleSound
    <3>2. Apply(t, <<e>>) = ApplyOne(t, e)
      BY DEF Apply
    <3> QED BY <2>3, <2>5, <3>1, <3>2
  <2>6. ASSUME NEW e \in Event, e.type # "activityAppended" PROVE e \in RawEvent
    BY <2>6 DEF RawEvent, LogEvent, IsDelta
  <2>7. CASE c.type = "turnStart"
    <3>1. ~Rehomed(t, c)
      BY <2>1, <2>7 DEF Rehomed, TurnInstance
    <3>2. PICK e : e = [type |-> "turnStartRequested", instance |-> c.instance]
      OBVIOUS
    <3>3. Decide(t, c) = <<e>>
      BY <2>2, <2>7, <3>1, <3>2 DEF Decide
    <3>4. e \in Event /\ e.type = "turnStartRequested"
      BY <2>1, <2>7, <3>2 DEF Event
    <3>5. ~Closed(t)
      BY <1>2, <2>2, <2>7 DEF Accepts, WorkCommands
    <3> QED BY <2>5, <2>6, <3>3, <3>4, <3>5 DEF UserLegal
  <2>8. CASE c.type = "respond"
    <3>1. PICK e : e = [type |-> "responseRequested", request |-> c.request]
      OBVIOUS
    <3>2. Decide(t, c) = <<e>>
      BY <2>2, <2>8, <3>1 DEF Decide
    <3>3. c.request \in Requests
      BY <2>1, <2>8 DEF Command
    <3>4. e \in Event /\ e.type = "responseRequested" /\ e.request = c.request
      BY <3>1, <3>3 DEF Event
    <3>5. ~Closed(t) /\ c.request \in t.pending
      BY <1>2, <2>2, <2>8 DEF Accepts, WorkCommands
    <3> QED BY <2>5, <2>6, <3>2, <3>4, <3>5 DEF UserLegal
  <2>9. CASE c.type = "runtimeModeSet"
    <3>1. PICK e : e = [type |-> "runtimeModeSet", mode |-> c.mode]
      OBVIOUS
    <3>2. Decide(t, c) = <<e>>
      BY <2>2, <2>9, <3>1 DEF Decide
    <3>3. ~Closed(t) /\ c.mode \in RuntimeMode
      BY <1>2, <2>2, <2>9 DEF Accepts, WorkCommands
    <3>4. e \in Event /\ e.type = "runtimeModeSet" /\ e.mode = c.mode
      BY <3>1, <3>3 DEF Event, ThreadMode
    <3> QED BY <2>5, <2>6, <3>2, <3>3, <3>4 DEF UserLegal
  <2>10. CASE c.type \in {"archive", "resume", "turnInterrupt", "archiveFailed"}
    <3>1. PICK ty \in {"lifecycleUnchanged", "archiveRequested", "resumed", "turnInterruptRequested",
                       "archiveFailed"} : Decide(t, c) = <<[type |-> ty]>>
      BY <2>2, <2>10 DEF Decide
    <3>2. PICK e : e = [type |-> ty]
      OBVIOUS
    <3>3. e \in Event /\ e.type = ty
      BY <3>2 DEF Event
    <3> QED BY <2>5, <2>6, <3>1, <3>2, <3>3 DEF UserLegal
  <2>11. CASE c.type = "archiveComplete"
    <3>1. CASE t.archived
      BY <2>2, <2>3, <2>11, <3>1 DEF Decide
    <3>2. CASE ~t.archived
      <4>1. PICK e : e = [type |-> "archived", cutoff |-> c.cutoff]
        OBVIOUS
      <4>2. Decide(t, c) = <<e>>
        BY <2>2, <2>11, <3>2, <4>1 DEF Decide
      <4>3. c.cutoff \in Times
        BY <2>1, <2>11 DEF Command
      <4>4. e \in Event /\ e.type = "archived" /\ e.cutoff = c.cutoff
        BY <4>1, <4>3 DEF Event
      <4> QED BY <2>5, <2>6, <2>11, <4>2, <4>4 DEF UserLegal
    <3> QED BY <3>1, <3>2
  <2> QED BY <2>1, <2>7, <2>8, <2>9, <2>10, <2>11
<1> QED BY <1>1, <1>2

\* What matters of them to a card that an event handler has in hand.
LEMMA UserFields ==
    ASSUME NEW t, Sound(t), NEW v \in Views, NEW o, NEW d, NEW er, Match(t, v, o, d, er),
           NEW n \in Nat, NEW e \in RawEvent, UserLegal(t, e),
           NEW now \in Nat, t.cutoff <= now, e.type = "archived" => e.cutoff = now
    PROVE  LET u == ApplyOne(t, e)
               w == FoldOne(v, [seq |-> n, event |-> e])
           IN  /\ u.pending \subseteq t.pending
               /\ u.cutoff \in {t.cutoff, now}
               /\ u.archived => t.archived \/ u.cutoff = now
               /\ t.archiving => u.archiving \/ e.type = "archiveFailed" \/ u.cutoff = now
               /\ u.cutoff = now \/ (\A r \in Cards(v) : r \in t.pending \/ r \in Cards(w))
<1>0. t # NoThread /\ t \in Thread /\ v.archived = t.archived
  BY RulesAssumption DEF Sound, Match
<1>1. CASE e.type \in {"turnInterruptRequested", "lifecycleUnchanged"}
  <2>1. ApplyOne(t, e) = t /\ FoldOne(v, [seq |-> n, event |-> e]) = v
    BY <1>0, <1>1 DEF ApplyOne, FoldOne
  <2> QED BY <2>1
<1>2. CASE e.type = "archiveRequested"
  <2>1. /\ ApplyOne(t, e) = [t EXCEPT !.archiving = TRUE]
        /\ FoldOne(v, [seq |-> n, event |-> e]) = [v EXCEPT !.archiving = TRUE]
    BY <1>0, <1>2 DEF ApplyOne, FoldOne, Muted
  <2> QED BY <1>0, <1>2, <2>1 DEF Cards, Views, Thread
<1>3. CASE e.type = "archiveFailed"
  <2>1. /\ ApplyOne(t, e) = [t EXCEPT !.archiving = FALSE]
        /\ FoldOne(v, [seq |-> n, event |-> e]) = [v EXCEPT !.archiving = FALSE]
    BY <1>0, <1>3 DEF ApplyOne, FoldOne, Muted
  <2> QED BY <1>0, <1>3, <2>1 DEF Cards, Views, Thread
<1>4. CASE e.type = "archived"
  <2>1. ApplyOne(t, e) = Archived(t, e)
    BY <1>0, <1>4 DEF ApplyOne, Muted
  <2> QED BY <1>0, <1>4, <2>1 DEF Thread, Archived
<1>5. CASE e.type = "resumed"
  <2>1. /\ ApplyOne(t, e) = [t EXCEPT !.archived = FALSE, !.status = "idle"]
        /\ FoldOne(v, [seq |-> n, event |-> e]) = [v EXCEPT !.archived = FALSE, !.status = "idle"]
    BY <1>0, <1>5 DEF ApplyOne, FoldOne, Muted
  <2> QED BY <1>0, <1>5, <2>1 DEF Cards, Views, Thread
<1>6. ASSUME ~Closed(t) PROVE ~t.archived /\ ~v.archived
  BY <1>0, <1>6 DEF Closed
<1>7. CASE ~Closed(t) /\ e.type = "turnStartRequested"
  <2>1. PICK w : w = Row(v, n, "user")
    OBVIOUS
  <2>2. w \in Views /\ SameCore(w, v)
    BY <2>1, RowType, RowCore
  <2>3. /\ ApplyOne(t, e) = TurnStarted(t, e)
        /\ FoldOne(v, [seq |-> n, event |-> e]) = [w EXCEPT !.status = "running"]
    BY <1>0, <1>6, <1>7, <2>1 DEF ApplyOne, FoldOne, Muted
  <2>4. PICK x : x = [w EXCEPT !.status = "running"]
    OBVIOUS
  <2>5. Cards(x) = Cards(v)
    BY <2>2, <2>4 DEF SameCore, Cards, Views
  <2>6. PICK u : u = TurnStarted(t, e)
    OBVIOUS
  <2>7. u.archived = t.archived /\ u.archiving = t.archiving /\ u.pending = t.pending /\ u.cutoff = t.cutoff
    BY <1>0, <2>6 DEF TurnStarted, Thread
  <2> QED BY <2>3, <2>4, <2>5, <2>6, <2>7
<1>8. CASE ~Closed(t) /\ e.type = "responseRequested" /\ e.request \in t.pending
  <2>1. PICK r \in Requests : r = e.request
    BY <1>0, <1>8 DEF Thread
  <2>2. /\ ApplyOne(t, e) = Unblocked(t, r)
        /\ FoldOne(v, [seq |-> n, event |-> e]) = Answered(v, n, r)
    BY <1>0, <1>6, <1>8, <2>1 DEF ApplyOne, FoldOne, Muted
  <2>3. PICK x : x = Answered(v, n, r)
    OBVIOUS
  <2>4. Cards(x) = Cards(v) \ {r}
    BY <2>3, AnsweredLike DEF Like
  <2>5. PICK u : u = Unblocked(t, r)
    OBVIOUS
  <2>6. /\ u.archived = t.archived /\ u.archiving = t.archiving
        /\ u.pending = t.pending \ {r} /\ u.cutoff = t.cutoff
    BY <1>0, <2>5 DEF Unblocked, Thread
  <2>7. r \in t.pending
    BY <1>8, <2>1
  <2> QED BY <2>2, <2>3, <2>4, <2>5, <2>6, <2>7
<1>9. CASE ~Closed(t) /\ e.type = "runtimeModeSet"
  <2>1. ApplyOne(t, e) = [t EXCEPT !.mode = e.mode]
    BY <1>0, <1>9 DEF ApplyOne, Muted
  <2>2. PICK x : x = FoldOne(v, [seq |-> n, event |-> e])
    OBVIOUS
  <2>3. Cards(x) = Cards(v)
    BY <1>9, <2>2 DEF FoldOne, Cards, Views
  <2> QED BY <1>0, <2>1, <2>2, <2>3 DEF Thread
<1> QED BY <1>1, <1>2, <1>3, <1>4, <1>5, <1>7, <1>8, <1>9 DEF UserLegal

LEMMA HandyStep ==
    ASSUME NEW t, NEW l, World(t, l), t # NoThread, NEW e \in RawEvent, UserLegal(t, e),
           NEW now \in Nat, t.cutoff <= now, e.type = "archived" => e.cutoff = now,
           NEW h \in Seq(HandCommand), \A k \in 1..Len(h) : h[k].at <= now,
           Handy(h, t, At(l, Len(l)), OpenedIn(l), FellIn(l))
    PROVE  LET k == l \o <<e>> IN
           Handy(h, ApplyOne(t, e), At(k, Len(k)), OpenedIn(k), FellIn(k))
<1>1. PICK k : k = l \o <<e>>
  OBVIOUS
<1>2. PICK m \in Nat : m = Len(l)
  BY DEF World
<1>3. l \in Seq(RawEvent)
  BY DEF World
<1>4. /\ k \in Seq(RawEvent) /\ Len(k) = m + 1
      /\ OpenedIn(k) = OpenedIn(l) \cup OpenedBy(e)
      /\ FellIn(k) <=> FellIn(l) \/ e.type = "archiveFailed"
      /\ At(k, m + 1) = [FoldOne(At(l, m), [seq |-> m + 1, event |-> e]) EXCEPT !.lastSeq = m + 1]
  BY <1>1, <1>2, <1>3, LogGrows
<1>5. PICK v : v = At(l, m)
  OBVIOUS
<1>6. v \in Views /\ m \in 0..m /\ m + 1 \in Nat
  BY <1>2, <1>5, WorldTypes
<1>7. Sound(t) /\ Match(t, v, OpenedIn(l), ResolvedIn(l), ErrorIn(l))
  BY <1>2, <1>5 DEF World
<1>8. PICK w : w = FoldOne(v, [seq |-> m + 1, event |-> e])
  OBVIOUS
<1>9. w \in Views
  <2>1. [seq |-> m + 1, event |-> e] \in WireEvent
    BY <1>6 DEF WireEvent, RawEvent
  <2> QED BY <1>6, <1>8, <2>1, FoldOneType
<1>10. PICK u : u = ApplyOne(t, e)
  OBVIOUS
<1>11. /\ u.pending \subseteq t.pending
       /\ u.cutoff \in {t.cutoff, now}
       /\ u.archived => t.archived \/ u.cutoff = now
       /\ t.archiving => u.archiving \/ e.type = "archiveFailed" \/ u.cutoff = now
       /\ u.cutoff = now \/ (\A r \in Cards(v) : r \in t.pending \/ r \in Cards(w))
  BY <1>6, <1>7, <1>8, <1>10, UserFields
<1>12. Cards(At(k, m + 1)) = Cards(w)
  <2>1. At(k, m + 1) = [w EXCEPT !.lastSeq = m + 1]
    BY <1>4, <1>5, <1>8
  <2> QED BY <1>6, <1>9, <2>1, MatchBySeq
<1>13. OpenedIn(k) = OpenedIn(l)
  <2>1. e.type # "activityAppended"
    BY DEF UserLegal
  <2>2. OpenedBy(e) = {}
    BY <2>1 DEF OpenedBy
  <2> QED BY <1>4, <2>2
<1>14. PICK y : y = At(k, m + 1)
  OBVIOUS
<1> SUFFICES Handy(h, u, y, OpenedIn(k), FellIn(k))
  BY <1>1, <1>4, <1>10, <1>14
<1>15. Handy(h, t, v, OpenedIn(l), FellIn(l))
  BY <1>2, <1>5
<1>16. t.cutoff \in Nat /\ Times \subseteq Nat /\ \A a \in Times : a \in Nat
  <2>1. Times \subseteq Nat
    BY RulesAssumption
  <2>2. t.cutoff \in Times \cup {0}
    BY <1>7 DEF Sound, Thread
  <2>3. t.cutoff \in Nat
    <3>1. CASE t.cutoff \in Times
      BY <2>1, <3>1
    <3>2. CASE t.cutoff = 0
      BY <3>2
    <3> QED BY <2>2, <3>1, <3>2
  <2> QED BY <2>1, <2>3
<1>17. CASE \A j \in 1..Len(h) : ~Opens(h[j]) /\ ~Asks(h[j])
  BY <1>17 DEF Handy
<1>18. ASSUME NEW r \in Requests, NEW a \in Times, h = <<OpenAt(r, a), AskAt(r, a)>>,
              r \notin t.pending, r \notin OpenedIn(l), t.archived => a <= t.cutoff
       PROVE  Handy(h, u, y, OpenedIn(k), FellIn(k))
  <2>1. a <= now
    <3>1. 1 \in 1..Len(h) /\ h[1] = OpenAt(r, a)
      BY <1>18
    <3> QED BY <3>1 DEF OpenAt
  <2>2. r \notin u.pending /\ r \notin OpenedIn(k) /\ (u.archived => a <= u.cutoff)
    BY <1>11, <1>13, <1>16, <1>18, <2>1
  <2> QED BY <1>18, <2>2 DEF Handy
<1>19. ASSUME NEW r \in Requests, NEW a \in Times, h = <<AskAt(r, a)>>, r \notin t.pending,
              \/ a <= t.cutoff
              \/ /\ r \in OpenedIn(l) => r \in Cards(v)
                 /\ FellIn(l) \/ t.archiving \/ r \in Cards(v)
       PROVE  Handy(h, u, y, OpenedIn(k), FellIn(k))
  <2>1. a <= now
    <3>1. 1 \in 1..Len(h) /\ h[1] = AskAt(r, a)
      BY <1>19
    <3> QED BY <3>1 DEF AskAt
  <2>2. r \notin u.pending
    BY <1>11, <1>19
  <2>3. \/ a <= u.cutoff
        \/ /\ r \in OpenedIn(k) => r \in Cards(y)
           /\ FellIn(k) \/ u.archiving \/ r \in Cards(y)
    BY <1>4, <1>11, <1>12, <1>13, <1>14, <1>16, <1>19, <2>1
  <2> QED BY <1>19, <2>2, <2>3 DEF Handy
<1> QED BY <1>15, <1>17, <1>18, <1>19 DEF Handy

LEMMA HandFacts ==
    ASSUME NEW c \in HandCommand
    PROVE  /\ c.type \in {"activityAppend", "sessionSet"} /\ c.at \in Times
           /\ c.type = "activityAppend" => c.body \in RawActivity
           /\ c.type = "sessionSet" => c.change \in SessionChanges
BY DEF HandCommand

\* The event of a command in hand.
HandEvent(c) ==
    IF c.type = "activityAppend" THEN [type |-> "activityAppended", body |-> c.body]
    ELSE [type |-> "sessionSet", change |-> c.change]

LEMMA HandEvents ==
    ASSUME NEW t, Sound(t), NEW c \in HandCommand
    PROVE  /\ Accepts(t, c)
           /\ Fenced(t, c) <=> Closed(t) \/ c.at <= t.cutoff
           /\ EventsOf(t, c) = IF Fenced(t, c) THEN <<>> ELSE <<HandEvent(c)>>
           /\ HandEvent(c) \in RawEvent
           /\ c.type = "activityAppend" => /\ HandEvent(c).type = "activityAppended"
                                           /\ HandEvent(c).body = c.body
           /\ c.type = "sessionSet" => /\ HandEvent(c).type = "sessionSet"
                                       /\ HandEvent(c).change = c.change
           /\ ~Fenced(t, c) => Sound(ApplyOne(t, HandEvent(c)))
           /\ ApplyOne(t, HandEvent(c)).cutoff = t.cutoff
<1>0. t # NoThread /\ t \in Thread
  BY RulesAssumption DEF Sound
<1>1. /\ c.type \in {"activityAppend", "sessionSet"} /\ c.at \in Times
      /\ c.type = "activityAppend" => c.body \in RawActivity
      /\ c.type = "sessionSet" => c.change \in SessionChanges
  BY HandFacts
<1>2. c.at # 0
  BY <1>1, RulesAssumption
<1>3. Fenced(t, c) <=> Closed(t) \/ c.at <= t.cutoff
  BY <1>0, <1>1, <1>2 DEF Fenced
<1>4. Accepts(t, c)
  BY <1>1 DEF Accepts, WorkCommands, LifecycleCommands
<1>5. PICK e : e = HandEvent(c)
  OBVIOUS
<1>6. CASE c.type = "activityAppend"
  <2>1. e = [type |-> "activityAppended", body |-> c.body]
    BY <1>5, <1>6 DEF HandEvent
  <2>2. c.body \in Activity /\ (c.body.kind = "delta" => \E i \in Items, n \in Nat : c.body = Delta(i, n))
    BY <1>1, <1>6 DEF RawActivity
  <2>3. e \in RawEvent
    BY <2>1, <2>2 DEF RawEvent, LogEvent, IsDelta
  <2>4. EventsOf(t, c) = IF Fenced(t, c) THEN <<>> ELSE <<e>>
    BY <1>4, <1>6, <2>1 DEF EventsOf, Decide
  <2>5. ApplyOne(t, e) = t
    BY <1>0, <2>1 DEF ApplyOne, Muted
  <2> QED BY <1>3, <1>4, <1>5, <1>6, <2>1, <2>3, <2>4, <2>5
<1>7. CASE c.type = "sessionSet"
  <2>1. e = [type |-> "sessionSet", change |-> c.change]
    BY <1>5, <1>7 DEF HandEvent
  <2>2. c.change \in SessionChanges
    BY <1>1, <1>7
  <2>3. PICK ch \in SessionChanges : ch = c.change
    BY <2>2
  <2>5. e \in RawEvent
    BY <2>1, <2>2, <2>3 DEF RawEvent, LogEvent, IsDelta, Event
  <2>6. EventsOf(t, c) = IF Fenced(t, c) THEN <<>> ELSE <<e>>
    BY <1>4, <1>7, <2>1 DEF EventsOf, Decide
  <2>7. ApplyOne(t, e) = IF t.archived THEN t ELSE SessionSet(t, ch)
    BY <1>0, <2>1, <2>3 DEF ApplyOne, Muted
  <2>8. ~t.archived => Sound(SessionSet(t, ch))
    BY SessionSetSound
  <2>9. SessionSet(t, ch).cutoff = t.cutoff
    BY <1>0, SessionFields
  <2> QED BY <1>3, <1>4, <1>5, <1>7, <2>1, <2>5, <2>6, <2>7, <2>8, <2>9
<1> QED BY <1>1, <1>6, <1>7

LEMMA HandStep ==
    ASSUME NEW t, NEW l, World(t, l), t # NoThread, NEW h \in Seq(HandCommand), h # <<>>,
           Handy(h, t, At(l, Len(l)), OpenedIn(l), FellIn(l)), ~Fenced(t, Head(h))
    PROVE  LET e == HandEvent(Head(h))
               k == l \o <<e>>
           IN  /\ Legal(t, At(l, Len(l)), OpenedIn(l), FellIn(l), e)
               /\ Handy(Tail(h), ApplyOne(t, e), At(k, Len(k)), OpenedIn(k), FellIn(k))
<1>1. PICK c \in HandCommand : c = Head(h)
  BY Nonempty
<1>2. PICK e \in RawEvent : e = HandEvent(c)
  BY HandEvents DEF World
<1>3. PICK v : v = At(l, Len(l))
  OBVIOUS
<1>4. /\ Sound(t) /\ v \in Views /\ Len(l) \in Nat /\ l \in Seq(RawEvent)
      /\ Match(t, v, OpenedIn(l), ResolvedIn(l), ErrorIn(l)) /\ Shows(v, FellIn(l))
      /\ FellIn(l) \in BOOLEAN /\ ErrorIn(l) \in BOOLEAN
  <2>1. Len(l) \in Nat
    BY WorldTypes
  <2>2. Len(l) \in 0..Len(l)
    BY <2>1
  <2> QED BY <1>3, <2>1, <2>2, WorldTypes DEF World
<1>5. Handy(h, t, v, OpenedIn(l), FellIn(l)) /\ ~Closed(t) /\ ~(c.at <= t.cutoff)
  BY <1>1, <1>3, <1>4, HandEvents
<1>6. /\ c.type \in {"activityAppend", "sessionSet"}
      /\ c.type = "activityAppend" => e.type = "activityAppended" /\ e.body = c.body
      /\ c.type = "sessionSet" => e.type = "sessionSet" /\ e.change = c.change
  BY <1>2, <1>4, HandFacts, HandEvents
<1>7. PICK k : k = l \o <<e>>
  OBVIOUS
<1>8. PICK u : u = ApplyOne(t, e)
  OBVIOUS
<1>9. PICK y : y = At(k, Len(k))
  OBVIOUS
<1> SUFFICES /\ Legal(t, v, OpenedIn(l), FellIn(l), e)
             /\ Handy(Tail(h), u, y, OpenedIn(k), FellIn(k))
  BY <1>1, <1>2, <1>3, <1>7, <1>8, <1>9
<1>10. CASE \A j \in 1..Len(h) : ~Opens(h[j]) /\ ~Asks(h[j])
  <2>1. \A n \in 1..Len(Tail(h)) : ~Opens(Tail(h)[n]) /\ ~Asks(Tail(h)[n])
    <3>1. /\ Len(h) \in Nat /\ Len(Tail(h)) = Len(h) - 1
          /\ \A n \in 1..Len(Tail(h)) : Tail(h)[n] = h[n + 1]
      BY Nonempty
    <3>2. \A n \in 1..Len(Tail(h)) : n + 1 \in 1..Len(h)
      BY <3>1
    <3> QED BY <1>10, <3>1, <3>2
  <2>2. ~Opens(c) /\ ~Asks(c)
    <3>1. Len(h) \in Nat \ {0} /\ Head(h) = h[1]
      BY Nonempty
    <3>2. 1 \in 1..Len(h)
      BY <3>1
    <3> QED BY <1>1, <1>10, <3>1, <3>2
  <2>3. Legal(t, v, OpenedIn(l), FellIn(l), e)
    BY <1>5, <1>6, <2>2 DEF Legal, Opens, Asks
  <2> QED BY <2>1, <2>3 DEF Handy
<1>11. ASSUME NEW r \in Requests, NEW a \in Times, h = <<OpenAt(r, a), AskAt(r, a)>>,
              r \notin t.pending, r \notin OpenedIn(l)
       PROVE  /\ Legal(t, v, OpenedIn(l), FellIn(l), e)
              /\ Handy(Tail(h), u, y, OpenedIn(k), FellIn(k))
  <2>1. c = OpenAt(r, a) /\ Tail(h) = <<AskAt(r, a)>>
    BY <1>1, <1>11
  <2>2. e.type = "activityAppended" /\ e.body = Opened(r)
    BY <1>6, <2>1 DEF OpenAt
  <2>3. e.body.kind = "opened" /\ e.body.request = r
    BY <2>2 DEF Opened
  <2>4. Legal(t, v, OpenedIn(l), FellIn(l), e)
    BY <1>5, <1>11, <2>2, <2>3 DEF Legal
  <2>6. PICK n \in Nat : n = Len(l) + 1
    BY <1>4
  <2>5. PICK w : w = FoldOne(v, [seq |-> n, event |-> e])
    OBVIOUS
  <2>7. u = t /\ r \in Cards(w)
    <3>1. ~t.archived /\ ~v.archived /\ t # NoThread
      BY <1>4, <1>5 DEF Closed, Match
    <3>2. ApplyOne(t, e) = t
      BY <2>2, <3>1 DEF ApplyOne, Muted
    <3>3. FoldOne(v, [seq |-> n, event |-> e]) = ActivitySeen(v, n, e.body)
      BY <2>2, <3>1 DEF FoldOne
    <3>4. w = OpenPending(v, r)
      BY <2>3, <2>5, <3>3 DEF ActivitySeen
    <3>5. Cards(w) = Cards(v) \cup {r}
      BY <1>4, <3>4, OpenLike DEF Like
    <3> QED BY <1>8, <3>2, <3>5
  <2>8. w \in Views
    <3>1. [seq |-> n, event |-> e] \in WireEvent
      BY DEF WireEvent, RawEvent
    <3> QED BY <1>4, <2>5, <3>1, FoldOneType
  <2>9. y = [w EXCEPT !.lastSeq = n]
    BY <1>3, <1>4, <1>7, <1>9, <2>5, <2>6, LogGrows
  <2>10. r \in Cards(y)
    BY <2>6, <2>7, <2>8, <2>9, MatchBySeq
  <2> QED BY <1>11, <2>1, <2>4, <2>7, <2>10 DEF Handy
<1>12. ASSUME NEW r \in Requests, NEW a \in Times, h = <<AskAt(r, a)>>, r \notin t.pending,
              \/ a <= t.cutoff
              \/ /\ r \in OpenedIn(l) => r \in Cards(v)
                 /\ FellIn(l) \/ t.archiving \/ r \in Cards(v)
       PROVE  /\ Legal(t, v, OpenedIn(l), FellIn(l), e)
              /\ Handy(Tail(h), u, y, OpenedIn(k), FellIn(k))
  <2>1. c = AskAt(r, a) /\ Tail(h) = <<>>
    BY <1>1, <1>12
  <2>2. e.type = "sessionSet" /\ e.change = Asking(r) /\ c.at = a
    BY <1>6, <2>1 DEF AskAt
  <2>3. e.change.add = r
    BY <2>2 DEF Asking, NoChange
  <2>4. (r \in OpenedIn(l) => r \in Cards(v)) /\ (FellIn(l) \/ r \in Cards(v))
    BY <1>5, <1>12, <2>2 DEF Closed
  <2>5. Legal(t, v, OpenedIn(l), FellIn(l), e)
    BY <1>5, <2>2, <2>3, <2>4 DEF Legal
  <2>6. PICK g : g = Tail(h)
    OBVIOUS
  <2>7. \A j \in 1..Len(g) : FALSE
    <3>1. Len(<<>>) = 0
      OBVIOUS
    <3>2. Len(g) = 0
      BY <2>1, <2>6, <3>1
    <3> QED BY <3>2
  <2> QED BY <2>5, <2>6, <2>7 DEF Handy
<1> QED BY <1>5, <1>10, <1>11, <1>12 DEF Handy

\* A command that is fenced off leaves the hand, and that is all.
LEMMA HandFenced ==
    ASSUME NEW t, t # NoThread, NEW v, NEW o, NEW fell, NEW h \in Seq(HandCommand), h # <<>>,
           Handy(h, t, v, o, fell), Closed(t) \/ Head(h).at <= t.cutoff
    PROVE  Handy(Tail(h), t, v, o, fell)
<1>1. CASE \A j \in 1..Len(h) : ~Opens(h[j]) /\ ~Asks(h[j])
  <2>1. /\ Len(h) \in Nat /\ Len(Tail(h)) = Len(h) - 1
        /\ \A n \in 1..Len(Tail(h)) : Tail(h)[n] = h[n + 1]
    BY Nonempty
  <2>2. \A n \in 1..Len(Tail(h)) : n + 1 \in 1..Len(h)
    BY <2>1
  <2>3. \A n \in 1..Len(Tail(h)) : ~Opens(Tail(h)[n]) /\ ~Asks(Tail(h)[n])
    BY <1>1, <2>1, <2>2
  <2> QED BY <2>3 DEF Handy
<1>2. ASSUME NEW r \in Requests, NEW a \in Times, h = <<OpenAt(r, a), AskAt(r, a)>>,
             r \notin t.pending, r \notin o, t.archived => a <= t.cutoff
      PROVE  Handy(Tail(h), t, v, o, fell)
  <2>1. Head(h) = OpenAt(r, a) /\ Tail(h) = <<AskAt(r, a)>>
    BY <1>2
  <2>2. a <= t.cutoff \/ t.archiving
    BY <1>2, <2>1 DEF Closed, OpenAt
  <2> QED BY <1>2, <2>1, <2>2 DEF Handy
<1>3. ASSUME NEW r \in Requests, NEW a \in Times, h = <<AskAt(r, a)>>
      PROVE  Handy(Tail(h), t, v, o, fell)
  <2>1. PICK g : g = Tail(h)
    OBVIOUS
  <2>2. g = <<>>
    BY <1>3, <2>1
  <2>3. \A j \in 1..Len(g) : FALSE
    <3>1. Len(<<>>) = 0
      OBVIOUS
    <3>2. Len(g) = 0
      BY <2>2, <3>1
    <3> QED BY <3>2
  <2> QED BY <2>1, <2>3 DEF Handy
<1> QED BY <1>1, <1>2, <1>3 DEF Handy

LEMMA TimesAreNat == ASSUME NEW a \in Times PROVE a \in Nat
BY RulesAssumption

\* The empty list of events, and one event.
LEMMA NoEvents ==
    ASSUME NEW t, NEW l \in Seq(RawEvent)
    PROVE  /\ <<>> \in Seq(RawEvent) /\ Len(<<>>) = 0
           /\ Apply(t, <<>>) = t /\ l \o <<>> = l
<1>1. <<>> \in Seq(RawEvent) /\ Len(<<>>) = 0
  OBVIOUS
<1>2. l \o <<>> = l
  OBVIOUS
<1> QED BY <1>1, <1>2 DEF Apply

LEMMA OneEvent ==
    ASSUME NEW t, NEW e \in RawEvent
    PROVE  /\ <<e>> \in Seq(RawEvent) /\ Len(<<e>>) = 1
           /\ Apply(t, <<e>>) = ApplyOne(t, e)
BY DEF Apply

LEMMA NoneInHand ==
    ASSUME NEW t, t # NoThread, NEW l, NEW now, t.cutoff <= now
    PROVE  InHand(<<>>, t, l, now)
<1>1. PICK h : h = <<>>
  OBVIOUS
<1>2. Len(h) = 0
  <2>1. Len(<<>>) = 0
    OBVIOUS
  <2> QED BY <1>1, <2>1
<1>3. \A j \in 1..Len(h) : FALSE
  BY <1>2
<1> QED BY <1>1, <1>3 DEF InHand, Handy

LEMMA UserDispatch ==
    ASSUME NEW t, NEW l, World(t, l), t # NoThread, NEW now \in Times,
           NEW h \in Seq(HandCommand), InHand(h, t, l, now),
           NEW c \in UserCommand \cup ReactorCommand,
           c.type = "archiveComplete" => c.cutoff = now
    PROVE  LET es == EventsOf(t, c) IN
           /\ es \in Seq(RawEvent) /\ Len(es) <= 1
           /\ Apply(t, es) # NoThread /\ World(Apply(t, es), l \o es)
           /\ InHand(h, Apply(t, es), l \o es, now)
<1>0. Sound(t) /\ l \in Seq(RawEvent) /\ now \in Nat
  BY TimesAreNat DEF World
<1>1. CASE EventsOf(t, c) = <<>>
  BY <1>0, <1>1, NoEvents
<1>2. ASSUME NEW e \in RawEvent, EventsOf(t, c) = <<e>>, UserLegal(t, e), Sound(ApplyOne(t, e)),
             e.type = "archived" => c.type = "archiveComplete" /\ e.cutoff = c.cutoff
      PROVE  /\ <<e>> \in Seq(RawEvent) /\ Len(<<e>>) <= 1
             /\ ApplyOne(t, e) # NoThread /\ World(ApplyOne(t, e), l \o <<e>>)
             /\ InHand(h, ApplyOne(t, e), l \o <<e>>, now)
  <2>1. PICK u : u = ApplyOne(t, e)
    OBVIOUS
  <2>2. PICK k : k = l \o <<e>>
    OBVIOUS
  <2>3. u # NoThread
    BY <1>2, <2>1, RulesAssumption DEF Sound
  <2>4. World(u, k)
    <3>1. Legal(t, At(l, Len(l)), OpenedIn(l), FellIn(l), e)
      BY <1>2 DEF UserLegal, Legal
    <3> QED BY <1>2, <2>1, <2>2, <3>1, WorldStep
  <2>5. /\ t.cutoff <= now /\ (e.type = "archived" => e.cutoff = now)
        /\ \A j \in 1..Len(h) : h[j].at <= now
        /\ Handy(h, t, At(l, Len(l)), OpenedIn(l), FellIn(l))
    BY <1>2 DEF InHand
  <2>6. Handy(h, u, At(k, Len(k)), OpenedIn(k), FellIn(k))
    BY <1>0, <1>2, <2>1, <2>2, <2>5, HandyStep
  <2>7. u.cutoff <= now
    <3>1. Len(l) \in Nat /\ Len(l) \in 0..Len(l) /\ Len(l) + 1 \in Nat
      BY <1>0
    <3>2. PICK v \in Views : v = At(l, Len(l))
      BY <3>1, WorldTypes
    <3>3. Match(t, v, OpenedIn(l), ResolvedIn(l), ErrorIn(l))
      BY <3>2 DEF World
    <3>4. u.cutoff \in {t.cutoff, now}
      BY <1>0, <1>2, <2>1, <2>5, <3>1, <3>3, UserFields
    <3> QED BY <1>0, <2>5, <3>4
  <2>8. InHand(h, u, k, now)
    BY <2>3, <2>5, <2>6, <2>7 DEF InHand
  <2> QED BY <2>1, <2>2, <2>3, <2>4, <2>8, OneEvent
<1>3. CASE \E e \in RawEvent :
                /\ EventsOf(t, c) = <<e>> /\ UserLegal(t, e) /\ Sound(ApplyOne(t, e))
                /\ e.type = "archived" => c.type = "archiveComplete" /\ e.cutoff = c.cutoff
  <2>1. PICK e \in RawEvent :
                /\ EventsOf(t, c) = <<e>> /\ UserLegal(t, e) /\ Sound(ApplyOne(t, e))
                /\ e.type = "archived" => c.type = "archiveComplete" /\ e.cutoff = c.cutoff
    BY <1>3
  <2>2. Apply(t, <<e>>) = ApplyOne(t, e)
    BY OneEvent
  <2> QED BY <1>2, <2>1, <2>2
<1> QED BY <1>0, <1>1, <1>3, UserEvents

LEMMA CreateDispatch ==
    ASSUME NEW t, NEW l, World(t, l), NEW now \in Times,
           NEW h \in Seq(HandCommand), InHand(h, t, l, now), NEW i \in Instances
    PROVE  LET es == EventsOf(t, [type |-> "create", instance |-> i, mode |-> None]) IN
           /\ es \in Seq(RawEvent) /\ Len(es) <= 1
           /\ Apply(t, es) # NoThread /\ World(Apply(t, es), l \o es)
           /\ InHand(h, Apply(t, es), l \o es, now)
<1>1. PICK c : c = [type |-> "create", instance |-> i, mode |-> None]
  OBVIOUS
<1>2. c.type = "create" /\ c.instance = i /\ c.mode = None /\ ~Fenced(t, c)
  BY <1>1 DEF Fenced
<1>3. now \in Nat /\ l \in Seq(RawEvent)
  BY TimesAreNat DEF World
<1>4. CASE t # NoThread
  <2>1. EventsOf(t, c) = <<>>
    BY <1>2, <1>4 DEF EventsOf, Accepts
  <2> QED BY <1>1, <1>3, <1>4, <2>1, NoEvents
<1>5. CASE t = NoThread
  <2>1. PICK e : e = [type |-> "created", instance |-> i,
                      mode |-> IF i \in Antigravity THEN "auto" ELSE None]
    OBVIOUS
  <2>2. Accepts(t, c)
    BY <1>2, <1>5 DEF Accepts, WorkCommands, LifecycleCommands
  <2>3. EventsOf(t, c) = <<e>>
    BY <1>2, <2>1, <2>2 DEF EventsOf, Decide
  <2>4. /\ e \in RawEvent /\ Sound(NewThread(e)) /\ World(NewThread(e), <<e>>)
        /\ NewThread(e).cutoff = 0
    BY <2>1, WorldCreated
  <2>5. Apply(t, <<e>>) = NewThread(e)
    BY <2>1, <2>4, OneEvent DEF ApplyOne
  <2>6. l = <<>> /\ l \o <<e>> = <<e>> /\ h = <<>>
    <3>1. l = <<>> /\ h = <<>>
      BY <1>5 DEF World, InHand
    <3>2. <<>> \o <<e>> = <<e>>
      OBVIOUS
    <3> QED BY <3>1, <3>2
  <2>7. NewThread(e) # NoThread /\ 0 <= now
    BY <1>3, <2>4, RulesAssumption DEF Sound
  <2>8. InHand(h, NewThread(e), <<e>>, now)
    BY <2>4, <2>6, <2>7, NoneInHand
  <2>9. PICK u : u = NewThread(e)
    OBVIOUS
  <2>10. /\ Apply(t, <<e>>) = u /\ u # NoThread /\ World(u, l \o <<e>>)
         /\ InHand(h, u, l \o <<e>>, now)
    BY <2>4, <2>5, <2>6, <2>7, <2>8, <2>9
  <2>11. <<e>> \in Seq(RawEvent) /\ Len(<<e>>) <= 1
    BY <2>4, OneEvent
  <2>12. PICK es : es = <<e>>
    OBVIOUS
  <2>13. es \in Seq(RawEvent) /\ Len(es) <= 1 /\ Apply(t, es) = u /\ World(u, l \o es)
         /\ InHand(h, u, l \o es, now) /\ EventsOf(t, c) = es
    BY <2>3, <2>10, <2>11, <2>12
  <2> QED BY <1>1, <2>10, <2>13
<1> QED BY <1>4, <1>5

LEMMA HandDispatch ==
    ASSUME NEW t, NEW l, World(t, l), NEW now \in Times,
           NEW h \in Seq(HandCommand), h # <<>>, InHand(h, t, l, now)
    PROVE  LET es == EventsOf(t, Head(h)) IN
           /\ Accepts(t, Head(h))
           /\ es \in Seq(RawEvent) /\ Len(es) <= 1
           /\ Apply(t, es) # NoThread /\ World(Apply(t, es), l \o es)
           /\ InHand(Tail(h), Apply(t, es), l \o es, now)
<1>1. PICK c \in HandCommand : c = Head(h)
  BY Nonempty
<1>2. /\ t # NoThread /\ Sound(t) /\ l \in Seq(RawEvent) /\ now \in Nat
      /\ t.cutoff <= now /\ Handy(h, t, At(l, Len(l)), OpenedIn(l), FellIn(l))
  BY TimesAreNat DEF World, InHand
<1>3. /\ Accepts(t, c)
      /\ EventsOf(t, c) = IF Fenced(t, c) THEN <<>> ELSE <<HandEvent(c)>>
      /\ HandEvent(c) \in RawEvent
      /\ ~Fenced(t, c) => Sound(ApplyOne(t, HandEvent(c)))
      /\ ApplyOne(t, HandEvent(c)).cutoff = t.cutoff
      /\ Fenced(t, c) <=> Closed(t) \/ c.at <= t.cutoff
  BY <1>2, HandEvents
<1>4. \A j \in 1..Len(Tail(h)) : Tail(h)[j].at <= now
  <2>1. /\ Len(h) \in Nat /\ Len(Tail(h)) = Len(h) - 1
        /\ \A n \in 1..Len(Tail(h)) : Tail(h)[n] = h[n + 1]
    BY Nonempty
  <2>2. \A n \in 1..Len(Tail(h)) : n + 1 \in 1..Len(h)
    BY <2>1
  <2> QED BY <2>1, <2>2 DEF InHand
<1>5. CASE Fenced(t, c)
  <2>1. Handy(Tail(h), t, At(l, Len(l)), OpenedIn(l), FellIn(l))
    BY <1>1, <1>2, <1>3, <1>5, HandFenced
  <2>2. InHand(Tail(h), t, l, now)
    BY <1>2, <1>4, <2>1 DEF InHand
  <2>3. PICK es : es = <<>>
    OBVIOUS
  <2>4. /\ es \in Seq(RawEvent) /\ Len(es) <= 1 /\ Apply(t, es) = t /\ l \o es = l
        /\ EventsOf(t, c) = es
    BY <1>2, <1>3, <1>5, <2>3, NoEvents
  <2> QED BY <1>1, <1>2, <1>3, <2>2, <2>4
<1>6. CASE ~Fenced(t, c)
  <2>1. PICK e \in RawEvent : e = HandEvent(c)
    BY <1>3
  <2>2. PICK u : u = ApplyOne(t, e)
    OBVIOUS
  <2>3. PICK k : k = l \o <<e>>
    OBVIOUS
  <2>4. /\ Legal(t, At(l, Len(l)), OpenedIn(l), FellIn(l), e)
        /\ Handy(Tail(h), u, At(k, Len(k)), OpenedIn(k), FellIn(k))
    BY <1>1, <1>2, <1>6, <2>1, <2>2, <2>3, HandStep
  <2>5. Sound(u) /\ u.cutoff = t.cutoff /\ u # NoThread
    BY <1>3, <1>6, <2>1, <2>2, RulesAssumption DEF Sound
  <2>6. World(u, k)
    BY <1>2, <2>2, <2>3, <2>4, <2>5, WorldStep
  <2>7. InHand(Tail(h), u, k, now)
    BY <1>2, <1>4, <2>4, <2>5 DEF InHand
  <2>8. PICK es : es = <<e>>
    OBVIOUS
  <2>9. /\ es \in Seq(RawEvent) /\ Len(es) <= 1 /\ Apply(t, es) = u /\ l \o es = k
        /\ EventsOf(t, c) = es
    BY <1>3, <1>6, <2>1, <2>2, <2>3, <2>8, OneEvent
  <2> QED BY <1>1, <1>3, <2>5, <2>6, <2>7, <2>9
<1> QED BY <1>5, <1>6

\* Boot reconciliation.
ReconcileCommand == [type |-> "sessionSet", at |-> 0, change |-> Reconciling]

LEMMA ReconcileDispatch ==
    ASSUME NEW t, NEW l, World(t, l), t # NoThread, ~t.archiving, ~t.archived,
           NEW now, t.cutoff <= now
    PROVE  LET es == EventsOf(t, ReconcileCommand) IN
           /\ es \in Seq(RawEvent) /\ Len(es) <= 1
           /\ Apply(t, es) # NoThread /\ World(Apply(t, es), l \o es)
           /\ InHand(<<>>, Apply(t, es), l \o es, now)
<1>1. PICK e : e = [type |-> "sessionSet", change |-> Reconciling]
  OBVIOUS
<1>2. /\ e.type = "sessionSet" /\ e.change = Reconciling /\ e \in RawEvent
      /\ Reconciling \in SessionChanges /\ Reconciling.add = None
  <2>1. Reconciling \in SessionChanges /\ Reconciling.add = None
    BY DEF SessionChanges, Reconciling, NoChange
  <2>2. e \in Event
    BY <1>1, <2>1 DEF Event
  <2> QED BY <1>1, <2>1, <2>2 DEF RawEvent, LogEvent, IsDelta
<1>3. EventsOf(t, ReconcileCommand) = <<e>>
  BY <1>1 DEF EventsOf, Accepts, Fenced, Decide, ReconcileCommand, WorkCommands, LifecycleCommands
<1>4. Sound(t) /\ t \in Thread /\ l \in Seq(RawEvent)
  BY DEF World, Sound
<1>5. ApplyOne(t, e) = SessionSet(t, Reconciling)
  BY <1>2 DEF ApplyOne
<1>6. PICK u : u = ApplyOne(t, e)
  OBVIOUS
<1>7. Sound(u) /\ u.cutoff = t.cutoff /\ u # NoThread
  BY <1>2, <1>4, <1>5, <1>6, SessionSetSound, SessionFields, RulesAssumption DEF Sound
<1>8. Legal(t, At(l, Len(l)), OpenedIn(l), FellIn(l), e)
  BY <1>2 DEF Legal, Closed
<1>9. PICK k : k = l \o <<e>>
  OBVIOUS
<1>10. World(u, k)
  BY <1>2, <1>6, <1>7, <1>8, <1>9, WorldStep
<1>11. InHand(<<>>, u, k, now)
  BY <1>7, NoneInHand
<1>12. PICK es : es = <<e>>
  OBVIOUS
<1>13. /\ es \in Seq(RawEvent) /\ Len(es) <= 1 /\ Apply(t, es) = u /\ l \o es = k
       /\ EventsOf(t, ReconcileCommand) = es
  BY <1>2, <1>3, <1>6, <1>9, <1>12, OneEvent
<1> QED BY <1>7, <1>10, <1>11, <1>13

-----------------------------------------------------------------------------
(***************************************************************************)
(* The frames of a replay.                                                 *)
(***************************************************************************)

LEMMA FrameMarkIsEnd ==
    ASSUME NEW b, NEW fs \in Seq(Seq(WireEvent)), NEW k \in Nat, k + 1 <= Len(fs), fs[k + 1] # <<>>
    PROVE  FrameMark(b, fs, k + 1) = EndOf(FrameMark(b, fs, k), fs[k + 1])
<1>1. fs[k + 1] \in Seq(WireEvent)
  OBVIOUS
<1>2. Len(fs[k + 1]) # 0 /\ k + 1 # 0
  BY <1>1
<1> QED BY <1>2 DEF FrameMark, EndOf, Mark

LEMMA NoFrames ==
    ASSUME NEW l \in Seq(LogEvent), NEW b \in 0..Len(l)
    PROVE  Frames(l, b, <<>>) /\ FrameMark(b, <<>>, Len(<<>>)) = b
<1>1. Len(<<>>) = 0
  OBVIOUS
<1>2. \A k \in 1..Len(<<>>) : FALSE
  BY <1>1
<1> QED BY <1>1, <1>2 DEF Frames, FrameMark

LEMMA FirstFrame ==
    ASSUME NEW l \in Seq(LogEvent), NEW b, NEW fs \in Seq(Seq(WireEvent)), Frames(l, b, fs), fs # <<>>
    PROVE  LET c == EndOf(b, Head(fs)) IN
           /\ Chain(l, b, Head(fs)) /\ c \in 0..Len(l) /\ b <= c
           /\ Frames(l, c, Tail(fs))
           /\ FrameMark(c, Tail(fs), Len(Tail(fs))) = FrameMark(b, fs, Len(fs))
<1>1. /\ Len(fs) \in Nat \ {0} /\ Head(fs) = fs[1] /\ Len(Tail(fs)) = Len(fs) - 1
      /\ Tail(fs) \in Seq(Seq(WireEvent))
      /\ \A n \in 1..Len(Tail(fs)) : Tail(fs)[n] = fs[n + 1]
  BY Nonempty
<1>2. PICK s \in Seq(WireEvent) : s = fs[1]
  BY <1>1
<1>3. b \in 0..Len(l) /\ s # <<>> /\ Chain(l, FrameMark(b, fs, 0), s)
  <2>1. 1 \in 1..Len(fs) /\ 1 - 1 = 0
    BY <1>1
  <2>2. \A k \in 1..Len(fs) : fs[k] # <<>> /\ Chain(l, FrameMark(b, fs, k - 1), fs[k])
    BY DEF Frames
  <2>3. fs[1] # <<>> /\ Chain(l, FrameMark(b, fs, 1 - 1), fs[1])
    BY <2>1, <2>2
  <2> QED BY <1>2, <2>1, <2>3 DEF Frames
<1>4. FrameMark(b, fs, 0) = b
  BY DEF FrameMark
<1>5. PICK c : c = EndOf(b, s)
  OBVIOUS
<1>6. c \in 0..Len(l) /\ b <= c
  <2>1. Len(s) \in 0..Len(s)
    OBVIOUS
  <2>2. Mark(b, s, Len(s)) \in Nat /\ b <= Mark(b, s, Len(s)) /\ Mark(b, s, Len(s)) <= Len(l)
    BY <1>3, <1>4, <2>1, Marks
  <2> QED BY <1>5, <2>2 DEF EndOf
<1>7. FrameMark(b, fs, 1) = c
  <2>1. 0 + 1 = 1 /\ 0 \in Nat /\ 0 + 1 <= Len(fs)
    BY <1>1
  <2>2. FrameMark(b, fs, 0 + 1) = EndOf(FrameMark(b, fs, 0), fs[0 + 1])
    BY <1>2, <1>3, <2>1, FrameMarkIsEnd
  <2> QED BY <1>2, <1>4, <1>5, <2>1, <2>2
<1>8. PICK gs : gs = Tail(fs)
  OBVIOUS
<1>9. PICK m \in Nat : m = Len(gs)
  <2>1. gs \in Seq(Seq(WireEvent))
    BY <1>1, <1>8
  <2>2. Len(gs) \in Nat
    BY <2>1
  <2> QED BY <2>2
<1>10. Len(fs) = m + 1 /\ \A n \in 1..m : gs[n] = fs[n + 1]
  BY <1>1, <1>8, <1>9
<1>11. ASSUME NEW k \in 0..m PROVE FrameMark(c, gs, k) = FrameMark(b, fs, k + 1)
  <2>1. CASE k = 0
    BY <1>7, <2>1 DEF FrameMark
  <2>2. CASE k # 0
    <3>1. k \in 1..m /\ k + 1 # 0
      BY <2>2
    <3>2. gs[k] = fs[k + 1]
      BY <1>10, <3>1
    <3> QED BY <2>2, <3>1, <3>2 DEF FrameMark
  <2> QED BY <2>1, <2>2
<1>12. ASSUME NEW k \in 1..m PROVE gs[k] # <<>> /\ Chain(l, FrameMark(c, gs, k - 1), gs[k])
  <2>1. k - 1 \in 0..m /\ (k - 1) + 1 = k /\ k + 1 \in 1..Len(fs) /\ (k + 1) - 1 = k
    BY <1>10
  <2>2. \A j \in 1..Len(fs) : fs[j] # <<>> /\ Chain(l, FrameMark(b, fs, j - 1), fs[j])
    BY DEF Frames
  <2>3. fs[k + 1] # <<>> /\ Chain(l, FrameMark(b, fs, (k + 1) - 1), fs[k + 1])
    BY <2>1, <2>2
  <2>4. FrameMark(c, gs, k - 1) = FrameMark(b, fs, (k - 1) + 1)
    BY <1>11, <2>1
  <2>5. gs[k] = fs[k + 1]
    BY <1>10
  <2> QED BY <2>1, <2>3, <2>4, <2>5
<1>13. Frames(l, c, gs)
  BY <1>6, <1>9, <1>12 DEF Frames
<1>14. FrameMark(c, gs, Len(gs)) = FrameMark(b, fs, Len(fs))
  <2>1. m \in 0..m
    OBVIOUS
  <2> QED BY <1>9, <1>10, <1>11, <2>1
<1> QED BY <1>1, <1>2, <1>3, <1>4, <1>5, <1>6, <1>8, <1>13, <1>14

LEMMA FramesGrow ==
    ASSUME NEW l \in Seq(LogEvent), NEW es \in Seq(LogEvent), NEW b, NEW fs, Frames(l, b, fs)
    PROVE  Frames(l \o es, b, fs)
<1>1. PICK k : k = l \o es
  OBVIOUS
<1>2. Len(l) \in Nat /\ Len(k) \in Nat /\ Len(l) <= Len(k)
  BY <1>1
<1>3. b \in 0..Len(k)
  BY <1>2 DEF Frames
<1>4. ASSUME NEW j \in 1..Len(fs) PROVE fs[j] # <<>> /\ Chain(k, FrameMark(b, fs, j - 1), fs[j])
  <2>1. fs[j] # <<>> /\ Chain(l, FrameMark(b, fs, j - 1), fs[j])
    BY DEF Frames
  <2> QED BY <1>1, <2>1, ChainGrows
<1> QED BY <1>1, <1>3, <1>4 DEF Frames

LEMMA Multiples ==
    ASSUME NEW k \in Nat, NEW q \in Nat, NEW c \in Nat, k <= q
    PROVE  k * c \in Nat /\ k * c <= q * c /\ (k + 1) * c = k * c + c
<1>1. k * c <= q * c
  OBVIOUS
<1>2. (k + 1) * c = k * c + c
  OBVIOUS
<1> QED BY <1>1, <1>2

LEMMA Quotient ==
    ASSUME NEW n \in Nat, NEW c \in Nat \ {0}
    PROVE  LET q == (n + c - 1) \div c IN
           q \in Nat /\ q * c <= n + c - 1 /\ n + c - 1 < q * c + c
OBVIOUS

\* Where the k-th frame of n events starts and ends, c to a frame.
LEMMA Chunks ==
    ASSUME NEW n \in Nat, NEW c \in Nat \ {0}, NEW q \in Nat, q = (n + c - 1) \div c
    PROVE  /\ \A k \in 1..q : /\ (k - 1) * c + 1 \in 1..n
                              /\ (IF k * c < n THEN k * c ELSE n) \in ((k - 1) * c + 1)..n
           /\ \A k \in 1..(q - 1) : k * c < n
           /\ q # 0 => n <= q * c
           /\ q = 0 => n = 0
<1>1. q * c \in Nat /\ q * c <= n + c - 1 /\ n + c - 1 < q * c + c
  BY Quotient
<1>2. n <= q * c
  BY <1>1
<1>3. ASSUME NEW k \in 0..(q - 1) PROVE k * c \in Nat /\ k * c < n /\ (k + 1) * c = k * c + c
  <2>1. k + 1 \in Nat /\ k + 1 <= q /\ k \in Nat
    OBVIOUS
  <2>2. k * c \in Nat /\ (k + 1) * c = k * c + c
    BY <2>1, Multiples
  <2>3. (k + 1) * c <= q * c
    BY <2>1, Multiples
  <2> QED BY <1>1, <2>2, <2>3
<1>4. ASSUME NEW k \in 1..q
      PROVE  /\ (k - 1) * c + 1 \in 1..n
             /\ (IF k * c < n THEN k * c ELSE n) \in ((k - 1) * c + 1)..n
  <2>1. PICK j \in 0..(q - 1) : j = k - 1
    OBVIOUS
  <2>2. j * c \in Nat /\ j * c < n /\ k * c = j * c + c
    <3>1. j + 1 = k
      BY <2>1
    <3> QED BY <1>3, <3>1
  <2> QED BY <2>1, <2>2
<1>5. \A k \in 1..(q - 1) : k * c < n
  BY <1>3
<1>6. q = 0 => n = 0
  BY <1>2
<1> QED BY <1>2, <1>4, <1>5, <1>6

LEMMA SubSeqType ==
    ASSUME NEW S, NEW s \in Seq(S), NEW a \in 1..Len(s), NEW b \in a..Len(s)
    PROVE  SubSeq(s, a, b) \in Seq(S)
OBVIOUS

LEMMA ReplayFrames ==
    ASSUME NEW l \in Seq(RawEvent), NEW lo \in 0..Len(l)
    PROVE  LET fs == WriteReplay(Batch(l, lo + 1, Len(l))) IN
           /\ fs \in Seq(Seq(WireEvent)) /\ Frames(l, lo, fs)
           /\ FrameMark(lo, fs, Len(fs)) = Len(l)
<1>0. l \in Seq(LogEvent) /\ Len(l) \in Nat /\ lo \in Nat /\ lo <= Len(l)
  BY RawIsLogged
<1>1. PICK s : s = CoalesceReplay(Batch(l, lo + 1, Len(l)))
  OBVIOUS
<1>2. Chain(l, lo, s) /\ EndOf(lo, s) = Len(l)
  BY <1>0, <1>1, CoalesceChain
<1>3. s \in Seq(WireEvent)
  BY <1>2 DEF Chain
<1>4. PICK n \in Nat : n = Len(s)
  BY <1>3
<1>5. PICK c \in Nat \ {0} : c = ChunkSize
  BY SyncAssumption
<1>6. PICK q \in Nat : q = (n + c - 1) \div c
  BY Quotient
<1> DEFINE a(k) == (k - 1) * c + 1
           z(k) == IF k * c < n THEN k * c ELSE n
<1>7. /\ \A k \in 1..q : a(k) \in 1..n /\ z(k) \in a(k)..n
      /\ \A k \in 1..(q - 1) : k * c < n
      /\ q # 0 => n <= q * c
      /\ q = 0 => n = 0
  BY <1>6, Chunks
<1>8. PICK fs : fs = [k \in 1..q |-> SubSeq(s, a(k), z(k))]
  OBVIOUS
<1>9. WriteReplay(Batch(l, lo + 1, Len(l))) = fs
  BY <1>1, <1>4, <1>5, <1>6, <1>8 DEF WriteReplay
<1>10. ASSUME NEW k \in 1..q
       PROVE  /\ fs[k] = SubSeq(s, a(k), z(k)) /\ fs[k] # <<>> /\ fs[k] \in Seq(WireEvent)
              /\ Chain(l, Mark(lo, s, (k - 1) * c), fs[k])
              /\ EndOf(Mark(lo, s, (k - 1) * c), fs[k]) = Mark(lo, s, z(k))
  <2>1. PICK x \in 1..n : x = a(k)
    BY <1>7
  <2>2. PICK y \in x..n : y = z(k)
    BY <1>7, <2>1
  <2>3. fs[k] = SubSeq(s, x, y)
    BY <1>8, <2>1, <2>2
  <2>4. /\ Chain(l, Mark(lo, s, x - 1), SubSeq(s, x, y)) /\ SubSeq(s, x, y) # <<>>
        /\ EndOf(Mark(lo, s, x - 1), SubSeq(s, x, y)) = Mark(lo, s, y)
    BY <1>0, <1>2, <1>4, ChainPart
  <2>5. SubSeq(s, x, y) \in Seq(WireEvent)
    BY <1>3, <1>4, SubSeqType
  <2>6. x - 1 = (k - 1) * c
    <3>1. PICK j \in Nat : j = k - 1
      OBVIOUS
    <3>2. j * c \in Nat
      BY Multiples
    <3> QED BY <2>1, <3>1, <3>2
  <2> QED BY <2>1, <2>2, <2>3, <2>4, <2>5, <2>6
<1> HIDE DEF a
<1>11. fs \in Seq(Seq(WireEvent)) /\ Len(fs) = q
  BY <1>8, <1>10
<1>12. ASSUME NEW k \in 1..q PROVE FrameMark(lo, fs, k) = Mark(lo, s, z(k))
  <2>1. fs[k] \in Seq(WireEvent) /\ Len(fs[k]) # 0 /\ k # 0
    BY <1>10
  <2>2. EndOf(Mark(lo, s, (k - 1) * c), fs[k]) = fs[k][Len(fs[k])].seq
    BY <2>1 DEF EndOf, Mark
  <2>3. FrameMark(lo, fs, k) = fs[k][Len(fs[k])].seq
    BY <2>1 DEF FrameMark
  <2> QED BY <1>10, <2>2, <2>3
<1>13. ASSUME NEW k \in 1..q PROVE FrameMark(lo, fs, k - 1) = Mark(lo, s, (k - 1) * c)
  <2>1. CASE k = 1
    <3>1. k - 1 = 0 /\ 0 * c = 0
      BY <2>1
    <3> QED BY <3>1 DEF FrameMark, Mark
  <2>2. CASE k # 1
    <3>1. PICK j \in 1..(q - 1) : j = k - 1
      BY <2>2
    <3>2. j \in 1..q /\ j * c < n
      BY <1>7
    <3>3. z(j) = j * c
      BY <3>2
    <3> QED BY <1>12, <3>1, <3>2, <3>3
  <2> QED BY <2>1, <2>2
<1>14. Frames(l, lo, fs)
  BY <1>10, <1>11, <1>13 DEF Frames
<1>15. FrameMark(lo, fs, Len(fs)) = Len(l)
  <2>1. CASE q = 0
    BY <1>2, <1>4, <1>7, <1>11, <2>1 DEF FrameMark, EndOf, Mark
  <2>2. CASE q # 0
    <3>1. q \in 1..q /\ ~(q * c < n)
      <4>1. q * c \in Nat
        BY Multiples
      <4> QED BY <1>7, <2>2, <4>1
    <3>2. z(q) = n
      BY <3>1
    <3>3. FrameMark(lo, fs, q) = Mark(lo, s, n)
      BY <1>12, <3>1, <3>2
    <3> QED BY <1>2, <1>4, <1>11, <3>3 DEF EndOf
  <2> QED BY <2>1, <2>2
<1> QED BY <1>9, <1>11, <1>14, <1>15

-----------------------------------------------------------------------------
\* A view that has just what a chain starts from is part of the way through none of
\* its events; and no event of a batch stands for more than one.
LEMMA WholeStart ==
    ASSUME NEW l \in Seq(LogEvent), NEW lo, NEW s, Chain(l, lo, s) PROVE Whole(lo, s, lo)
<1>1. ASSUME NEW k \in 1..Len(s) PROVE lo <= Mark(lo, s, k - 1)
  <2>1. s \in Seq(WireEvent)
    BY DEF Chain
  <2>2. k - 1 \in 0..Len(s)
    BY <2>1
  <2> QED BY <2>2, Marks
<1> QED BY <1>1 DEF Whole

LEMMA WholeBatch ==
    ASSUME NEW l \in Seq(LogEvent), NEW lo \in Nat, NEW hi \in Nat, lo <= hi, hi <= Len(l),
           NEW n \in Nat
    PROVE  Whole(lo, Batch(l, lo + 1, hi), n)
<1>1. PICK s : s = Batch(l, lo + 1, hi)
  OBVIOUS
<1>2. ASSUME NEW k \in 1..Len(s) PROVE s[k].seq <= n \/ n <= Mark(lo, s, k - 1)
  <2>1. Len(s) = hi - lo /\ \A j \in 1..Len(s) : s[j].seq = lo + j
    <3>1. hi - (lo + 1) + 1 = hi - lo /\ hi - lo \in Nat
      OBVIOUS
    <3>2. s = [j \in 1..(hi - lo) |-> Entry(l, lo + 1 + j - 1)]
      BY <1>1, <3>1 DEF Batch, Entry
    <3>3. Len(s) = hi - lo
      BY <3>1, <3>2
    <3>4. \A j \in 1..(hi - lo) : lo + 1 + j - 1 = lo + j
      OBVIOUS
    <3> QED BY <3>2, <3>3, <3>4 DEF Entry
  <2>2. CASE k = 1
    <3>1. Mark(lo, s, k - 1) = lo /\ s[k].seq = lo + 1
      BY <2>1, <2>2 DEF Mark
    <3> QED BY <3>1
  <2>3. CASE k # 1
    <3>1. k - 1 \in 1..Len(s) /\ k - 1 # 0
      BY <2>1, <2>3
    <3>2. Mark(lo, s, k - 1) = lo + (k - 1) /\ s[k].seq = lo + k
      BY <2>1, <3>1 DEF Mark
    <3> QED BY <2>1, <3>2
  <2> QED BY <2>2, <2>3
<1> QED BY <1>1, <1>2 DEF Whole

-----------------------------------------------------------------------------
(***************************************************************************)
(* What the steps of a socket do to what it streams.                       *)
(***************************************************************************)

LEMMA ConnFacts ==
    ASSUME NEW c \in Conns
    PROVE  /\ c.sock \in {"draft", "down", "open"} /\ c.handler \in Handlers /\ c.since \in Nat
           /\ c.sub \in Seq(Nat \X Nat) /\ c.down \in Seq(Seq(WireEvent)) /\ c.up \in Seq(Sending)
BY DEF Conns

\* publish, for one socket: k events after the first m.
PublishOne(c, m, k) ==
    IF Subscribed(c) /\ k > 0 /\ Len(c.sub) < BufferSize
    THEN [c EXCEPT !.sub = Append(@, <<m + 1, m + k>>)]
    ELSE c

LEMMA BatchedGrows ==
    ASSUME NEW q, NEW m \in Nat, NEW k \in Nat, m <= k, q \in Seq(Nat \X Nat), Batched(q, m)
    PROVE  Batched(q, k)
<1>1. ASSUME NEW j \in 1..Len(q) PROVE q[j][1] >= 1 /\ q[j][1] <= q[j][2] /\ q[j][2] <= k
  <2>1. q[j] \in Nat \X Nat
    OBVIOUS
  <2>2. q[j][1] \in Nat /\ q[j][2] \in Nat
    BY <2>1
  <2>3. q[j][1] >= 1 /\ q[j][1] <= q[j][2] /\ q[j][2] <= m
    BY DEF Batched
  <2> QED BY <2>2, <2>3
<1> QED BY <1>1 DEF Batched

LEMMA PublishedType ==
    ASSUME NEW c \in Conns, NEW m \in Nat, NEW k \in Nat
    PROVE  LET d == PublishOne(c, m, k) IN
           /\ d \in Conns /\ d.sock = c.sock /\ d.handler = c.handler /\ d.since = c.since
           /\ d.down = c.down /\ d.up = c.up
           /\ Len(c.sub) <= BufferSize => Len(d.sub) <= BufferSize
           /\ d.sub = c.sub \/ (k > 0 /\ d.sub = Append(c.sub, <<m + 1, m + k>>))
           /\ k > 0 /\ Subscribed(c) /\ ~(Len(c.sub) >= BufferSize) => d.sub = Append(c.sub, <<m + 1, m + k>>)
           /\ k = 0 => d = c
           /\ ~Subscribed(c) => d = c
<1>1. BufferSize \in Nat /\ c.sub \in Seq(Nat \X Nat) /\ Len(c.sub) \in Nat
  BY SyncAssumption, ConnFacts
<1>2. CASE Subscribed(c) /\ k > 0 /\ Len(c.sub) < BufferSize
  <2>0. PICK x \in Nat, y \in Nat : x = m + 1 /\ y = m + k
    OBVIOUS
  <2>1. PICK b \in Nat \X Nat : b = <<m + 1, m + k>>
    BY <2>0
  <2>9. PICK q0 \in Seq(Nat \X Nat) : q0 = c.sub
    BY <1>1
  <2>10. Append(q0, b) \in Seq(Nat \X Nat)
    OBVIOUS
  <2>2. PICK q \in Seq(Nat \X Nat) : q = Append(c.sub, b)
    BY <2>9, <2>10
  <2>3. Len(q) = Len(c.sub) + 1
    BY <1>1, <2>2
  <2>4. PublishOne(c, m, k) = [c EXCEPT !.sub = q]
    BY <1>2, <2>1, <2>2 DEF PublishOne
  <2>5. PICK d : d = [c EXCEPT !.sub = q]
    OBVIOUS
  <2>6. /\ d \in Conns /\ d.sock = c.sock /\ d.handler = c.handler /\ d.since = c.since
        /\ d.down = c.down /\ d.up = c.up /\ d.sub = q
    BY <2>5 DEF Conns
  <2> QED BY <1>1, <1>2, <2>1, <2>2, <2>3, <2>4, <2>5, <2>6
<1>3. CASE ~(Subscribed(c) /\ k > 0 /\ Len(c.sub) < BufferSize)
  <2>1. PublishOne(c, m, k) = c
    BY <1>3 DEF PublishOne
  <2> QED BY <1>1, <1>3, <2>1
<1> QED BY <1>2, <1>3

LEMMA StreamOverflows ==
    ASSUME NEW c \in Conns, NEW l \in Seq(LogEvent), NEW es \in Seq(LogEvent), NEW n \in Nat,
           NEW ov \in BOOLEAN, Streamed(c, l, n, ov), NEW nv \in BOOLEAN,
           \/ nv
           \/ c.sub = <<>> /\ c.handler \in {"none", "hello"}
    PROVE  Streamed(c, l \o es, n, nv)
<1>0. l \o es \in Seq(LogEvent)
  OBVIOUS
<1>1. PICK k \in Seq(LogEvent) : k = l \o es
  BY <1>0
<1>2. Len(l) \in Nat /\ Len(k) \in Nat /\ Len(l) <= Len(k)
  BY <1>1
<1>3. Batched(c.sub, Len(k))
  BY <1>2, BatchedGrows, ConnFacts DEF Streamed
<1>4. nv \/ Joined(c.sub, Len(k))
  <2>1. ASSUME c.sub = <<>> PROVE Joined(c.sub, Len(k))
    <3>1. Len(<<>>) = 0
      OBVIOUS
    <3>2. \A j \in 1..(Len(c.sub) - 1) : FALSE
      BY <2>1, <3>1
    <3> QED BY <2>1, <3>2 DEF Joined
  <2> QED BY <2>1
<1>5. ASSUME c.handler \in {"replayed", "live"}
      PROVE  \E b \in 0..n :
               /\ OnePane => b = n
               /\ Frames(k, b, c.down)
               /\ nv
  <2>1. PICK b \in 0..n : (OnePane => b = n) /\ Frames(l, b, c.down)
    BY <1>5 DEF Streamed
  <2>2. Frames(k, b, c.down)
    BY <1>1, <2>1, FramesGrow
  <2> QED BY <1>5, <2>1, <2>2
<1>6. /\ c.handler = "hello" => c.sub = <<>>
      /\ c.handler \in {"hello", "subscribed"} =>
           /\ c.down = <<>> /\ c.since <= n /\ (OnePane => c.since = n)
  BY DEF Streamed
<1> HIDE DEF Streamed
<1>7. Streamed(c, k, n, nv)
  BY <1>3, <1>4, <1>5, <1>6 DEF Streamed
<1> QED BY <1>1, <1>7

LEMMA Published ==
    ASSUME NEW c \in Conns, NEW l \in Seq(LogEvent), NEW es \in Seq(LogEvent), NEW n \in Nat,
           NEW ov \in BOOLEAN, Streamed(c, l, n, ov), c.handler = "none" => c.sub = <<>>,
           NEW full \in BOOLEAN, Subscribed(c) /\ Len(c.sub) >= BufferSize => full
    PROVE  Streamed(PublishOne(c, Len(l), Len(es)), l \o es, n, ov \/ (es # <<>> /\ full))
<1>1. PICK m \in Nat : m = Len(l)
  OBVIOUS
<1>2. PICK j \in Nat : j = Len(es)
  OBVIOUS
<1>3. es = <<>> <=> j = 0
  BY <1>2
<1>4. PICK nv \in BOOLEAN : nv <=> (ov \/ (es # <<>> /\ full))
  OBVIOUS
<1>5. PICK d : d = PublishOne(c, m, j)
  OBVIOUS
<1>6. /\ d \in Conns /\ d.sock = c.sock /\ d.handler = c.handler /\ d.since = c.since
      /\ d.down = c.down
      /\ d.sub = c.sub \/ (j > 0 /\ d.sub = Append(c.sub, <<m + 1, m + j>>))
      /\ j > 0 /\ Subscribed(c) /\ ~(Len(c.sub) >= BufferSize) => d.sub = Append(c.sub, <<m + 1, m + j>>)
      /\ j = 0 => d = c
      /\ ~Subscribed(c) => d = c
  BY <1>5, PublishedType
<1>7. CASE j = 0
  <2>1. es = <<>> /\ d = c
    BY <1>3, <1>6, <1>7
  <2>2. l \o es = l
    BY <2>1
  <2>3. nv <=> ov
    BY <1>4, <2>1
  <2>4. Streamed(d, l \o es, n, nv)
    BY <2>1, <2>2, <2>3 DEF Streamed
  <2> QED BY <1>1, <1>2, <1>4, <1>5, <2>4 DEF Streamed
<1>8. CASE j # 0 /\ (~Subscribed(c) \/ (Len(c.sub) >= BufferSize))
  <2>1. CASE ~Subscribed(c)
    <3>1. d = c /\ c.handler \in {"none", "hello"}
      BY <1>6, <2>1, ConnFacts DEF Subscribed, Handlers
    <3>2. c.sub = <<>>
      BY <3>1 DEF Streamed
    <3>3. Streamed(d, l \o es, n, nv)
      BY <3>1, <3>2, StreamOverflows
    <3> QED BY <1>1, <1>2, <1>4, <1>5, <3>3 DEF Streamed
  <2>2. CASE Subscribed(c) /\ Len(c.sub) >= BufferSize
    <3>1. nv
      BY <1>3, <1>4, <1>8, <2>2
    <3>2. Len(c.sub) \in Nat /\ BufferSize \in Nat /\ ~(Len(c.sub) < BufferSize)
      BY <2>2, ConnFacts, SyncAssumption
    <3>3. d = c
      BY <1>5, <3>2 DEF PublishOne
    <3>4. Streamed(d, l \o es, n, nv)
      BY <3>1, <3>3, StreamOverflows
    <3> QED BY <1>1, <1>2, <1>4, <1>5, <3>4 DEF Streamed
  <2> QED BY <1>8, <2>1, <2>2
<1>9. CASE j # 0 /\ Subscribed(c) /\ ~(Len(c.sub) >= BufferSize)
  <2>0. l \o es \in Seq(LogEvent)
    OBVIOUS
  <2>1. PICK k \in Seq(LogEvent) : k = l \o es
    BY <2>0
  <2>2. Len(k) = m + j
    BY <1>1, <1>2, <2>1
  <2>3. PICK q \in Seq(Nat \X Nat) : q = c.sub
    BY ConnFacts
  <2>4. PICK r : r = Append(q, <<m + 1, m + j>>)
    OBVIOUS
  <2>5. d.sub = r /\ j > 0
    BY <1>6, <1>9, <2>3, <2>4
  <2>6. PICK s \in Nat : s = Len(q)
    BY <2>3
  <2>7. /\ Len(r) = s + 1 /\ r # <<>> /\ r[s + 1] = <<m + 1, m + j>>
        /\ \A i \in 1..s : r[i] = q[i]
        /\ r \in Seq(Nat \X Nat)
    <3>1. PICK x \in Nat, y \in Nat : x = m + 1 /\ y = m + j
      OBVIOUS
    <3>2. PICK b \in Nat \X Nat : b = <<m + 1, m + j>>
      BY <3>1
    <3>3. r = Append(q, b)
      BY <2>4, <3>2
    <3>4. Append(q, b) \in Seq(Nat \X Nat)
      OBVIOUS
    <3>5. Len(Append(q, b)) = s + 1 /\ Append(q, b)[s + 1] = b
      BY <2>6
    <3>6. \A i \in 1..s : Append(q, b)[i] = q[i]
      BY <2>6
    <3>7. r # <<>>
      BY <3>3, <3>5, <2>6
    <3> QED BY <3>2, <3>3, <3>4, <3>5, <3>6, <3>7
  <2>8. Batched(q, m) /\ (ov \/ Joined(q, m))
    BY <1>1, <2>3 DEF Streamed
  <2>9. Batched(r, m + j)
    <3>1. ASSUME NEW i \in 1..(s + 1) PROVE r[i][1] >= 1 /\ r[i][1] <= r[i][2] /\ r[i][2] <= m + j
      <4>1. CASE i = s + 1
        <5>1. r[i] = <<m + 1, m + j>>
          BY <2>7, <4>1
        <5>2. r[i][1] = m + 1 /\ r[i][2] = m + j
          BY <5>1
        <5> QED BY <2>5, <5>2
      <4>2. CASE i \in 1..s
        <5>1. Batched(q, m + j)
          BY <2>8, BatchedGrows
        <5> QED BY <2>6, <2>7, <4>2, <5>1 DEF Batched
      <4> QED BY <4>1, <4>2
    <3> QED BY <2>7, <3>1 DEF Batched
  <2>10. nv \/ Joined(r, m + j)
    <3> SUFFICES ASSUME ~nv PROVE Joined(r, m + j)
      OBVIOUS
    <3>1. Joined(q, m)
      BY <1>4, <2>8
    <3>2. ASSUME NEW i \in 1..(Len(r) - 1) PROVE r[i + 1][1] = r[i][2] + 1
      <4>1. i \in 1..s
        BY <2>7
      <4>2. CASE i = s
        <5>1. q # <<>>
          BY <2>6, <4>1
        <5>2. q[s][2] = m
          BY <2>6, <3>1, <5>1 DEF Joined
        <5>3. r[i + 1] = <<m + 1, m + j>> /\ r[i] = q[s]
          BY <2>7, <4>1, <4>2
        <5>4. r[i + 1][1] = m + 1
          BY <5>3
        <5> QED BY <5>2, <5>3, <5>4
      <4>3. CASE i # s
        <5>1. i \in 1..(s - 1) /\ i + 1 \in 1..s
          BY <4>1, <4>3
        <5>2. q[i + 1][1] = q[i][2] + 1
          BY <2>6, <3>1, <5>1 DEF Joined
        <5> QED BY <2>7, <4>1, <5>1, <5>2
      <4> QED BY <4>2, <4>3
    <3>3. r[Len(r)][2] = m + j
      <4>1. r[Len(r)] = <<m + 1, m + j>>
        BY <2>7
      <4> QED BY <4>1
    <3> QED BY <3>2, <3>3 DEF Joined
  <2>11. c.handler # "hello" /\ d.handler = c.handler
    BY <1>6, <1>9 DEF Subscribed
  <2>12. ASSUME c.handler \in {"replayed", "live"}
         PROVE  \E b \in 0..n :
                  /\ OnePane => b = n
                  /\ Frames(k, b, d.down)
                  /\ \/ nv
                     \/ d.sub = <<>> /\ FrameMark(b, d.down, Len(d.down)) = Len(k)
                     \/ d.sub # <<>> /\ d.sub[1][1] <= FrameMark(b, d.down, Len(d.down)) + 1
    <3>1. PICK b \in 0..n :
                  /\ OnePane => b = n
                  /\ Frames(l, b, c.down)
                  /\ \/ ov
                     \/ c.sub = <<>> /\ FrameMark(b, c.down, Len(c.down)) = Len(l)
                     \/ c.sub # <<>> /\ c.sub[1][1] <= FrameMark(b, c.down, Len(c.down)) + 1
      BY <2>12 DEF Streamed
    <3>2. Frames(k, b, d.down)
      BY <1>6, <2>1, <3>1, FramesGrow
    <3>3. PICK x : x = FrameMark(b, c.down, Len(c.down))
      OBVIOUS
    <3>4. CASE ov
      BY <1>4, <3>1, <3>2, <3>4
    <3>5. CASE c.sub = <<>> /\ x = Len(l)
      <4>1. s = 0
        BY <2>3, <2>6, <3>5
      <4>2. d.sub[1] = <<m + 1, m + j>>
        BY <2>5, <2>7, <4>1
      <4>3. d.sub[1][1] = m + 1
        BY <4>2
      <4>4. d.sub # <<>> /\ d.sub[1][1] <= x + 1
        BY <1>1, <2>5, <2>7, <3>5, <4>3
      <4> QED BY <1>6, <3>1, <3>2, <3>3, <4>4
    <3>6. CASE c.sub # <<>> /\ c.sub[1][1] <= x + 1
      <4>1. 1 \in 1..s
        BY <2>3, <2>6, <3>6
      <4>2. d.sub # <<>> /\ d.sub[1] = c.sub[1]
        BY <2>3, <2>5, <2>7, <4>1
      <4> QED BY <1>6, <3>1, <3>2, <3>3, <3>6, <4>2
    <3> QED BY <3>1, <3>3, <3>4, <3>5, <3>6
  <2>13. c.handler \in {"hello", "subscribed"} =>
           /\ d.down = <<>> /\ d.since <= n /\ (OnePane => d.since = n)
    BY <1>6 DEF Streamed
  <2>14. Streamed(d, k, n, nv)
    BY <2>2, <2>5, <2>9, <2>10, <2>11, <2>12, <2>13 DEF Streamed
  <2> QED BY <1>1, <1>2, <1>4, <1>5, <2>1, <2>14 DEF Streamed
<1> QED BY <1>7, <1>8, <1>9

-----------------------------------------------------------------------------
\* A longer view is as well served, if there is another pane to have made it longer.
LEMMA LongerView ==
    ASSUME NEW c \in Conns, NEW l, NEW n \in Nat, NEW m \in Nat, NEW ov \in BOOLEAN,
           Streamed(c, l, n, ov), n <= m, OnePane => n = m
    PROVE  Streamed(c, l, m, ov)
<1>1. ASSUME NEW b \in 0..n PROVE b \in 0..m
  OBVIOUS
<1>2. CASE OnePane
  BY <1>2
<1>3. CASE ~OnePane
  <2>1. c.handler \in {"hello", "subscribed"} => c.since <= m
    <3>1. c.since \in Nat
      BY ConnFacts
    <3> QED BY <3>1 DEF Streamed
  <2>3. ASSUME c.handler \in {"replayed", "live"}
        PROVE  \E b \in 0..m :
                  /\ OnePane => b = m
                  /\ Frames(l, b, c.down)
                  /\ \/ ov
                     \/ c.sub = <<>> /\ FrameMark(b, c.down, Len(c.down)) = Len(l)
                     \/ c.sub # <<>> /\ c.sub[1][1] <= FrameMark(b, c.down, Len(c.down)) + 1
    BY <1>1, <1>3, <2>3 DEF Streamed
  <2> QED BY <1>3, <2>1, <2>3 DEF Streamed
<1> QED BY <1>2, <1>3

LEMMA NothingStreamed ==
    ASSUME NEW c, NEW l \in Seq(LogEvent), NEW n, NEW ov, c.handler = "none", c.sub = <<>>
    PROVE  Streamed(c, l, n, ov)
<1>1. Len(<<>>) = 0
  OBVIOUS
<1>2. /\ \A k \in 1..Len(c.sub) : FALSE
      /\ \A k \in 1..(Len(c.sub) - 1) : FALSE
  BY <1>1
<1> QED BY <1>2 DEF Streamed, Batched, Joined

LEMMA HelloStreamed ==
    ASSUME NEW c, NEW l \in Seq(LogEvent), NEW n \in Nat, NEW ov,
           c.handler \in {"hello", "subscribed"}, c.sub = <<>>, c.down = <<>>, c.since = n
    PROVE  Streamed(c, l, n, ov)
<1>1. Len(<<>>) = 0
  OBVIOUS
<1>2. /\ \A k \in 1..Len(c.sub) : FALSE
      /\ \A k \in 1..(Len(c.sub) - 1) : FALSE
  BY <1>1
<1> QED BY <1>2 DEF Streamed, Batched, Joined

LEMMA ReplayStreamed ==
    ASSUME NEW c \in Conns, NEW d \in Conns, NEW l \in Seq(RawEvent), NEW n \in Nat, NEW ov \in BOOLEAN,
           Streamed(c, l, n, ov), n <= Len(l), c.handler = "subscribed",
           d.handler = "replayed", d.sub = c.sub,
           d.down = WriteReplay(Batch(l, c.since + 1, Len(l)))
    PROVE  Streamed(d, l, n, ov)
<1>1. PICK b \in 0..n : b = c.since /\ (OnePane => b = n)
  BY ConnFacts DEF Streamed
<1>2. PICK hi \in Nat : hi = Len(l)
  OBVIOUS
<1>3. b \in 0..Len(l) /\ b \in Nat /\ b <= hi
  BY <1>2
<1>4. Frames(l, b, d.down) /\ FrameMark(b, d.down, Len(d.down)) = Len(l)
  BY <1>1, <1>2, <1>3, ReplayFrames
<1>5. Batched(d.sub, Len(l)) /\ (ov \/ Joined(d.sub, Len(l)))
  BY DEF Streamed
<1>6. ASSUME d.sub # <<>> PROVE d.sub[1][1] <= Len(l) + 1
  <2>1. d.sub \in Seq(Nat \X Nat)
    BY ConnFacts
  <2>2. 1 \in 1..Len(d.sub) /\ d.sub[1] \in Nat \X Nat
    BY <1>6, <2>1
  <2>3. d.sub[1][1] \in Nat /\ d.sub[1][2] \in Nat
    BY <2>2
  <2>4. d.sub[1][1] <= d.sub[1][2] /\ d.sub[1][2] <= Len(l)
    BY <1>5, <2>2 DEF Batched
  <2> QED BY <1>2, <2>3, <2>4
<1> QED BY <1>1, <1>4, <1>5, <1>6 DEF Streamed

-----------------------------------------------------------------------------
LEMMA ReceiveStreamed ==
    ASSUME NEW c \in Conns, NEW d \in Conns, NEW l \in Seq(LogEvent), NEW v \in Views,
           NEW ov \in BOOLEAN, v.lastSeq <= Len(l),
           Streamed(c, l, v.lastSeq, ov), c.handler \in {"replayed", "live"}, c.down # <<>>,
           d.handler = c.handler, d.sub = c.sub, d.down = Tail(c.down)
    PROVE  LET w == ReduceAgentEvents(v, Head(c.down)) IN
           /\ w \in Views /\ v.lastSeq <= w.lastSeq /\ w.lastSeq <= Len(l)
           /\ Faithful(v, l, ov) => Faithful(w, l, ov)
           /\ Streamed(d, l, w.lastSeq, ov)
<1>1. PICK n \in Nat : n = v.lastSeq
  BY DEF Views
<1>2. PICK fs \in Seq(Seq(WireEvent)) : fs = c.down
  BY ConnFacts
<1>3. PICK b \in 0..n :
        /\ OnePane => b = n
        /\ Frames(l, b, fs)
        /\ \/ ov
           \/ c.sub = <<>> /\ FrameMark(b, fs, Len(fs)) = Len(l)
           \/ c.sub # <<>> /\ c.sub[1][1] <= FrameMark(b, fs, Len(fs)) + 1
  BY <1>1, <1>2 DEF Streamed
<1>4. PICK s, e, gs : s = Head(fs) /\ e = EndOf(b, s) /\ gs = Tail(fs)
  OBVIOUS
<1>5. /\ Chain(l, b, s) /\ e \in 0..Len(l) /\ b <= e /\ Frames(l, e, gs)
      /\ FrameMark(e, gs, Len(gs)) = FrameMark(b, fs, Len(fs))
  BY <1>2, <1>3, <1>4, FirstFrame
<1>6. PICK w : w = ReduceAgentEvents(v, s)
  OBVIOUS
<1>7. /\ w \in Views /\ w.lastSeq = Later(n, e)
      /\ SameCore(v, At(l, n)) => SameCore(w, At(l, w.lastSeq))
      /\ v = At(l, n) /\ Whole(b, s, n) => w = At(l, w.lastSeq)
  <2>1. b <= v.lastSeq
    BY <1>1
  <2> QED BY <1>1, <1>4, <1>5, <1>6, <2>1, ReduceChain
<1>8. n <= w.lastSeq /\ w.lastSeq <= Len(l) /\ e <= w.lastSeq /\ w.lastSeq \in Nat
  BY <1>1, <1>5, <1>7 DEF Later
<1>9. OnePane => e = w.lastSeq
  BY <1>3, <1>5, <1>7 DEF Later
<1>10. Faithful(v, l, ov) => Faithful(w, l, ov)
  <2>1. OnePane => Whole(b, s, n)
    BY <1>3, <1>5, WholeStart
  <2> QED BY <1>1, <1>7, <2>1 DEF Faithful
<1>11. Streamed(d, l, w.lastSeq, ov)
  <2>1. e \in 0..w.lastSeq
    BY <1>5, <1>8
  <2>2. d.down = gs
    BY <1>2, <1>4
  <2>3. \E x \in 0..w.lastSeq :
          /\ OnePane => x = w.lastSeq
          /\ Frames(l, x, d.down)
          /\ \/ ov
             \/ d.sub = <<>> /\ FrameMark(x, d.down, Len(d.down)) = Len(l)
             \/ d.sub # <<>> /\ d.sub[1][1] <= FrameMark(x, d.down, Len(d.down)) + 1
    BY <1>3, <1>5, <1>9, <2>1, <2>2
  <2> QED BY <2>3 DEF Streamed
<1> QED BY <1>1, <1>2, <1>4, <1>6, <1>7, <1>8, <1>10, <1>11

LEMMA NoneLeft == ASSUME NEW S, NEW q \in Seq(S) PROVE Len(q) = 0 <=> q = <<>>
OBVIOUS

LEMMA NextBatch ==
    ASSUME NEW q \in Seq(Nat \X Nat), NEW n \in Nat, Batched(q, n), q # <<>>
    PROVE  /\ q[1][1] \in Nat \ {0} /\ q[1][2] \in Nat /\ q[1][1] <= q[1][2] /\ q[1][2] <= n
           /\ Batched(Tail(q), n)
           /\ Joined(q, n) => /\ Joined(Tail(q), n)
                              /\ Tail(q) = <<>> => q[1][2] = n
                              /\ Tail(q) # <<>> => Tail(q)[1][1] = q[1][2] + 1
<1>1. /\ Len(q) \in Nat \ {0} /\ q[1] \in Nat \X Nat /\ Tail(q) \in Seq(Nat \X Nat)
      /\ Len(Tail(q)) = Len(q) - 1
      /\ \A k \in 1..Len(Tail(q)) : Tail(q)[k] = q[k + 1]
  BY Nonempty
<1>6. PICK r \in Seq(Nat \X Nat) : r = Tail(q)
  BY <1>1
<1>7. PICK m \in Nat : m = Len(r)
  OBVIOUS
<1>2. r = Tail(q) /\ m = Len(r) /\ Len(q) = m + 1 /\ \A k \in 1..m : r[k] = q[k + 1]
  BY <1>1, <1>6, <1>7
<1>3. /\ q[1][1] \in Nat \ {0} /\ q[1][2] \in Nat /\ q[1][1] <= q[1][2] /\ q[1][2] <= n
  <2>1. 1 \in 1..Len(q) /\ q[1][1] \in Nat /\ q[1][2] \in Nat
    BY <1>1
  <2> QED BY <2>1 DEF Batched
<1>4. Batched(r, n)
  <2>1. ASSUME NEW k \in 1..m PROVE r[k][1] >= 1 /\ r[k][1] <= r[k][2] /\ r[k][2] <= n
    <3>1. k + 1 \in 1..Len(q) /\ r[k] = q[k + 1]
      BY <1>2
    <3> QED BY <3>1 DEF Batched
  <2> QED BY <1>2, <2>1 DEF Batched
<1>5. ASSUME Joined(q, n)
      PROVE  /\ Joined(r, n)
             /\ r = <<>> => q[1][2] = n
             /\ r # <<>> => r[1][1] = q[1][2] + 1
  <2>1. /\ \A k \in 1..(Len(q) - 1) : q[k + 1][1] = q[k][2] + 1
        /\ q[Len(q)][2] = n
    BY <1>5 DEF Joined
  <2>2. ASSUME NEW k \in 1..(m - 1) PROVE r[k + 1][1] = r[k][2] + 1
    <3>1. PICK j \in Nat : j = k + 1
      OBVIOUS
    <3>2. j \in 1..m /\ j \in 1..(Len(q) - 1) /\ k \in 1..m
      BY <1>2, <3>1
    <3>3. r[j] = q[j + 1] /\ r[k] = q[j] /\ q[j + 1][1] = q[j][2] + 1
      BY <1>2, <2>1, <3>1, <3>2
    <3> QED BY <3>1, <3>3
  <2>3. r = <<>> <=> m = 0
    <3>1. Len(r) = 0 <=> r = <<>>
      BY <1>6, NoneLeft
    <3> QED BY <1>7, <3>1
  <2>4. r # <<>> => r[m][2] = n
    <3>1. ASSUME r # <<>> PROVE r[m] = q[m + 1]
      BY <1>2, <2>3, <3>1
    <3> QED BY <1>2, <2>1, <3>1
  <2>5. r = <<>> => q[1][2] = n
    <3>1. ASSUME r = <<>> PROVE Len(q) = 1
      BY <1>2, <2>3, <3>1
    <3> QED BY <2>1, <3>1
  <2>6. r # <<>> => r[1][1] = q[1][2] + 1
    <3>1. ASSUME r # <<>> PROVE 1 \in 1..m /\ 1 \in 1..(Len(q) - 1)
      BY <1>2, <2>3, <3>1
    <3>2. ASSUME r # <<>> PROVE r[1] = q[1 + 1] /\ q[1 + 1][1] = q[1][2] + 1
      BY <1>2, <2>1, <3>1, <3>2
    <3> QED BY <3>2
  <2> QED BY <1>2, <2>2, <2>4, <2>5, <2>6 DEF Joined
<1> QED BY <1>2, <1>3, <1>4, <1>5

LEMMA ForwardStreamed ==
    ASSUME NEW c \in Conns, NEW d \in Conns, NEW l \in Seq(LogEvent), NEW v \in Views,
           NEW ov \in BOOLEAN, v.lastSeq <= Len(l),
           Streamed(c, l, v.lastSeq, ov), c.handler = "live", c.down = <<>>, c.sub # <<>>,
           d.handler = "live", d.sub = Tail(c.sub), d.down = <<>>
    PROVE  LET w == ReduceAgentEvents(v, Batch(l, c.sub[1][1], c.sub[1][2])) IN
           /\ w \in Views /\ v.lastSeq <= w.lastSeq /\ w.lastSeq <= Len(l)
           /\ Faithful(v, l, ov) => Faithful(w, l, ov)
           /\ Streamed(d, l, w.lastSeq, ov)
<1>1. PICK n \in Nat : n = v.lastSeq
  BY DEF Views
<1>2. PICK q \in Seq(Nat \X Nat) : q = c.sub
  BY ConnFacts
<1>3. PICK h \in Nat : h = Len(l)
  OBVIOUS
<1>4. Batched(q, h) /\ (ov \/ Joined(q, h))
  BY <1>2, <1>3 DEF Streamed
<1>5. /\ q[1][1] \in Nat \ {0} /\ q[1][2] \in Nat /\ q[1][1] <= q[1][2] /\ q[1][2] <= h
      /\ Batched(Tail(q), h)
      /\ Joined(q, h) => /\ Joined(Tail(q), h)
                         /\ Tail(q) = <<>> => q[1][2] = h
                         /\ Tail(q) # <<>> => Tail(q)[1][1] = q[1][2] + 1
  BY <1>2, <1>4, NextBatch
<1>6. PICK lo \in Nat : q[1][1] = lo + 1
  <2>1. q[1][1] - 1 \in Nat /\ q[1][1] = (q[1][1] - 1) + 1
    BY <1>5
  <2> QED BY <2>1
<1>7. PICK t \in Nat : t = q[1][2]
  BY <1>5
<1>8. PICK s : s = Batch(l, lo + 1, t)
  OBVIOUS
<1>9. lo <= t /\ t <= Len(l)
  BY <1>3, <1>5, <1>6, <1>7
<1>10. Chain(l, lo, s) /\ EndOf(lo, s) = t
  BY <1>8, <1>9, BatchChain
<1>11. PICK w : w = ReduceAgentEvents(v, s)
  OBVIOUS
<1>12. w \in Views /\ n <= w.lastSeq /\ w.lastSeq <= Len(l)
  <2>1. s \in Seq(WireEvent)
    BY <1>10 DEF Chain
  <2>2. ASSUME NEW k \in 1..Len(s) PROVE s[k].seq <= h
    <3>1. k \in 0..Len(s) /\ k # 0
      BY <2>1
    <3>2. Mark(lo, s, k) <= Len(l)
      BY <1>10, <3>1, Marks
    <3> QED BY <1>3, <3>1, <3>2 DEF Mark
  <2>3. v.lastSeq <= h
    BY <1>3
  <2> QED BY <1>1, <1>3, <1>11, <2>1, <2>2, <2>3, ReduceType
<1>13. w.lastSeq \in Nat
  BY <1>12 DEF Views
<1>14. PICK b \in 0..n :
        /\ OnePane => b = n
        /\ Frames(l, b, <<>>)
        /\ ov \/ lo + 1 <= FrameMark(b, <<>>, Len(<<>>)) + 1
  BY <1>1, <1>2, <1>6 DEF Streamed
<1>15. FrameMark(b, <<>>, Len(<<>>)) = b
  <2>1. b \in 0..Len(l)
    BY <1>14 DEF Frames
  <2> QED BY <2>1, NoFrames
<1>16. ASSUME ~ov
       PROVE  /\ w.lastSeq = Later(n, t)
              /\ SameCore(v, At(l, n)) => SameCore(w, At(l, w.lastSeq))
              /\ v = At(l, n) => w = At(l, w.lastSeq)
  <2>1. lo <= v.lastSeq
    BY <1>1, <1>14, <1>15, <1>16
  <2>2. Whole(lo, s, n)
    BY <1>8, <1>9, WholeBatch
  <2> QED BY <1>1, <1>10, <1>11, <2>1, <2>2, ReduceChain
<1>17. Faithful(v, l, ov) => Faithful(w, l, ov)
  BY <1>1, <1>16 DEF Faithful
<1>18. Streamed(d, l, w.lastSeq, ov)
  <2>1. w.lastSeq \in 0..Len(l) /\ w.lastSeq \in 0..w.lastSeq
    BY <1>12, <1>13
  <2>2. Frames(l, w.lastSeq, <<>>) /\ FrameMark(w.lastSeq, <<>>, Len(<<>>)) = w.lastSeq
    BY <2>1, NoFrames
  <2>3. PICK r : r = Tail(q)
    OBVIOUS
  <2>4. d.sub = r
    BY <1>2, <2>3
  <2>5. ASSUME ~ov PROVE \/ r = <<>> /\ w.lastSeq = Len(l)
                         \/ r # <<>> /\ r[1][1] <= w.lastSeq + 1
    <3>1. Joined(q, h) /\ w.lastSeq = Later(n, t)
      BY <1>4, <1>16, <2>5
    <3>2. t <= w.lastSeq
      BY <3>1 DEF Later
    <3>3. CASE r = <<>>
      BY <1>3, <1>5, <1>7, <1>12, <1>13, <2>3, <3>1, <3>2, <3>3
    <3>4. CASE r # <<>>
      <4>1. r[1][1] = t + 1
        BY <1>5, <1>7, <2>3, <3>1, <3>4
      <4> QED BY <1>13, <3>2, <3>4, <4>1
    <3> QED BY <3>3, <3>4
  <2>6. Batched(r, Len(l)) /\ (ov \/ Joined(r, Len(l)))
    BY <1>3, <1>4, <1>5, <2>3
  <2> QED BY <2>1, <2>2, <2>4, <2>5, <2>6 DEF Streamed
<1> QED BY <1>1, <1>2, <1>6, <1>7, <1>8, <1>11, <1>12, <1>17, <1>18

-----------------------------------------------------------------------------
(***************************************************************************)
(* A longer log.                                                           *)
(***************************************************************************)

LEMMA StoppedGrows ==
    ASSUME NEW l \in Seq(LogEvent), NEW es \in Seq(LogEvent), NEW a \in Nat \cup {None}, NEW q, NEW lost,
           NEW ov \in BOOLEAN, NEW nv \in BOOLEAN, ov => nv, Stopped(a, q, lost, l, ov)
    PROVE  Stopped(a, q, lost, l \o es, nv)
<1>1. PICK k : k = l \o es
  OBVIOUS
<1>2. Len(l) \in Nat /\ Len(k) \in Nat /\ Len(l) <= Len(k)
  BY <1>1
<1>3. CASE a = None
  BY <1>3 DEF Stopped
<1>4. CASE a # None
  <2>1. a \in Nat /\ a <= Len(l)
    BY <1>4 DEF Stopped
  <2>2. a \in 0..Len(l)
    BY <1>2, <2>1
  <2>3. At(l \o es, a) = At(l, a)
    BY <2>2, AtAppend
  <2>4. a <= Len(k) /\ (a < Len(l) => a < Len(k))
    BY <1>2, <2>1
  <2>5. Stopped(a, q, lost, k, nv)
    BY <1>1, <2>3, <2>4 DEF Stopped
  <2> QED BY <1>1, <2>5
<1> QED BY <1>3, <1>4

LEMMA FaithfulGrows ==
    ASSUME NEW l \in Seq(LogEvent), NEW es \in Seq(LogEvent), NEW v \in Views, v.lastSeq <= Len(l),
           NEW ov \in BOOLEAN, NEW nv \in BOOLEAN, ov => nv, Faithful(v, l, ov)
    PROVE  Faithful(v, l \o es, nv)
<1>1. v.lastSeq \in 0..Len(l)
  BY DEF Views
<1>2. At(l \o es, v.lastSeq) = At(l, v.lastSeq)
  BY <1>1, AtAppend
<1> QED BY <1>2 DEF Faithful

LEMMA PublishPane ==
    ASSUME NEW c \in Conns, NEW box, NEW l \in Seq(LogEvent), NEW es \in Seq(LogEvent), NEW n \in Nat,
           NEW ov \in BOOLEAN, NEW full \in BOOLEAN,
           Socketed(c, box), Streamed(c, l, n, ov),
           Subscribed(c) /\ Len(c.sub) >= BufferSize => full
    PROVE  LET d == PublishOne(c, Len(l), Len(es)) IN
           /\ d \in Conns /\ Socketed(d, box) /\ d.handler = c.handler /\ d.up = c.up
           /\ Streamed(d, l \o es, n, ov \/ (es # <<>> /\ full))
<1>1. PICK m \in Nat : m = Len(l)
  OBVIOUS
<1>2. PICK j \in Nat : j = Len(es)
  OBVIOUS
<1>3. PICK d : d = PublishOne(c, m, j)
  OBVIOUS
<1>4. /\ d \in Conns /\ d.sock = c.sock /\ d.handler = c.handler
      /\ d.down = c.down /\ d.up = c.up
      /\ Len(c.sub) <= BufferSize => Len(d.sub) <= BufferSize
      /\ ~Subscribed(c) => d = c
  BY <1>3, PublishedType
<1>5. c.handler = "none" => ~Subscribed(c)
  BY DEF Subscribed
<1>6. Socketed(d, box)
  BY <1>4, <1>5 DEF Socketed
<1>7. c.handler = "none" => c.sub = <<>>
  BY DEF Socketed
<1>8. Streamed(PublishOne(c, Len(l), Len(es)), l \o es, n, ov \/ (es # <<>> /\ full))
  BY <1>7, Published
<1> QED BY <1>1, <1>2, <1>3, <1>4, <1>6, <1>8

LEMMA LaterInHand ==
    ASSUME NEW h \in Seq(HandCommand), NEW t, NEW l, NEW now \in Times, InHand(h, t, l, now),
           t # NoThread => t.cutoff \in Nat
    PROVE  InHand(h, t, l, now + 1)
<1>1. now \in Nat
  BY TimesAreNat
<1>2. ASSUME NEW k \in 1..Len(h) PROVE h[k].at <= now + 1
  <2>1. h[k] \in HandCommand
    OBVIOUS
  <2>2. h[k].at \in Times
    BY <2>1 DEF HandCommand
  <2>3. h[k].at \in Nat /\ h[k].at <= now
    BY <2>2, TimesAreNat DEF InHand
  <2> QED BY <1>1, <2>3
<1>3. t # NoThread => t.cutoff <= now + 1
  BY <1>1 DEF InHand
<1> QED BY <1>2, <1>3 DEF InHand

-----------------------------------------------------------------------------
(***************************************************************************)
(* A command dispatched.                                                   *)
(***************************************************************************)

LEMMA Dispatched ==
    ASSUME IInv, NEW c, NEW cs \in [Panes -> Conns], Dispatch(c, cs), UNCHANGED <<view, outbox, stopAt, sent>>,
           LET es == EventsOf(thread, c) IN
             /\ es \in Seq(RawEvent) /\ Apply(thread, es) # NoThread
             /\ World(Apply(thread, es), log \o es),
           \A p \in Panes : /\ Socketed(cs[p], outbox[p])
                            /\ Streamed(cs[p], log, view.lastSeq, overflowed)
                            /\ Stopped(stopAt[p], cs[p].up \o outbox[p], Excused(p)', log', overflowed)
    PROVE  /\ log' \in Seq(RawEvent) /\ thread' # NoThread /\ World(thread', log')
           /\ Faithful(view', log', overflowed')
           /\ view'.lastSeq <= Len(log') /\ conn' \in [Panes -> Conns] /\ overflowed' \in BOOLEAN
           /\ \A p \in Panes : PaneInv(p)'
<1>0. log \in Seq(LogEvent) /\ overflowed \in BOOLEAN /\ view \in Views /\ stopAt \in [Panes -> Nat \cup {None}]
      /\ view.lastSeq <= Len(log)
  BY RawIsLogged DEF IInv, Types, World
<1>1. PICK es : es = EventsOf(thread, c)
  OBVIOUS
<1>2. es = Events(c)
  BY <1>1 DEF Events, EventsOf
<1>3. es \in Seq(RawEvent) /\ es \in Seq(LogEvent)
  BY <1>1, RawIsLogged
<1>4. /\ thread' = Apply(thread, es) /\ log' = log \o es /\ conn' = Publish(cs, Len(es))
      /\ overflowed' = (overflowed \/ (es # <<>> /\ Full(cs)))
  BY <1>2 DEF Dispatch
<1>5. thread' # NoThread /\ World(thread', log')
  BY <1>1, <1>4
<1>6. overflowed' \in BOOLEAN /\ (overflowed => overflowed')
  BY <1>0, <1>4
<1>7. view' = view /\ outbox' = outbox /\ stopAt' = stopAt /\ sent' = sent
  OBVIOUS
<1>8. view.lastSeq <= Len(log \o es)
  <2>1. Len(log) \in Nat /\ Len(log \o es) \in Nat /\ Len(log) <= Len(log \o es) /\ view.lastSeq \in Nat
    BY <1>0, <1>3 DEF Views
  <2> QED BY <1>0, <2>1
<1>9. Faithful(view', log', overflowed')
  <2>1. Faithful(view, log, overflowed)
    BY DEF IInv
  <2>2. Faithful(view, log \o es, overflowed')
    BY <1>0, <1>3, <1>6, <2>1, FaithfulGrows
  <2> QED BY <1>4, <1>7, <2>2 DEF Faithful
<1>10. PICK full \in BOOLEAN : full <=> Full(cs)
  OBVIOUS
<1>11. PICK nv \in BOOLEAN : nv <=> (overflowed \/ (es # <<>> /\ full))
  OBVIOUS
<1>12. nv <=> overflowed'
  BY <1>4, <1>10, <1>11
<1>13. ASSUME NEW p \in Panes
       PROVE  conn'[p] \in Conns /\ PaneInv(p)'
  <2>1. PICK d : d = PublishOne(cs[p], Len(log), Len(es))
    OBVIOUS
  <2>2. conn'[p] = d
    BY <1>4, <2>1 DEF Publish, PublishOne
  <2>3. /\ cs[p] \in Conns /\ Socketed(cs[p], outbox[p]) /\ Streamed(cs[p], log, view.lastSeq, overflowed)
    OBVIOUS
  <2>4. Subscribed(cs[p]) /\ Len(cs[p].sub) >= BufferSize => full
    BY <1>10 DEF Full
  <2>5. view.lastSeq \in Nat
    BY <1>0 DEF Views
  <2>6. /\ d \in Conns /\ Socketed(d, outbox[p]) /\ d.handler = cs[p].handler /\ d.up = cs[p].up
        /\ Streamed(d, log \o es, view.lastSeq, overflowed \/ (es # <<>> /\ full))
    BY <1>0, <1>3, <2>1, <2>3, <2>4, <2>5, PublishPane
  <2>7. Streamed(d, log', view'.lastSeq, overflowed')
    BY <1>4, <1>7, <1>10, <2>6 DEF Streamed
  <2>8. Socketed(conn'[p], outbox'[p])
    BY <1>7, <2>2, <2>6
  <2>9. Streamed(conn'[p], log', view'.lastSeq, overflowed')
    BY <2>2, <2>7
  <2>11. Stopped(stopAt'[p], conn'[p].up \o outbox'[p], Excused(p)', log', overflowed')
    <3>1. Stopped(stopAt[p], cs[p].up \o outbox[p], Excused(p)', log', overflowed)
      OBVIOUS
    <3>2. Stopped(stopAt[p], cs[p].up \o outbox[p], Excused(p)', log', overflowed')
      BY <1>6, <3>1 DEF Stopped
    <3> QED BY <1>7, <2>2, <2>6, <3>2
  <2> QED BY <1>5, <2>2, <2>6, <2>8, <2>9, <2>11 DEF PaneInv, Queue
<1>14. conn' \in [Panes -> Conns]
  <2>1. conn' = [p \in Panes |-> conn'[p]]
    BY <1>4 DEF Publish
  <2> QED BY <1>13, <2>1
<1>15. log' \in Seq(RawEvent)
  BY <1>5 DEF World
<1> QED BY <1>4, <1>5, <1>6, <1>7, <1>8, <1>9, <1>13, <1>14, <1>15

-----------------------------------------------------------------------------
(***************************************************************************)
(* A pane's commands, as the handler takes the first of them.              *)
(***************************************************************************)

\* An interrupt that the engine turns down finds the thread archived, or being so.
LEMMA StoppedHandled ==
    ASSUME NEW q \in Seq(Sending), q # <<>>, NEW t, t # NoThread, NEW l, World(t, l), NEW lost,
           NEW a \in Nat \cup {None}, NEW ov \in BOOLEAN, Stopped(a, q, lost, l, ov),
           LET es == EventsOf(t, Head(q).command) IN es \in Seq(RawEvent)
    PROVE  Stopped(a, Tail(q), lost, l \o EventsOf(t, Head(q).command), ov)
<1>1. /\ Len(q) \in Nat \ {0} /\ Head(q) = q[1] /\ Tail(q) \in Seq(Sending)
      /\ Len(Tail(q)) = Len(q) - 1 /\ q[1] \in Sending
      /\ \A k \in 1..Len(Tail(q)) : Tail(q)[k] = q[k + 1]
  BY Nonempty
<1>2. PICK r \in Seq(Sending) : r = Tail(q)
  BY <1>1
<1>3. PICK c : c = Head(q).command
  OBVIOUS
<1>4. PICK es \in Seq(RawEvent) : es = EventsOf(t, c)
  BY <1>3
<1>5. l \in Seq(RawEvent) /\ l \in Seq(LogEvent) /\ es \in Seq(LogEvent)
  BY <1>4, RawIsLogged DEF World
<1>6. Stopped(a, q, lost, l \o es, ov)
  BY <1>5, StoppedGrows
<1>7. ASSUME HasInterrupt(q), ~HasInterrupt(r) PROVE c.type = "turnInterrupt"
  <2>1. PICK k \in 1..Len(q) : q[k].command.type = "turnInterrupt"
    BY <1>7 DEF HasInterrupt
  <2>2. CASE k = 1
    BY <1>1, <1>3, <2>1, <2>2
  <2>3. CASE k # 1
    <3>1. PICK j \in Nat : k = j + 1
      <4>1. k - 1 \in Nat /\ k = (k - 1) + 1
        OBVIOUS
      <4> QED BY <4>1
    <3>2. j \in 1..Len(r) /\ r[j] = q[k]
      BY <1>1, <1>2, <2>3, <3>1
    <3> QED BY <1>7, <2>1, <3>2 DEF HasInterrupt
  <2> QED BY <2>2, <2>3
<1>8. ASSUME c.type = "turnInterrupt", a # None, ~ov PROVE a < Len(l \o es)
  <2>1. a \in Nat /\ a <= Len(l) /\ ~At(l, a).archived /\ ~At(l, a).archiving
    BY <1>8 DEF Stopped
  <2>2. ~Fenced(t, c)
    BY <1>8 DEF Fenced
  <2>3. Len(l) \in Nat /\ Len(l \o es) = Len(l) + Len(es) /\ Len(es) \in Nat
    BY <1>5
  <2>4. CASE Closed(t)
    <3>1. Match(t, At(l, Len(l)), OpenedIn(l), ResolvedIn(l), ErrorIn(l))
      BY DEF World
    <3>2. At(l, Len(l)).archived \/ At(l, Len(l)).archiving
      BY <2>4, <3>1 DEF Match, Closed
    <3>3. a # Len(l)
      BY <2>1, <3>2
    <3> QED BY <2>1, <2>3, <3>3
  <2>5. CASE ~Closed(t)
    <3>1. Accepts(t, c)
      BY <1>8, <2>5 DEF Accepts, LifecycleCommands
    <3>2. Decide(t, c) = <<[type |-> "turnInterruptRequested"]>>
      BY <1>8, <2>2 DEF Decide
    <3>3. es = <<[type |-> "turnInterruptRequested"]>>
      BY <1>4, <1>8, <2>2, <3>1, <3>2 DEF EventsOf
    <3>4. Len(es) = 1
      BY <3>3
    <3> QED BY <2>1, <2>3, <3>4
  <2> QED BY <2>4, <2>5
<1>9. Stopped(a, r, lost, l \o es, ov)
  BY <1>6, <1>7, <1>8 DEF Stopped
<1> QED BY <1>2, <1>3, <1>4, <1>9

-----------------------------------------------------------------------------
(***************************************************************************)
(* The steps that dispatch.                                                *)
(***************************************************************************)

LEMMA EmptyHasNone == ASSUME NEW q, HasInterrupt(q) PROVE q # <<>>
<1>1. Len(<<>>) = 0
  OBVIOUS
<1> QED BY <1>1 DEF HasInterrupt

LEMMA SameExcuse == ASSUME UNCHANGED <<orphans, strayed>>, NEW p PROVE Excused(p)' <=> Excused(p)
BY DEF Excused

LEMMA AutoCreateKeeps ==
    ASSUME IInv, NEW p \in Panes, AutoCreate(p)
    PROVE  IInv'
<1>1. PICK i \in Instances :
        Dispatch([type |-> "create", instance |-> i, mode |-> None], [conn EXCEPT ![p].handler = "live"])
  BY DEF AutoCreate
<1>2. PICK c : c = [type |-> "create", instance |-> i, mode |-> None]
  OBVIOUS
<1>3. PICK cs : cs = [conn EXCEPT ![p].handler = "live"]
  OBVIOUS
<1>4. Dispatch(c, cs)
  BY <1>1, <1>2, <1>3
<1>5. conn[p].handler = "replayed"
      /\ UNCHANGED <<hand, clock, orphans, view, outbox, stopAt, sent, executed, strayed>>
  BY DEF AutoCreate, Serving, counts, browser
<1>6. Types /\ World(thread, log) /\ InHand(hand, thread, log, clock) /\ \A q \in Panes : PaneInv(q)
  BY DEF IInv
<1>7. conn \in [Panes -> Conns] /\ hand \in Seq(HandCommand) /\ clock \in Times
  BY <1>6 DEF Types
<1>8. PICK es : es = EventsOf(thread, c)
  OBVIOUS
<1>9. /\ es \in Seq(RawEvent) /\ Apply(thread, es) # NoThread /\ World(Apply(thread, es), log \o es)
      /\ InHand(hand, Apply(thread, es), log \o es, clock)
  BY <1>2, <1>6, <1>7, <1>8, CreateDispatch
<1>10. log' = log \o es /\ thread' = Apply(thread, es)
  BY <1>4, <1>8 DEF Dispatch, Events, EventsOf
<1>11. cs \in [Panes -> Conns]
  <2>1. PICK d : d = [conn[p] EXCEPT !.handler = "live"]
    OBVIOUS
  <2>2. d \in Conns
    BY <1>7, <2>1 DEF Conns, Handlers
  <2>3. cs = [conn EXCEPT ![p] = d]
    BY <1>3, <2>1
  <2> QED BY <1>7, <2>2, <2>3
<1>12. ASSUME NEW q \in Panes
       PROVE  /\ Socketed(cs[q], outbox[q])
              /\ Streamed(cs[q], log, view.lastSeq, overflowed)
              /\ Stopped(stopAt[q], cs[q].up \o outbox[q], Excused(q)', log', overflowed)
  <2>1. /\ cs[q].sub = conn[q].sub /\ cs[q].down = conn[q].down /\ cs[q].up = conn[q].up
        /\ cs[q].since = conn[q].since /\ cs[q].sock = conn[q].sock
        /\ cs[q].handler = IF q = p THEN "live" ELSE conn[q].handler
    BY <1>3, <1>7 DEF Conns
  <2>2. PaneInv(q)
    BY <1>6
  <2>3. Socketed(cs[q], outbox[q])
    BY <1>5, <2>1, <2>2 DEF PaneInv, Socketed
  <2>4. Excused(q)' <=> Excused(q)
    BY <1>5, SameExcuse
  <2>5. Streamed(cs[q], log, view.lastSeq, overflowed)
    BY <1>5, <2>1, <2>2 DEF PaneInv, Streamed
  <2>6. Stopped(stopAt[q], cs[q].up \o outbox[q], Excused(q), log, overflowed)
    BY <2>1, <2>2 DEF PaneInv, Queue
  <2>7. Stopped(stopAt[q], cs[q].up \o outbox[q], Excused(q), log \o es, overflowed)
    <3>1. log \in Seq(LogEvent) /\ es \in Seq(LogEvent)
      BY <1>6, <1>9, RawIsLogged DEF World
    <3>2. stopAt[q] \in Nat \cup {None} /\ overflowed \in BOOLEAN
      BY <1>6 DEF Types
    <3> QED BY <2>6, <3>1, <3>2, StoppedGrows
  <2>8. Stopped(stopAt[q], cs[q].up \o outbox[q], Excused(q)', log \o es, overflowed)
    BY <2>4, <2>7 DEF Stopped
  <2> QED BY <1>10, <2>3, <2>5, <2>8
<1>13. UNCHANGED <<view, outbox, stopAt, sent>>
  BY <1>5
<1>14. /\ World(thread', log') /\ Faithful(view', log', overflowed')
       /\ view'.lastSeq <= Len(log') /\ conn' \in [Panes -> Conns] /\ overflowed' \in BOOLEAN
       /\ \A q \in Panes : PaneInv(q)'
  BY <1>4, <1>8, <1>9, <1>11, <1>12, <1>13, Dispatched
<1>15. InHand(hand', thread', log', clock')
  BY <1>5, <1>9, <1>10
<1>16. Types'
  BY <1>5, <1>6, <1>14 DEF Types
<1> QED BY <1>14, <1>15, <1>16 DEF IInv

LEMMA HandleCommandKeeps ==
    ASSUME IInv, NEW p \in Panes, HandleCommand(p)
    PROVE  IInv'
<1>1. /\ conn[p].handler = "live" /\ conn[p].up # <<>>
      /\ Dispatch(Head(conn[p].up).command, [conn EXCEPT ![p].up = Tail(@)])
      /\ executed' = [executed EXCEPT ![p] = Append(@, Head(conn[p].up).number)]
      /\ UNCHANGED <<hand, clock, orphans, view, outbox, stopAt, sent, strayed>>
  BY DEF HandleCommand, Serving, Record, counts, browser
<1>2. Types /\ World(thread, log) /\ InHand(hand, thread, log, clock) /\ \A q \in Panes : PaneInv(q)
  BY DEF IInv
<1>3. conn \in [Panes -> Conns] /\ hand \in Seq(HandCommand) /\ clock \in Times
      /\ executed \in [Panes -> Seq(Nat)] /\ sent \in Nat
  BY <1>2 DEF Types
<1>4. PICK q \in Seq(Sending) : q = conn[p].up
  BY <1>3, ConnFacts
<1>5. PICK s \in Sending : s = Head(q)
  BY <1>1, <1>4, Nonempty
<1>6. s.command \in UserCommand /\ s.number \in Nat
  BY DEF Sending
<1>7. PICK c \in UserCommand : c = s.command
  BY <1>6
<1>8. PICK cs : cs = [conn EXCEPT ![p].up = Tail(@)]
  OBVIOUS
<1>9. Dispatch(c, cs)
  BY <1>1, <1>4, <1>5, <1>7, <1>8
<1>10. PICK es : es = EventsOf(thread, c)
  OBVIOUS
<1>11. thread # NoThread
  BY <1>1, <1>2 DEF PaneInv
<1>12. /\ es \in Seq(RawEvent) /\ Apply(thread, es) # NoThread /\ World(Apply(thread, es), log \o es)
       /\ InHand(hand, Apply(thread, es), log \o es, clock)
  <2>1. c \in UserCommand \cup ReactorCommand /\ c.type # "archiveComplete"
    BY DEF UserCommand
  <2> QED BY <1>2, <1>3, <1>10, <1>11, <2>1, UserDispatch
<1>13. log' = log \o es /\ thread' = Apply(thread, es)
  BY <1>9, <1>10 DEF Dispatch, Events, EventsOf
<1>14. cs \in [Panes -> Conns]
  <2>1. PICK r \in Seq(Sending) : r = Tail(q)
    BY <1>1, <1>4, Nonempty
  <2>2. PICK d : d = [conn[p] EXCEPT !.up = r]
    OBVIOUS
  <2>3. d \in Conns
    BY <1>3, <2>2 DEF Conns
  <2>4. cs = [conn EXCEPT ![p] = d]
    BY <1>4, <1>8, <2>1, <2>2
  <2> QED BY <1>3, <2>3, <2>4
<1>15. ASSUME NEW x \in Panes
       PROVE  /\ Socketed(cs[x], outbox[x])
              /\ Streamed(cs[x], log, view.lastSeq, overflowed)
              /\ Stopped(stopAt[x], cs[x].up \o outbox[x], Excused(x)', log', overflowed)
  <2>1. /\ cs[x].sub = conn[x].sub /\ cs[x].down = conn[x].down /\ cs[x].handler = conn[x].handler
        /\ cs[x].since = conn[x].since /\ cs[x].sock = conn[x].sock
        /\ cs[x].up = IF x = p THEN Tail(q) ELSE conn[x].up
    BY <1>3, <1>4, <1>8 DEF Conns
  <2>2. PaneInv(x)
    BY <1>2
  <2>3. Socketed(cs[x], outbox[x])
    <3>1. x = p => conn[x].handler # "none"
      BY <1>1
    <3> QED BY <2>1, <2>2, <3>1 DEF PaneInv, Socketed
  <2>4. Streamed(cs[x], log, view.lastSeq, overflowed)
    BY <2>1, <2>2 DEF PaneInv, Streamed
  <2>5. stopAt[x] \in Nat \cup {None} /\ overflowed \in BOOLEAN
    BY <1>2 DEF Types
  <2>8. Excused(x)' <=> Excused(x)
    BY <1>1, SameExcuse
  <2>6. CASE x # p
    <3>2. Stopped(stopAt[x], cs[x].up \o outbox[x], Excused(x), log, overflowed)
      BY <2>1, <2>2, <2>6 DEF PaneInv, Queue
    <3>3. log \in Seq(LogEvent) /\ es \in Seq(LogEvent)
      BY <1>2, <1>12, RawIsLogged DEF World
    <3>4. Stopped(stopAt[x], cs[x].up \o outbox[x], Excused(x), log \o es, overflowed)
      BY <2>5, <3>2, <3>3, StoppedGrows
    <3>5. Stopped(stopAt[x], cs[x].up \o outbox[x], Excused(x)', log \o es, overflowed)
      BY <2>8, <3>4 DEF Stopped
    <3> QED BY <1>13, <2>3, <2>4, <3>5
  <2>7. CASE x = p
    <3>1. outbox[x] = <<>>
      BY <1>1, <2>2, <2>7 DEF PaneInv, Socketed
    <3>2. Queue(x) = q /\ cs[x].up \o outbox[x] = Tail(q)
      <4>1. Tail(q) \in Seq(Sending)
        BY <1>1, <1>4, Nonempty
      <4>2. q \o <<>> = q /\ Tail(q) \o <<>> = Tail(q)
        BY <4>1, NothingBefore
      <4> QED BY <1>4, <2>1, <2>7, <3>1, <4>2 DEF Queue
    <3>3. Stopped(stopAt[x], q, Excused(x), log, overflowed)
      BY <2>2, <3>2 DEF PaneInv
    <3>6. Stopped(stopAt[x], Tail(q), Excused(x), log \o EventsOf(thread, Head(q).command), overflowed)
      BY <1>1, <1>2, <1>4, <1>5, <1>7, <1>10, <1>11, <1>12, <2>5, <3>3, StoppedHandled
    <3>7. Stopped(stopAt[x], Tail(q), Excused(x)', log \o EventsOf(thread, Head(q).command), overflowed)
      BY <2>8, <3>6 DEF Stopped
    <3>8. log' = log \o EventsOf(thread, Head(q).command)
      BY <1>5, <1>7, <1>10, <1>13
    <3> QED BY <2>3, <2>4, <3>2, <3>7, <3>8
  <2> QED BY <2>6, <2>7
<1>16. UNCHANGED <<view, outbox, stopAt, sent>>
  BY <1>1
<1>17. /\ World(thread', log') /\ Faithful(view', log', overflowed')
       /\ view'.lastSeq <= Len(log') /\ conn' \in [Panes -> Conns] /\ overflowed' \in BOOLEAN
       /\ \A x \in Panes : PaneInv(x)'
  BY <1>9, <1>10, <1>12, <1>14, <1>15, <1>16, Dispatched
<1>18. InHand(hand', thread', log', clock')
  BY <1>1, <1>12, <1>13
<1>19. executed' \in [Panes -> Seq(Nat)]
  BY <1>1, <1>3, <1>4, <1>5, <1>6
<1>20. Types'
  BY <1>1, <1>2, <1>17, <1>19 DEF Types
<1> QED BY <1>17, <1>18, <1>20 DEF IInv

\* The panes as they are, the log longer.
LEMMA PanesAsTheyAre ==
    ASSUME IInv, NEW es \in Seq(RawEvent), log' = log \o es, NEW x \in Panes,
           Excused(x) => Excused(x)'
    PROVE  /\ Socketed(conn[x], outbox[x])
           /\ Streamed(conn[x], log, view.lastSeq, overflowed)
           /\ Stopped(stopAt[x], conn[x].up \o outbox[x], Excused(x)', log', overflowed)
<1>1. PaneInv(x) /\ World(thread, log) /\ Types
  BY DEF IInv
<1>2. log \in Seq(LogEvent) /\ es \in Seq(LogEvent)
  BY <1>1, RawIsLogged DEF World
<1>3. stopAt[x] \in Nat \cup {None} /\ overflowed \in BOOLEAN
  BY <1>1 DEF Types
<1>4. Stopped(stopAt[x], conn[x].up \o outbox[x], Excused(x), log, overflowed)
  BY <1>1 DEF PaneInv, Queue
<1>5. Stopped(stopAt[x], conn[x].up \o outbox[x], Excused(x), log \o es, overflowed)
  BY <1>2, <1>3, <1>4, StoppedGrows
<1> QED BY <1>1, <1>5 DEF PaneInv, Queue, Stopped

\* A handler whose pane has let go of its socket creates the thread, or takes the next
\* of the frames that still reach it.
LEMMA LateCreateKeeps ==
    ASSUME IInv, NEW o \in orphans, LateCreate(o)
    PROVE  IInv'
<1>1. PICK i \in Instances : Dispatch([type |-> "create", instance |-> i, mode |-> None], conn)
  BY DEF LateCreate
<1>2. PICK c : c = [type |-> "create", instance |-> i, mode |-> None]
  OBVIOUS
<1>3. /\ Dispatch(c, conn) /\ orphans' = {x \in orphans : x.up # <<>>}
      /\ UNCHANGED <<hand, clock, view, outbox, stopAt, sent, executed, strayed>>
  BY <1>1, <1>2 DEF LateCreate, counts, browser
<1>4. Types /\ World(thread, log) /\ InHand(hand, thread, log, clock)
  BY DEF IInv
<1>5. conn \in [Panes -> Conns] /\ hand \in Seq(HandCommand) /\ clock \in Times /\ orphans \subseteq Orphans
  BY <1>4 DEF Types
<1>6. PICK es : es = EventsOf(thread, c)
  OBVIOUS
<1>7. /\ es \in Seq(RawEvent) /\ Apply(thread, es) # NoThread /\ World(Apply(thread, es), log \o es)
      /\ InHand(hand, Apply(thread, es), log \o es, clock)
  BY <1>2, <1>4, <1>5, <1>6, CreateDispatch
<1>8. log' = log \o es /\ thread' = Apply(thread, es)
  BY <1>3, <1>6 DEF Dispatch, Events, EventsOf
<1>9. ASSUME NEW x \in Panes PROVE Excused(x) => Excused(x)'
  BY <1>3, EmptyHasNone DEF Excused
<1>10. \A x \in Panes : /\ Socketed(conn[x], outbox[x])
                        /\ Streamed(conn[x], log, view.lastSeq, overflowed)
                        /\ Stopped(stopAt[x], conn[x].up \o outbox[x], Excused(x)', log', overflowed)
  BY <1>7, <1>8, <1>9, PanesAsTheyAre
<1>11. UNCHANGED <<view, outbox, stopAt, sent>>
  BY <1>3
<1>12. /\ World(thread', log') /\ Faithful(view', log', overflowed')
       /\ view'.lastSeq <= Len(log') /\ conn' \in [Panes -> Conns] /\ overflowed' \in BOOLEAN
       /\ \A x \in Panes : PaneInv(x)'
  BY <1>3, <1>5, <1>6, <1>7, <1>10, <1>11, Dispatched
<1>13. InHand(hand', thread', log', clock')
  BY <1>3, <1>7, <1>8
<1>14. orphans' \subseteq Orphans
  BY <1>3, <1>5
<1>15. Types'
  BY <1>3, <1>4, <1>12, <1>14 DEF Types
<1> QED BY <1>12, <1>13, <1>15 DEF IInv

LEMMA LateCommandKeeps ==
    ASSUME IInv, NEW o \in orphans, LateCommand(o)
    PROVE  IInv'
<1>1. /\ thread # NoThread /\ o.up # <<>> /\ Dispatch(Head(o.up).command, conn)
      /\ executed' = [executed EXCEPT ![o.pane] = Append(@, Head(o.up).number)]
      /\ orphans' = {x \in (orphans \ {o}) \cup {[o EXCEPT !.up = Tail(@)]} : x.up # <<>>}
      /\ UNCHANGED <<hand, clock, view, outbox, stopAt, sent, strayed>>
  BY DEF LateCommand, Record, counts, browser
<1>2. Types /\ World(thread, log) /\ InHand(hand, thread, log, clock) /\ \A q \in Panes : PaneInv(q)
  BY DEF IInv
<1>3. conn \in [Panes -> Conns] /\ hand \in Seq(HandCommand) /\ clock \in Times
      /\ executed \in [Panes -> Seq(Nat)] /\ orphans \subseteq Orphans
  BY <1>2 DEF Types
<1>4. o \in Orphans /\ o.pane \in Panes /\ o.up \in Seq(Sending)
  BY <1>3 DEF Orphans
<1>5. PICK u \in Seq(Sending) : u = o.up
  BY <1>4
<1>6. PICK r \in Seq(Sending) : r = Tail(u)
  BY <1>1, <1>5, Nonempty
<1>7. PICK s \in Sending : s = Head(u)
  BY <1>1, <1>5, Nonempty
<1>8. s.command \in UserCommand /\ s.number \in Nat
  BY DEF Sending
<1>9. PICK c \in UserCommand : c = s.command
  BY <1>8
<1>10. PICK es : es = EventsOf(thread, c)
  OBVIOUS
<1>11. /\ es \in Seq(RawEvent) /\ Apply(thread, es) # NoThread /\ World(Apply(thread, es), log \o es)
       /\ InHand(hand, Apply(thread, es), log \o es, clock)
  <2>1. c \in UserCommand \cup ReactorCommand /\ c.type # "archiveComplete"
    BY DEF UserCommand
  <2> QED BY <1>1, <1>2, <1>3, <1>10, <2>1, UserDispatch
<1>12. Dispatch(c, conn)
  BY <1>1, <1>5, <1>7, <1>9
<1>13. log' = log \o es /\ thread' = Apply(thread, es)
  BY <1>10, <1>12 DEF Dispatch, Events, EventsOf
<1>14. PICK t \in Orphans : t = [o EXCEPT !.up = Tail(@)] /\ t.pane = o.pane /\ t.up = r
  <2>1. PICK t : t = [o EXCEPT !.up = r]
    OBVIOUS
  <2>2. t \in Orphans /\ t.pane = o.pane /\ t.up = r
    BY <1>4, <2>1 DEF Orphans
  <2> QED BY <1>5, <1>6, <2>1, <2>2
<1>15. orphans' \subseteq Orphans
  BY <1>1, <1>3, <1>14
<1>16. ASSUME NEW x \in Panes, x # o.pane PROVE Excused(x) => Excused(x)'
  BY <1>1, <1>16, EmptyHasNone DEF Excused
<1>17. ASSUME NEW x \in Panes
       PROVE  /\ Socketed(conn[x], outbox[x])
              /\ Streamed(conn[x], log, view.lastSeq, overflowed)
              /\ Stopped(stopAt[x], conn[x].up \o outbox[x], Excused(x)', log', overflowed)
  <2>1. CASE x # o.pane
    BY <1>11, <1>13, <1>16, <2>1, PanesAsTheyAre
  <2>2. CASE x = o.pane
    <3>1. PaneInv(x) /\ stopAt[x] \in Nat \cup {None} /\ overflowed \in BOOLEAN
      BY <1>2 DEF Types
    <3>2. PICK q : q = conn[x].up \o outbox[x]
      OBVIOUS
    <3>3. PICK rest \in BOOLEAN :
            rest <=> \/ HasInterrupt(q) \/ x \in strayed
                     \/ \E w \in orphans \ {o} : w.pane = x /\ HasInterrupt(w.up)
      OBVIOUS
    <3>4. Stopped(stopAt[x], q, Excused(x), log, overflowed)
      BY <3>1, <3>2 DEF PaneInv, Queue
    <3>5. Excused(x) \/ HasInterrupt(q) => rest \/ HasInterrupt(u)
      BY <1>5, <3>3 DEF Excused
    <3>6. Stopped(stopAt[x], u, rest, log, overflowed)
      BY <3>4, <3>5 DEF Stopped
    <3>7. EventsOf(thread, Head(u).command) = es /\ u # <<>>
      BY <1>1, <1>5, <1>7, <1>9, <1>10
    <3>8. Stopped(stopAt[x], r, rest, log \o es, overflowed)
      BY <1>1, <1>2, <1>6, <1>11, <3>1, <3>6, <3>7, StoppedHandled
    <3>9. HasInterrupt(r) => Excused(x)'
      <4>1. ASSUME HasInterrupt(r) PROVE t \in orphans'
        BY <1>1, <1>14, <4>1, EmptyHasNone
      <4> QED BY <1>14, <2>2, <4>1 DEF Excused
    <3>10. rest => HasInterrupt(q) \/ Excused(x)'
      BY <1>1, <3>3, EmptyHasNone DEF Excused
    <3>11. Stopped(stopAt[x], q, Excused(x)', log \o es, overflowed)
      BY <3>8, <3>9, <3>10 DEF Stopped
    <3> QED BY <1>13, <3>1, <3>2, <3>11 DEF PaneInv
  <2> QED BY <2>1, <2>2
<1>18. UNCHANGED <<view, outbox, stopAt, sent>>
  BY <1>1
<1>19. /\ World(thread', log') /\ Faithful(view', log', overflowed')
       /\ view'.lastSeq <= Len(log') /\ conn' \in [Panes -> Conns] /\ overflowed' \in BOOLEAN
       /\ \A x \in Panes : PaneInv(x)'
  BY <1>3, <1>10, <1>11, <1>12, <1>17, <1>18, Dispatched
<1>20. InHand(hand', thread', log', clock')
  BY <1>1, <1>11, <1>13
<1>21. executed' \in [Panes -> Seq(Nat)]
  <2>1. PICK n \in Nat : n = Head(o.up).number
    BY <1>5, <1>7, <1>8
  <2>2. executed[o.pane] \in Seq(Nat)
    BY <1>3, <1>4
  <2>3. Append(executed[o.pane], n) \in Seq(Nat)
    BY <2>2
  <2> QED BY <1>1, <1>3, <1>4, <2>1, <2>3
<1>22. Types'
  BY <1>1, <1>2, <1>15, <1>19, <1>21 DEF Types
<1> QED BY <1>19, <1>20, <1>22 DEF IInv

LEMMA IngestKeeps ==
    ASSUME IInv, Ingest
    PROVE  IInv'
<1>1. /\ hand # <<>> /\ Dispatch(Head(hand), conn)
      /\ hand' = IF Accepts(thread, Head(hand)) THEN Tail(hand) ELSE <<>>
      /\ UNCHANGED <<clock, orphans, view, outbox, stopAt, sent, executed, strayed>>
  BY DEF Ingest, counts, browser
<1>2. Types /\ World(thread, log) /\ InHand(hand, thread, log, clock) /\ \A q \in Panes : PaneInv(q)
  BY DEF IInv
<1>3. conn \in [Panes -> Conns] /\ hand \in Seq(HandCommand) /\ clock \in Times
  BY <1>2 DEF Types
<1>4. PICK c : c = Head(hand)
  OBVIOUS
<1>5. PICK es : es = EventsOf(thread, c)
  OBVIOUS
<1>6. /\ Accepts(thread, c)
      /\ es \in Seq(RawEvent) /\ Apply(thread, es) # NoThread /\ World(Apply(thread, es), log \o es)
      /\ InHand(Tail(hand), Apply(thread, es), log \o es, clock)
  BY <1>1, <1>2, <1>3, <1>4, <1>5, HandDispatch
<1>7. log' = log \o es /\ thread' = Apply(thread, es)
  BY <1>1, <1>4, <1>5 DEF Dispatch, Events, EventsOf
<1>8. hand' = Tail(hand) /\ hand' \in Seq(HandCommand)
  BY <1>1, <1>3, <1>4, <1>6, Nonempty
<1>9. UNCHANGED <<view, outbox, stopAt, sent>> /\ UNCHANGED <<orphans, executed, strayed>> /\ clock' = clock
  BY <1>1
<1>10. \A x \in Panes : /\ Socketed(conn[x], outbox[x])
                        /\ Streamed(conn[x], log, view.lastSeq, overflowed)
                        /\ Stopped(stopAt[x], conn[x].up \o outbox[x], Excused(x)', log', overflowed)
  BY <1>6, <1>7, <1>9, SameExcuse, PanesAsTheyAre
<1>11. /\ World(thread', log') /\ Faithful(view', log', overflowed')
       /\ view'.lastSeq <= Len(log') /\ conn' \in [Panes -> Conns] /\ overflowed' \in BOOLEAN
       /\ \A x \in Panes : PaneInv(x)'
  BY <1>1, <1>3, <1>4, <1>5, <1>6, <1>9, <1>10, Dispatched
<1>12. InHand(hand', thread', log', clock')
  BY <1>6, <1>7, <1>8, <1>9
<1>13. Types'
  BY <1>2, <1>8, <1>9, <1>11 DEF Types
<1> QED BY <1>11, <1>12, <1>13 DEF IInv

LEMMA CutoffIsNat == ASSUME NEW t, Sound(t) PROVE t.cutoff \in Nat
<1>1. t.cutoff \in Times \cup {0}
  BY DEF Sound, Thread
<1> QED BY <1>1, TimesAreNat

LEMMA FinishArchiveKeeps ==
    ASSUME IInv, FinishArchive
    PROVE  IInv'
<1>1. /\ thread # NoThread /\ clock + 1 \in Times
      /\ UNCHANGED <<hand, orphans, view, outbox, stopAt, sent, executed, strayed>>
  BY DEF FinishArchive, counts, browser
<1>2. Types /\ World(thread, log) /\ InHand(hand, thread, log, clock) /\ \A q \in Panes : PaneInv(q)
  BY DEF IInv
<1>3. conn \in [Panes -> Conns] /\ hand \in Seq(HandCommand) /\ clock \in Times
  BY <1>2 DEF Types
<1>4. PICK c \in ReactorCommand :
        /\ Dispatch(c, conn) /\ (c.type = "archiveComplete" => c.cutoff = clock)
        /\ clock' \in {clock, clock + 1}
  <2>1. CASE Dispatch([type |-> "archiveComplete", cutoff |-> clock], conn) /\ clock' = clock + 1
    <3>1. PICK c : c = [type |-> "archiveComplete", cutoff |-> clock]
      OBVIOUS
    <3>2. c \in ReactorCommand /\ c.cutoff = clock
      BY <1>3, <3>1 DEF ReactorCommand
    <3> QED BY <2>1, <3>1, <3>2
  <2>2. CASE Dispatch([type |-> "archiveFailed"], conn) /\ clock' = clock
    <3>1. PICK c : c = [type |-> "archiveFailed"]
      OBVIOUS
    <3>2. c \in ReactorCommand /\ c.type = "archiveFailed"
      BY <3>1 DEF ReactorCommand
    <3> QED BY <2>2, <3>1, <3>2
  <2> QED BY <2>1, <2>2 DEF FinishArchive
<1>5. PICK es : es = EventsOf(thread, c)
  OBVIOUS
<1>6. /\ es \in Seq(RawEvent) /\ Apply(thread, es) # NoThread /\ World(Apply(thread, es), log \o es)
      /\ InHand(hand, Apply(thread, es), log \o es, clock)
  <2>1. c \in UserCommand \cup ReactorCommand
    OBVIOUS
  <2> QED BY <1>1, <1>2, <1>3, <1>4, <1>5, <2>1, UserDispatch
<1>7. log' = log \o es /\ thread' = Apply(thread, es)
  BY <1>4, <1>5 DEF Dispatch, Events, EventsOf
<1>8. UNCHANGED <<view, outbox, stopAt, sent>> /\ UNCHANGED <<orphans, executed, strayed>> /\ hand' = hand
  BY <1>1
<1>9. \A x \in Panes : /\ Socketed(conn[x], outbox[x])
                       /\ Streamed(conn[x], log, view.lastSeq, overflowed)
                       /\ Stopped(stopAt[x], conn[x].up \o outbox[x], Excused(x)', log', overflowed)
  BY <1>6, <1>7, <1>8, SameExcuse, PanesAsTheyAre
<1>10. /\ World(thread', log') /\ Faithful(view', log', overflowed')
       /\ view'.lastSeq <= Len(log') /\ conn' \in [Panes -> Conns] /\ overflowed' \in BOOLEAN
       /\ \A x \in Panes : PaneInv(x)'
  BY <1>3, <1>4, <1>5, <1>6, <1>8, <1>9, Dispatched
<1>11. InHand(hand', thread', log', clock')
  <2>1. InHand(hand', thread', log', clock)
    BY <1>6, <1>7, <1>8
  <2>2. thread' # NoThread => thread'.cutoff \in Nat
    BY <1>10, CutoffIsNat DEF World
  <2>3. hand' \in Seq(HandCommand)
    BY <1>3, <1>8
  <2>4. InHand(hand', thread', log', clock + 1)
    BY <1>3, <2>1, <2>2, <2>3, LaterInHand
  <2> QED BY <1>4, <2>1, <2>4
<1>12. Types'
  <2>1. clock' \in Times
    BY <1>1, <1>3, <1>4
  <2> QED BY <1>2, <1>8, <1>10, <2>1 DEF Types
<1> QED BY <1>10, <1>11, <1>12 DEF IInv

\* A pane without a socket.
LEMMA OfflinePane ==
    ASSUME NEW s \in {"draft", "down", "open"}
    PROVE  LET c == Offline(s) IN
           /\ c \in Conns /\ c.sock = s /\ c.handler = "none" /\ c.since = 0
           /\ c.sub = <<>> /\ c.down = <<>> /\ c.up = <<>>
<1>1. PICK x : x = <<>>
  OBVIOUS
<1>2. /\ <<>> \in Seq(Nat \X Nat) /\ <<>> \in Seq(Seq(WireEvent)) /\ <<>> \in Seq(Sending)
  OBVIOUS
<1>3. PICK c : c = [sock |-> s, handler |-> "none", since |-> 0, sub |-> x, down |-> x, up |-> x]
  OBVIOUS
<1>4. c \in Conns /\ c.sock = s /\ c.handler = "none" /\ c.since = 0
      /\ c.sub = x /\ c.down = x /\ c.up = x
  BY <1>1, <1>2, <1>3 DEF Conns, Handlers
<1> QED BY <1>1, <1>3, <1>4 DEF Offline

LEMMA OfflineSocketed ==
    ASSUME NEW c, NEW box, c.sock # "open", c.handler = "none", c.sub = <<>>, c.down = <<>>, c.up = <<>>
    PROVE  Socketed(c, box)
<1>1. Len(<<>>) = 0
  OBVIOUS
<1>2. Len(c.sub) <= BufferSize
  BY <1>1, SyncAssumption
<1> QED BY <1>2 DEF Socketed

\* A pane that loses what it had under way.
LEMMA LosingPane ==
    ASSUME NEW q, NEW a, NEW lost, NEW l, NEW ov, Stopped(a, q, lost, l, ov)
    PROVE  Stopped(a, <<>>, TRUE, l, ov)
BY DEF Stopped

LEMMA RebootKeeps ==
    ASSUME IInv, Reboot
    PROVE  IInv'
<1> DEFINE cs == [p \in Panes |-> IF conn[p].sock = "open" THEN Offline("down") ELSE conn[p]]
<1>1. /\ hand' = <<>> /\ UNCHANGED <<view, outbox, stopAt, sent, executed>>
      /\ orphans' = {}
      /\ strayed' = strayed \cup {p \in Panes : conn[p].up # <<>>}
                            \cup {o.pane : o \in {x \in orphans : x.up # <<>>}}
  BY DEF Reboot, browser
<1>2. Types /\ World(thread, log) /\ InHand(hand, thread, log, clock) /\ Faithful(view, log, overflowed)
      /\ \A q \in Panes : PaneInv(q)
  BY DEF IInv
<1>3. /\ conn \in [Panes -> Conns] /\ hand \in Seq(HandCommand) /\ clock \in Times
      /\ outbox \in [Panes -> Seq(Sending)] /\ orphans \subseteq Orphans
      /\ stopAt \in [Panes -> Nat \cup {None}] /\ overflowed \in BOOLEAN /\ strayed \subseteq Panes
  BY <1>2 DEF Types
<1>4. cs \in [Panes -> Conns]
  BY <1>3, OfflinePane
<1>5. ASSUME NEW x \in Panes PROVE Excused(x) => x \in strayed' /\ Excused(x)'
  <2>1. CASE x \in strayed
    BY <1>1, <2>1 DEF Excused
  <2>2. ASSUME NEW o \in orphans, o.pane = x, HasInterrupt(o.up) PROVE x \in strayed' /\ Excused(x)'
    <3>1. o.up # <<>>
      BY <1>3, <2>2, EmptyHasNone
    <3> QED BY <1>1, <2>2, <3>1 DEF Excused
  <2> QED BY <2>1, <2>2 DEF Excused
<1>6. ASSUME NEW x \in Panes
      PROVE  /\ Socketed(cs[x], outbox[x])
             /\ cs[x].handler = "live" => conn[x].handler = "live" /\ conn[x].sock # "open"
             /\ Streamed(cs[x], log, view.lastSeq, overflowed)
             /\ Stopped(stopAt[x], cs[x].up \o outbox[x], Excused(x)', log, overflowed)
  <2>1. PICK c \in Conns : c = conn[x]
    BY <1>3
  <2>2. PICK b \in Seq(Sending) : b = outbox[x]
    BY <1>3
  <2>3. PICK u \in Seq(Sending) : u = c.up
    BY ConnFacts
  <2>4. /\ Socketed(c, b) /\ Streamed(c, log, view.lastSeq, overflowed)
        /\ Stopped(stopAt[x], u \o b, Excused(x), log, overflowed)
    BY <1>2, <2>1, <2>2, <2>3 DEF PaneInv, Queue
  <2>5. log \in Seq(LogEvent)
    BY <1>2, RawIsLogged DEF World
  <2>6. Excused(x) => Excused(x)'
    BY <1>5
  <2>8. PICK nlost \in BOOLEAN : nlost <=> Excused(x)'
    OBVIOUS
  <2>9. CASE c.sock = "open"
    <3>1. PICK d : d = Offline("down")
      OBVIOUS
    <3>2. /\ d \in Conns /\ d.sock = "down" /\ d.handler = "none"
          /\ d.sub = <<>> /\ d.down = <<>> /\ d.up = <<>> /\ cs[x] = d
      BY <2>1, <2>9, <3>1, OfflinePane
    <3>3. Socketed(d, b) /\ Streamed(d, log, view.lastSeq, overflowed)
      BY <2>5, <3>2, OfflineSocketed, NothingStreamed
    <3>4. b = <<>>
      BY <2>4, <2>9 DEF Socketed
    <3>5. u \o b = b \/ nlost
      <4>1. CASE u = <<>>
        BY <4>1, NothingBefore
      <4>2. CASE u # <<>>
        <5>1. x \in strayed'
          BY <1>1, <2>1, <2>3, <4>2
        <5> QED BY <2>8, <5>1 DEF Excused
      <4> QED BY <4>1, <4>2
    <3>6. Stopped(stopAt[x], b, nlost, log, overflowed)
      <4>1. CASE u \o b = b
        BY <2>4, <2>6, <2>8, <4>1 DEF Stopped
      <4>2. CASE nlost
        <5>1. Stopped(stopAt[x], b, TRUE, log, overflowed)
          BY <2>4, <3>4, LosingPane
        <5> QED BY <4>2, <5>1 DEF Stopped
      <4> QED BY <3>5, <4>1, <4>2
    <3>7. cs[x].up \o outbox[x] = b
      BY <2>2, <3>2, NothingBefore
    <3>8. Stopped(stopAt[x], b, Excused(x)', log, overflowed)
      BY <2>8, <3>6 DEF Stopped
    <3> QED BY <2>2, <3>2, <3>3, <3>6, <3>7, <3>8
  <2>10. CASE c.sock # "open"
    <3>1. cs[x] = c
      BY <2>1, <2>10
    <3>2. Stopped(stopAt[x], u \o b, Excused(x)', log, overflowed)
      BY <2>4, <2>6 DEF Stopped
    <3> QED BY <2>1, <2>2, <2>3, <2>4, <2>10, <3>1, <3>2
  <2> QED BY <2>9, <2>10
<1>7. \/ \E c : /\ Dispatch(c, cs) /\ thread # NoThread
                /\ \/ c \in ReactorCommand /\ c.type = "archiveComplete" /\ c.cutoff = clock
                   \/ c = ReconcileCommand /\ ~thread.archiving /\ ~thread.archived
      \/ conn' = cs /\ UNCHANGED <<thread, log, overflowed>>
  <2>1. CASE thread # NoThread /\ thread.archiving
    <3>1. PICK c : c = [type |-> "archiveComplete", cutoff |-> clock]
      OBVIOUS
    <3>2. c \in ReactorCommand /\ c.type = "archiveComplete" /\ c.cutoff = clock
      BY <1>3, <3>1 DEF ReactorCommand
    <3>3. Dispatch(c, cs)
      BY <2>1, <3>1 DEF Reboot
    <3> QED BY <2>1, <3>2, <3>3
  <2>2. CASE ~(thread # NoThread /\ thread.archiving)
    <3>1. CASE thread # NoThread /\ ~thread.archived /\ thread.status \in {"running", "waiting"}
      <4>1. Dispatch(ReconcileCommand, cs)
        BY <2>2, <3>1 DEF Reboot, ReconcileCommand
      <4> QED BY <2>2, <3>1, <4>1
    <3>2. CASE ~(thread # NoThread /\ ~thread.archived /\ thread.status \in {"running", "waiting"})
      BY <2>2, <3>2 DEF Reboot
    <3> QED BY <3>1, <3>2
  <2> QED BY <2>1, <2>2
<1>8. clock' \in Times /\ clock' \in {clock, clock + 1}
  BY <1>3 DEF Reboot
<1>9. /\ hand' \in Seq(HandCommand) /\ executed' = executed /\ view' = view
      /\ strayed' \subseteq Panes /\ orphans' \subseteq Orphans
  BY <1>1, <1>3 DEF Orphans
<1> HIDE DEF cs
<1>10. ASSUME NEW c, Dispatch(c, cs), thread # NoThread,
              \/ c \in ReactorCommand /\ c.type = "archiveComplete" /\ c.cutoff = clock
              \/ c = ReconcileCommand /\ ~thread.archiving /\ ~thread.archived
       PROVE  IInv'
  <2>1. PICK es : es = EventsOf(thread, c)
    OBVIOUS
  <2>0. <<>> \in Seq(HandCommand)
    OBVIOUS
  <2>2. PICK h : h = <<>> /\ h \in Seq(HandCommand)
    BY <2>0
  <2>3. InHand(h, thread, log, clock)
    <3>1. thread.cutoff <= clock
      BY <1>2, <1>10 DEF InHand
    <3> QED BY <1>10, <2>2, <3>1, NoneInHand
  <2>4. /\ es \in Seq(RawEvent) /\ Apply(thread, es) # NoThread /\ World(Apply(thread, es), log \o es)
        /\ InHand(h, Apply(thread, es), log \o es, clock)
    <3>1. CASE c \in ReactorCommand /\ c.type = "archiveComplete" /\ c.cutoff = clock
      <4>1. c \in UserCommand \cup ReactorCommand
        BY <3>1
      <4> QED BY <1>2, <1>3, <1>10, <2>1, <2>2, <2>3, <3>1, <4>1, UserDispatch
    <3>2. CASE c = ReconcileCommand /\ ~thread.archiving /\ ~thread.archived
      <4>1. thread.cutoff <= clock
        BY <1>2, <1>10 DEF InHand
      <4> QED BY <1>2, <1>10, <2>1, <2>2, <3>2, <4>1, ReconcileDispatch
    <3> QED BY <1>10, <3>1, <3>2
  <2>5. log' = log \o es /\ thread' = Apply(thread, es)
    BY <1>10, <2>1 DEF Dispatch, Events, EventsOf
  <2>6. ASSUME NEW x \in Panes
        PROVE  /\ Socketed(cs[x], outbox[x])
               /\ Streamed(cs[x], log, view.lastSeq, overflowed)
               /\ Stopped(stopAt[x], cs[x].up \o outbox[x], Excused(x)', log', overflowed)
    <3>1. log \in Seq(LogEvent) /\ es \in Seq(LogEvent)
      BY <1>2, <2>4, RawIsLogged DEF World
    <3>2. stopAt[x] \in Nat \cup {None}
      BY <1>3
    <3>3. Stopped(stopAt[x], cs[x].up \o outbox[x], Excused(x)', log \o es, overflowed)
      BY <1>3, <1>6, <3>1, <3>2, StoppedGrows
    <3> QED BY <1>6, <1>9, <2>5, <3>3
  <2>7. UNCHANGED <<view, outbox, stopAt, sent>>
    BY <1>1
  <2>8. /\ World(thread', log') /\ Faithful(view', log', overflowed')
        /\ view'.lastSeq <= Len(log') /\ conn' \in [Panes -> Conns] /\ overflowed' \in BOOLEAN
        /\ \A x \in Panes : PaneInv(x)'
    BY <1>4, <1>10, <2>1, <2>4, <2>6, <2>7, Dispatched
  <2>9. InHand(hand', thread', log', clock')
    <3>1. InHand(h, thread', log', clock)
      BY <2>4, <2>5
    <3>2. thread' # NoThread => thread'.cutoff \in Nat
      BY <2>8, CutoffIsNat DEF World
    <3>3. InHand(h, thread', log', clock + 1)
      BY <1>3, <2>2, <3>1, <3>2, LaterInHand
    <3> QED BY <1>1, <1>8, <2>2, <3>1, <3>3
  <2>10. Types'
    BY <1>1, <1>2, <1>8, <1>9, <2>7, <2>8 DEF Types
  <2> QED BY <2>8, <2>9, <2>10 DEF IInv
<1>11. ASSUME conn' = cs, UNCHANGED <<thread, log, overflowed>>
       PROVE  IInv'
  <2>1. InHand(hand', thread', log', clock')
    <3>1. CASE thread = NoThread
      <4>1. PICK h : h = <<>>
        OBVIOUS
      <4>2. Len(<<>>) = 0
        OBVIOUS
      <4>3. \A k \in 1..Len(h) : FALSE
        BY <4>1, <4>2
      <4> QED BY <1>1, <1>11, <3>1, <4>1, <4>3 DEF InHand
    <3>2. CASE thread # NoThread
      <4>1. thread.cutoff <= clock' 
        <5>1. thread.cutoff <= clock /\ thread.cutoff \in Nat /\ clock \in Nat
          BY <1>2, <1>3, <3>2, CutoffIsNat, TimesAreNat DEF InHand, World
        <5> QED BY <1>8, <5>1
      <4>2. InHand(<<>>, thread, log, clock')
        BY <3>2, <4>1, NoneInHand
      <4> QED BY <1>1, <1>11, <4>2
    <3> QED BY <3>1, <3>2
  <2>2. ASSUME NEW x \in Panes PROVE PaneInv(x)'
    <3>1. cs[x].handler = "live" => thread # NoThread
      BY <1>2, <1>6 DEF PaneInv
    <3> QED BY <1>1, <1>6, <1>11, <3>1 DEF PaneInv, Queue
  <2>3. World(thread', log') /\ Faithful(view', log', overflowed')
    BY <1>1, <1>2, <1>11
  <2>4. Types'
    BY <1>1, <1>2, <1>4, <1>8, <1>9, <1>11 DEF Types
  <2> QED BY <2>1, <2>2, <2>3, <2>4 DEF IInv
<1> QED BY <1>7, <1>10, <1>11

-----------------------------------------------------------------------------
(***************************************************************************)
(* The steps of one pane.                                                  *)
(***************************************************************************)

LEMMA QueueType == ASSUME IInv, NEW p \in Panes PROVE Queue(p) \in Seq(Sending)
<1>1. conn[p] \in Conns /\ outbox[p] \in Seq(Sending)
  BY DEF IInv, Types
<1>2. conn[p].up \in Seq(Sending)
  BY <1>1, ConnFacts
<1> QED BY <1>1, <1>2 DEF Queue

\* Pane p moves to socket d, outbox b and stop mark a.
Moves(p, d, b, a) ==
    /\ d \in Conns /\ b \in Seq(Sending) /\ a \in Nat \cup {None}
    /\ UNCHANGED <<thread, log, hand, clock, view, executed, overflowed>>
    /\ conn' = [conn EXCEPT ![p] = d]
    /\ outbox' = [outbox EXCEPT ![p] = b]
    /\ stopAt' = [stopAt EXCEPT ![p] = a]
    /\ sent' \in Nat /\ strayed' \subseteq Panes /\ orphans' \subseteq Orphans
    /\ \A q \in Panes : q # p => (Excused(q) => Excused(q)')
    /\ Socketed(d, b)
    /\ d.handler = "live" => thread # NoThread
    /\ Streamed(d, log, view.lastSeq, overflowed)
    /\ Stopped(a, d.up \o b, Excused(p)', log, overflowed)

LEMMA PaneMoves ==
    ASSUME IInv, NEW p \in Panes, NEW d, NEW b, NEW a, Moves(p, d, b, a)
    PROVE  IInv'
<1>0. /\ d \in Conns /\ b \in Seq(Sending) /\ a \in Nat \cup {None}
      /\ UNCHANGED <<thread, log, hand, clock, view, executed, overflowed>>
      /\ conn' = [conn EXCEPT ![p] = d] /\ outbox' = [outbox EXCEPT ![p] = b]
      /\ stopAt' = [stopAt EXCEPT ![p] = a]
      /\ sent' \in Nat /\ strayed' \subseteq Panes /\ orphans' \subseteq Orphans
      /\ \A q \in Panes : q # p => (Excused(q) => Excused(q)')
      /\ Socketed(d, b)
      /\ d.handler = "live" => thread # NoThread
      /\ Streamed(d, log, view.lastSeq, overflowed)
      /\ Stopped(a, d.up \o b, Excused(p)', log, overflowed)
  BY DEF Moves
<1>1. Types /\ World(thread, log) /\ InHand(hand, thread, log, clock) /\ Faithful(view, log, overflowed)
      /\ \A q \in Panes : PaneInv(q)
  BY DEF IInv
<1>2. /\ conn \in [Panes -> Conns] /\ outbox \in [Panes -> Seq(Sending)]
      /\ stopAt \in [Panes -> Nat \cup {None}]
  BY <1>1 DEF Types
<1>3. /\ conn' \in [Panes -> Conns] /\ outbox' \in [Panes -> Seq(Sending)]
      /\ stopAt' \in [Panes -> Nat \cup {None}]
  BY <1>0, <1>2
<1>4. Types'
  BY <1>0, <1>1, <1>3 DEF Types
<1>5. World(thread', log') /\ InHand(hand', thread', log', clock') /\ Faithful(view', log', overflowed')
  BY <1>0, <1>1
<1>6. ASSUME NEW q \in Panes PROVE PaneInv(q)'
  <2>1. CASE q = p
    <3>1. conn'[q] = d /\ outbox'[q] = b /\ stopAt'[q] = a
      BY <1>0, <1>2, <2>1
    <3> QED BY <1>0, <2>1, <3>1 DEF PaneInv, Queue
  <2>2. CASE q # p
    <3>1. conn'[q] = conn[q] /\ outbox'[q] = outbox[q] /\ stopAt'[q] = stopAt[q]
      BY <1>0, <1>2, <2>2
    <3>2. PaneInv(q)
      BY <1>1
    <3>4. Stopped(stopAt[q], Queue(q), Excused(q)', log, overflowed)
      BY <1>0, <2>2, <3>2 DEF PaneInv, Stopped
    <3>5. Queue(q)' = Queue(q)
      BY <3>1 DEF Queue
    <3> QED BY <1>0, <3>1, <3>2, <3>4, <3>5 DEF PaneInv
  <2> QED BY <2>1, <2>2
<1> QED BY <1>4, <1>5, <1>6 DEF IInv

LEMMA SubscribeKeeps ==
    ASSUME IInv, NEW p \in Panes, Subscribe(p)
    PROVE  IInv'
<1>1. /\ conn[p].handler = "hello" /\ conn' = [conn EXCEPT ![p].handler = "subscribed"]
      /\ UNCHANGED <<thread, log, hand, clock, view, executed, overflowed, outbox, stopAt, sent, orphans, strayed>>
  BY DEF Subscribe, Serving, counts, browser, history
<1>2. Types /\ PaneInv(p)
  BY DEF IInv
<1>3. /\ conn \in [Panes -> Conns] /\ outbox \in [Panes -> Seq(Sending)]
      /\ stopAt \in [Panes -> Nat \cup {None}] /\ sent \in Nat /\ strayed \subseteq Panes
      /\ orphans \subseteq Orphans
  BY <1>2 DEF Types
<1>4. PICK c \in Conns : c = conn[p]
  BY <1>3
<1>5. PICK d : d = [c EXCEPT !.handler = "subscribed"]
  OBVIOUS
<1>6. /\ d \in Conns /\ d.sock = c.sock /\ d.since = c.since /\ d.sub = c.sub /\ d.down = c.down
      /\ d.up = c.up /\ d.handler = "subscribed"
  BY <1>5 DEF Conns, Handlers
<1>7. conn' = [conn EXCEPT ![p] = d]
  BY <1>1, <1>4, <1>5
<1>8. /\ Socketed(c, outbox[p])
      /\ Streamed(c, log, view.lastSeq, overflowed)
      /\ Stopped(stopAt[p], c.up \o outbox[p], Excused(p), log, overflowed)
  BY <1>2, <1>4 DEF PaneInv, Queue
<1>9. Socketed(d, outbox[p])
  BY <1>1, <1>4, <1>6, <1>8 DEF Socketed
<1>10. Streamed(d, log, view.lastSeq, overflowed)
  BY <1>1, <1>4, <1>6, <1>8 DEF Streamed
<1>11. outbox' = [outbox EXCEPT ![p] = outbox[p]] /\ stopAt' = [stopAt EXCEPT ![p] = stopAt[p]]
  BY <1>1, <1>3
<1>12. outbox[p] \in Seq(Sending) /\ stopAt[p] \in Nat \cup {None}
  BY <1>3
<1>16. \A q \in Panes : Excused(q)' <=> Excused(q)
  BY <1>1, SameExcuse
<1>13. Stopped(stopAt[p], c.up \o outbox[p], Excused(p)', log, overflowed)
  BY <1>8, <1>16 DEF Stopped
<1>14. sent' \in Nat /\ strayed' \subseteq Panes /\ orphans' \subseteq Orphans
  BY <1>1, <1>3
<1>15. Moves(p, d, outbox[p], stopAt[p])
  BY <1>1, <1>6, <1>7, <1>8, <1>9, <1>10, <1>11, <1>12, <1>13, <1>14, <1>16 DEF Moves
<1> QED BY <1>15, PaneMoves

LEMMA ReplayKeeps ==
    ASSUME IInv, NEW p \in Panes, Replay(p)
    PROVE  IInv'
<1>1. /\ conn[p].handler = "subscribed"
      /\ conn' = [conn EXCEPT ![p].down = WriteReplay(Wire(conn[p].since + 1, Len(log))),
                              ![p].handler = "replayed"]
      /\ UNCHANGED <<thread, log, hand, clock, view, executed, overflowed, outbox, stopAt, sent, orphans, strayed>>
  BY DEF Replay, Serving, counts, browser, history
<1>2. Types /\ PaneInv(p) /\ World(thread, log)
  BY DEF IInv
<1>3. /\ conn \in [Panes -> Conns] /\ outbox \in [Panes -> Seq(Sending)]
      /\ stopAt \in [Panes -> Nat \cup {None}] /\ sent \in Nat /\ strayed \subseteq Panes
      /\ orphans \subseteq Orphans
      /\ view.lastSeq <= Len(log) /\ view \in Views /\ overflowed \in BOOLEAN
  BY <1>2 DEF Types
<1>4. PICK c \in Conns : c = conn[p]
  BY <1>3
<1>5. /\ Socketed(c, outbox[p])
      /\ Streamed(c, log, view.lastSeq, overflowed)
      /\ Stopped(stopAt[p], c.up \o outbox[p], Excused(p), log, overflowed)
  BY <1>2, <1>4 DEF PaneInv, Queue
<1>6. log \in Seq(RawEvent) /\ view.lastSeq \in Nat /\ Len(log) \in Nat
  BY <1>2, <1>3 DEF World, Views
<1>7. PICK fs : fs = WriteReplay(Batch(log, c.since + 1, Len(log)))
  OBVIOUS
<1>8. fs \in Seq(Seq(WireEvent))
  <2>1. c.since \in Nat /\ c.since <= view.lastSeq
    BY <1>1, <1>4, <1>5, ConnFacts DEF Streamed
  <2>2. PICK lo \in 0..Len(log) : lo = c.since
    BY <1>3, <1>6, <2>1
  <2> QED BY <1>6, <1>7, <2>2, ReplayFrames
<1>9. PICK d : d = [c EXCEPT !.down = fs, !.handler = "replayed"]
  OBVIOUS
<1>10. /\ d \in Conns /\ d.sock = c.sock /\ d.sub = c.sub /\ d.down = fs
       /\ d.up = c.up /\ d.handler = "replayed"
  BY <1>8, <1>9 DEF Conns, Handlers
<1>11. conn' = [conn EXCEPT ![p] = d]
  <2>1. fs = WriteReplay(Wire(conn[p].since + 1, Len(log)))
    BY <1>4, <1>7 DEF Wire, Batch
  <2> QED BY <1>1, <1>4, <1>9, <2>1
<1>12. Socketed(d, outbox[p])
  BY <1>1, <1>4, <1>5, <1>10 DEF Socketed
<1>13. Streamed(d, log, view.lastSeq, overflowed)
  BY <1>1, <1>3, <1>4, <1>5, <1>6, <1>7, <1>10, ReplayStreamed
<1>14. outbox' = [outbox EXCEPT ![p] = outbox[p]] /\ stopAt' = [stopAt EXCEPT ![p] = stopAt[p]]
  BY <1>1, <1>3
<1>15. outbox[p] \in Seq(Sending) /\ stopAt[p] \in Nat \cup {None}
  BY <1>3
<1>19. \A q \in Panes : Excused(q)' <=> Excused(q)
  BY <1>1, SameExcuse
<1>16. Stopped(stopAt[p], c.up \o outbox[p], Excused(p)', log, overflowed)
  BY <1>5, <1>19 DEF Stopped
<1>17. sent' \in Nat /\ strayed' \subseteq Panes /\ orphans' \subseteq Orphans
  BY <1>1, <1>3
<1>18. Moves(p, d, outbox[p], stopAt[p])
  BY <1>1, <1>5, <1>10, <1>11, <1>12, <1>13, <1>14, <1>15, <1>16, <1>17, <1>19 DEF Moves
<1> QED BY <1>18, PaneMoves

\* What holds of a pane, in one place.
LEMMA PaneFacts ==
    ASSUME IInv, NEW p \in Panes
    PROVE  /\ conn[p] \in Conns /\ conn[p].up \in Seq(Sending) /\ outbox[p] \in Seq(Sending)
           /\ stopAt[p] \in Nat \cup {None} /\ sent \in Nat /\ strayed \subseteq Panes
           /\ orphans \subseteq Orphans
           /\ view \in Views /\ view.lastSeq \in Nat /\ view.lastSeq <= Len(log) /\ overflowed \in BOOLEAN
           /\ log \in Seq(LogEvent)
           /\ Socketed(conn[p], outbox[p])
           /\ conn[p].handler = "live" => thread # NoThread
           /\ Streamed(conn[p], log, view.lastSeq, overflowed)
           /\ Stopped(stopAt[p], conn[p].up \o outbox[p], Excused(p), log, overflowed)
           /\ conn[p].sock # "open" => conn[p].up \o outbox[p] = outbox[p]
           /\ conn[p].sock = "open" => conn[p].up \o outbox[p] = conn[p].up
<1>1. Types /\ PaneInv(p) /\ World(thread, log)
  BY DEF IInv
<1>2. /\ conn[p] \in Conns /\ outbox[p] \in Seq(Sending)
      /\ stopAt[p] \in Nat \cup {None} /\ sent \in Nat /\ strayed \subseteq Panes
      /\ orphans \subseteq Orphans
      /\ view \in Views /\ view.lastSeq <= Len(log) /\ overflowed \in BOOLEAN
  BY <1>1 DEF Types
<1>3. log \in Seq(LogEvent) /\ view.lastSeq \in Nat
  BY <1>1, <1>2, RawIsLogged DEF World, Views
<1>4. conn[p].up \in Seq(Sending)
  BY <1>2, ConnFacts
<1>5. /\ Socketed(conn[p], outbox[p])
      /\ conn[p].handler = "live" => thread # NoThread
      /\ Streamed(conn[p], log, view.lastSeq, overflowed)
      /\ Stopped(stopAt[p], conn[p].up \o outbox[p], Excused(p), log, overflowed)
  BY <1>1 DEF PaneInv, Queue
<1>6. ASSUME conn[p].sock # "open" PROVE conn[p].up \o outbox[p] = outbox[p]
  <2>1. conn[p].up = <<>>
    BY <1>5, <1>6 DEF Socketed
  <2> QED BY <1>2, <2>1, NothingBefore
<1>7. ASSUME conn[p].sock = "open" PROVE conn[p].up \o outbox[p] = conn[p].up
  <2>1. outbox[p] = <<>>
    BY <1>5, <1>7 DEF Socketed
  <2> QED BY <1>4, <2>1, NothingBefore
<1> QED BY <1>2, <1>3, <1>4, <1>5, <1>6, <1>7

LEMMA ConnectKeeps ==
    ASSUME IInv, NEW p \in Panes, Connect(p)
    PROVE  IInv'
<1>1. /\ conn[p].sock = "down"
      /\ conn' = [conn EXCEPT ![p] = [Offline("open") EXCEPT !.handler = "hello",
                                      !.since = view.lastSeq, !.up = outbox[p]]]
      /\ outbox' = [outbox EXCEPT ![p] = <<>>]
      /\ UNCHANGED <<thread, log, hand, clock, sent, stopAt, view, executed, overflowed, orphans, strayed>>
  BY DEF Connect, counts, history
<1>2. /\ conn[p].sock # "open" => conn[p].up \o outbox[p] = outbox[p]
      /\ Stopped(stopAt[p], conn[p].up \o outbox[p], Excused(p), log, overflowed)
      /\ outbox[p] \in Seq(Sending) /\ stopAt[p] \in Nat \cup {None} /\ sent \in Nat /\ strayed \subseteq Panes
      /\ orphans \subseteq Orphans
      /\ view.lastSeq \in Nat /\ log \in Seq(LogEvent)
  BY PaneFacts
<1>3. PICK b \in Seq(Sending) : b = outbox[p]
  BY <1>2
<1>4. Stopped(stopAt[p], b, Excused(p), log, overflowed)
  BY <1>1, <1>2, <1>3
<1>5. PICK n \in Nat : n = view.lastSeq
  BY <1>2
<1>6. PICK o \in Conns : o = Offline("open") /\ o.sock = "open" /\ o.sub = <<>> /\ o.down = <<>>
  BY OfflinePane
<1>7. PICK d : d = [o EXCEPT !.handler = "hello", !.since = n, !.up = b]
  OBVIOUS
<1>8. /\ d \in Conns /\ d.sock = "open" /\ d.handler = "hello" /\ d.since = n /\ d.up = b
      /\ d.sub = <<>> /\ d.down = <<>>
  BY <1>6, <1>7 DEF Conns, Handlers
<1>9. conn' = [conn EXCEPT ![p] = d]
  BY <1>1, <1>3, <1>5, <1>6, <1>7
<1>10. Socketed(d, <<>>)
  <2>1. Len(<<>>) = 0
    OBVIOUS
  <2>2. Len(d.sub) <= BufferSize
    BY <1>8, <2>1, SyncAssumption
  <2> QED BY <1>8, <2>2 DEF Socketed
<1>11. Streamed(d, log, view.lastSeq, overflowed)
  BY <1>2, <1>5, <1>8, HelloStreamed
<1>12. d.up \o <<>> = b
  BY <1>8, NothingBefore
<1>13. stopAt' = [stopAt EXCEPT ![p] = stopAt[p]]
  <2>1. stopAt \in [Panes -> Nat \cup {None}]
    BY DEF IInv, Types
  <2> QED BY <1>1, <2>1
<1>14. <<>> \in Seq(Sending)
  OBVIOUS
<1>18. \A q \in Panes : Excused(q)' <=> Excused(q)
  BY <1>1, SameExcuse
<1>16. /\ sent' \in Nat /\ strayed' \subseteq Panes /\ orphans' \subseteq Orphans
       /\ Stopped(stopAt[p], d.up \o <<>>, Excused(p)', log, overflowed)
  BY <1>1, <1>2, <1>4, <1>12, <1>18 DEF Stopped
<1>17. d.handler = "live" => thread # NoThread
  BY <1>8
<1>15. Moves(p, d, <<>>, stopAt[p])
  BY <1>16, <1>17, <1>18, <1>1, <1>2, <1>4, <1>8, <1>9, <1>10, <1>11, <1>12, <1>13, <1>14 DEF Moves
<1> QED BY <1>15, PaneMoves

\* Discover, Die and Retarget leave a pane without a socket.
LEMMA OfflineKeeps ==
    ASSUME IInv, NEW p \in Panes, NEW b \in {<<>>, outbox[p]}, conn' = [conn EXCEPT ![p] = Offline("down")],
           outbox' = [outbox EXCEPT ![p] = b],
           UNCHANGED <<thread, log, hand, clock, sent, stopAt, view, executed, overflowed>>,
           strayed' \subseteq Panes, orphans' \subseteq Orphans,
           \A q \in Panes : Excused(q) => Excused(q)',
           HasInterrupt(conn[p].up \o outbox[p]) => Excused(p)' \/ b = conn[p].up \o outbox[p]
    PROVE  IInv'
<1>1. /\ conn[p].sock # "open" => conn[p].up \o outbox[p] = outbox[p]
      /\ Stopped(stopAt[p], conn[p].up \o outbox[p], Excused(p), log, overflowed)
      /\ outbox[p] \in Seq(Sending) /\ stopAt[p] \in Nat \cup {None} /\ sent \in Nat
      /\ log \in Seq(LogEvent) /\ Socketed(conn[p], outbox[p])
  BY PaneFacts
<1>2. b \in Seq(Sending)
  <2>1. <<>> \in Seq(Sending)
    OBVIOUS
  <2> QED BY <1>1, <2>1
<1>3. PICK d : d = Offline("down")
  OBVIOUS
<1>4. /\ d \in Conns /\ d.sock = "down" /\ d.handler = "none"
      /\ d.sub = <<>> /\ d.down = <<>> /\ d.up = <<>>
  BY <1>3, OfflinePane
<1>5. Socketed(d, b) /\ Streamed(d, log, view.lastSeq, overflowed)
  BY <1>1, <1>4, OfflineSocketed, NothingStreamed
<1>6. d.up \o b = b
  BY <1>2, <1>4, NothingBefore
<1>7. Stopped(stopAt[p], b, Excused(p)', log, overflowed)
  BY <1>1 DEF Stopped
<1>8. stopAt' = [stopAt EXCEPT ![p] = stopAt[p]]
  <2>1. stopAt \in [Panes -> Nat \cup {None}]
    BY DEF IInv, Types
  <2> QED BY <2>1
<1>9. conn' = [conn EXCEPT ![p] = d] /\ sent' \in Nat
  BY <1>1, <1>3
<1>10. Moves(p, d, b, stopAt[p])
  BY <1>1, <1>2, <1>4, <1>5, <1>6, <1>7, <1>8, <1>9 DEF Moves
<1> QED BY <1>10, PaneMoves

LEMMA DiscoverKeeps ==
    ASSUME IInv, NEW p \in Panes, Discover(p)
    PROVE  IInv'
<1>1. /\ conn[p].sock = "draft" /\ conn' = [conn EXCEPT ![p] = Offline("down")]
      /\ UNCHANGED <<thread, log, hand, clock, sent, outbox, stopAt, view, executed, overflowed, orphans, strayed>>
  BY DEF Discover, counts, browser, history
<1>2. conn[p].up \o outbox[p] = outbox[p] /\ strayed \subseteq Panes /\ orphans \subseteq Orphans
  BY <1>1, PaneFacts
<1>3. outbox' = [outbox EXCEPT ![p] = outbox[p]]
  <2>1. outbox \in [Panes -> Seq(Sending)]
    BY DEF IInv, Types
  <2> QED BY <1>1, <2>1
<1>4. UNCHANGED <<thread, log, hand, clock, sent, stopAt, view, executed, overflowed>>
      /\ strayed' \subseteq Panes /\ orphans' \subseteq Orphans
  BY <1>1, <1>2
<1>5. PICK b : b = outbox[p]
  OBVIOUS
<1>6. \A q \in Panes : Excused(q) => Excused(q)'
  BY <1>1, SameExcuse
<1> QED BY <1>1, <1>2, <1>3, <1>4, <1>5, <1>6, OfflineKeeps

\* The first commands of a sequence, and the rest.
LEMMA FirstOnes ==
    ASSUME NEW q \in Seq(Sending), NEW n \in Nat, n <= Len(q)
    PROVE  LET r == SubSeq(q, 1, n) IN
           r \in Seq(Sending) /\ Len(r) = n /\ \A k \in 1..n : r[k] = q[k]
OBVIOUS

\* What the frames of p under way come to, as the panes ps let go of their sockets.
LEMMA LetGoKeeps ==
    ASSUME IInv, NEW ps \in SUBSET Panes, NEW unsent \in SUBSET Panes, LetGo(ps, unsent)
    PROVE  /\ strayed' \subseteq Panes /\ orphans' \subseteq Orphans
           /\ \A q \in Panes : Excused(q) => Excused(q)'
           /\ \A p \in ps : HasInterrupt(conn[p].up) => Excused(p)'
           /\ \A p \in unsent : outbox[p] # <<>> => Excused(p)'
<1>1. PICK n \in [ps -> 0..MaxSent] :
        /\ \A p \in ps : n[p] <= Len(conn[p].up)
        /\ orphans' = orphans \cup
             {o \in {[pane |-> p, up |-> SubSeq(conn[p].up, 1, n[p])] : p \in {q \in ps : conn[q].sock = "open"}} :
                 o.up # <<>> \/ thread = NoThread}
        /\ strayed' = strayed \cup {p \in ps : n[p] < Len(conn[p].up)}
                              \cup {p \in unsent : outbox[p] # <<>>}
  BY DEF LetGo
<1>2. orphans \subseteq Orphans /\ strayed \subseteq Panes /\ conn \in [Panes -> Conns]
  BY DEF IInv, Types
<1>3. ASSUME NEW p \in ps
      PROVE  /\ conn[p].up \in Seq(Sending) /\ n[p] \in Nat /\ n[p] <= Len(conn[p].up)
             /\ Socketed(conn[p], outbox[p])
  <2>1. p \in Panes
    OBVIOUS
  <2>2. conn[p].up \in Seq(Sending) /\ Socketed(conn[p], outbox[p])
    BY <2>1, PaneFacts
  <2>3. n[p] \in 0..MaxSent
    BY <1>1
  <2> QED BY <1>1, <2>2, <2>3
<1>4. strayed' \subseteq Panes
  BY <1>1, <1>2
<1>5. orphans' \subseteq Orphans
  <2>1. ASSUME NEW p \in ps PROVE [pane |-> p, up |-> SubSeq(conn[p].up, 1, n[p])] \in Orphans
    <3>1. PICK u : u = SubSeq(conn[p].up, 1, n[p])
      OBVIOUS
    <3>2. u \in Seq(Sending) /\ p \in Panes
      BY <1>3, <3>1, FirstOnes
    <3> QED BY <3>1, <3>2 DEF Orphans
  <2> QED BY <1>1, <1>2, <2>1
<1>6. orphans \subseteq orphans' /\ strayed \subseteq strayed'
  BY <1>1
<1>7. \A q \in Panes : Excused(q) => Excused(q)'
  BY <1>6 DEF Excused
<1>8. ASSUME NEW p \in ps, HasInterrupt(conn[p].up) PROVE Excused(p)'
  <2>1. CASE n[p] < Len(conn[p].up)
    BY <1>1, <2>1 DEF Excused
  <2>2. CASE ~(n[p] < Len(conn[p].up))
    <3>1. PICK q \in Seq(Sending) : q = conn[p].up
      BY <1>3
    <3>2. PICK u : u = SubSeq(q, 1, n[p])
      OBVIOUS
    <3>3. n[p] = Len(q)
      BY <1>3, <2>2, <3>1
    <3>4. u \in Seq(Sending) /\ Len(u) = Len(q) /\ \A k \in 1..Len(q) : u[k] = q[k]
      BY <1>3, <3>1, <3>2, <3>3, FirstOnes
    <3>5. HasInterrupt(u)
      BY <1>8, <3>1, <3>4 DEF HasInterrupt
    <3>6. u # <<>>
      BY <3>4, <3>5, EmptyHasNone
    <3>7. conn[p].up # <<>>
      BY <1>8, EmptyHasNone
    <3>8. conn[p].sock = "open"
      BY <1>3, <3>7 DEF Socketed
    <3>9. PICK o : o = [pane |-> p, up |-> u]
      OBVIOUS
    <3>10. o \in orphans' /\ o.pane = p /\ o.up = u
      BY <1>1, <3>1, <3>2, <3>6, <3>8, <3>9
    <3> QED BY <3>5, <3>10 DEF Excused
  <2> QED BY <2>1, <2>2
<1>9. \A p \in unsent : outbox[p] # <<>> => Excused(p)'
  BY <1>1 DEF Excused
<1> QED BY <1>4, <1>5, <1>7, <1>8, <1>9

LEMMA DieKeeps ==
    ASSUME IInv, NEW p \in Panes, Die(p)
    PROVE  IInv'
<1>1. /\ conn[p].sock = "open" /\ conn' = [conn EXCEPT ![p] = Offline("down")]
      /\ LetGo({p}, {})
      /\ UNCHANGED <<thread, log, hand, clock, sent, outbox, stopAt, view, executed, overflowed>>
  BY DEF Die, browser
<1>2. conn[p].up \o outbox[p] = conn[p].up
  BY <1>1, PaneFacts
<1>3. outbox' = [outbox EXCEPT ![p] = outbox[p]]
  <2>1. outbox \in [Panes -> Seq(Sending)]
    BY DEF IInv, Types
  <2> QED BY <1>1, <2>1
<1>4. /\ strayed' \subseteq Panes /\ orphans' \subseteq Orphans
      /\ \A q \in Panes : Excused(q) => Excused(q)'
      /\ HasInterrupt(conn[p].up) => Excused(p)'
  <2>1. PICK ps, none \in SUBSET Panes : ps = {p} /\ none = {}
    OBVIOUS
  <2>2. LetGo(ps, none)
    BY <1>1, <2>1
  <2> QED BY <2>1, <2>2, LetGoKeeps
<1>5. UNCHANGED <<thread, log, hand, clock, sent, stopAt, view, executed, overflowed>>
  BY <1>1
<1>6. PICK b : b = outbox[p]
  OBVIOUS
<1> QED BY <1>1, <1>2, <1>3, <1>4, <1>5, <1>6, OfflineKeeps

LEMMA RetargetKeeps ==
    ASSUME IInv, NEW p \in Panes, Retarget(p)
    PROVE  IInv'
<1>1. /\ conn' = [conn EXCEPT ![p] = Offline("down")] /\ outbox' = [outbox EXCEPT ![p] = <<>>]
      /\ LetGo({p}, {p})
      /\ UNCHANGED <<thread, log, hand, clock, sent, stopAt, view, executed, overflowed>>
  BY DEF Retarget
<1>2. /\ strayed' \subseteq Panes /\ orphans' \subseteq Orphans
      /\ \A q \in Panes : Excused(q) => Excused(q)'
      /\ HasInterrupt(conn[p].up) => Excused(p)'
      /\ outbox[p] # <<>> => Excused(p)'
  <2>1. PICK ps \in SUBSET Panes : ps = {p}
    OBVIOUS
  <2>2. LetGo(ps, ps)
    BY <1>1, <2>1
  <2> QED BY <2>1, <2>2, LetGoKeeps
<1>3. HasInterrupt(conn[p].up \o outbox[p]) => Excused(p)'
  <2>1. CASE conn[p].sock = "open"
    <3>1. conn[p].up \o outbox[p] = conn[p].up
      BY <2>1, PaneFacts
    <3> QED BY <1>2, <3>1
  <2>2. CASE conn[p].sock # "open"
    <3>1. conn[p].up \o outbox[p] = outbox[p]
      BY <2>2, PaneFacts
    <3>2. HasInterrupt(outbox[p]) => outbox[p] # <<>>
      BY EmptyHasNone
    <3> QED BY <1>2, <3>1, <3>2
  <2> QED BY <2>1, <2>2
<1>4. UNCHANGED <<thread, log, hand, clock, sent, stopAt, view, executed, overflowed>>
  BY <1>1
<1>5. PICK b : b = <<>>
  OBVIOUS
<1> QED BY <1>1, <1>2, <1>3, <1>4, <1>5, OfflineKeeps

LEMMA AppendLast ==
    ASSUME NEW S, NEW q \in Seq(S), NEW x \in S
    PROVE  LET r == Append(q, x) IN
           /\ r \in Seq(S) /\ Len(r) = Len(q) + 1 /\ r # <<>> /\ r[Len(q) + 1] = x
           /\ \A n \in 1..Len(q) : r[n] = q[n]
OBVIOUS

LEMMA StoppedAppend ==
    ASSUME NEW q \in Seq(Sending), NEW s \in Sending, NEW a, NEW lost, NEW l, NEW ov, Stopped(a, q, lost, l, ov)
    PROVE  Stopped(a, Append(q, s), lost, l, ov)
<1>1. PICK r \in Seq(Sending) : r = Append(q, s)
  BY AppendLast
<1>2. HasInterrupt(q) => HasInterrupt(r)
  <2>1. ASSUME HasInterrupt(q) PROVE HasInterrupt(r)
    <3>1. PICK k \in 1..Len(q) : q[k].command.type = "turnInterrupt"
      BY <2>1 DEF HasInterrupt
    <3>2. Len(r) = Len(q) + 1 /\ r[k] = q[k]
      BY <1>1, AppendLast
    <3>3. k \in 1..Len(r)
      BY <3>2
    <3> QED BY <3>1, <3>2, <3>3 DEF HasInterrupt
  <2> QED BY <2>1
<1>3. Stopped(a, r, lost, l, ov)
  BY <1>2 DEF Stopped
<1> QED BY <1>1, <1>3

\* A Stop is pressed where the view says that nothing is archived.
LEMMA StoppedHere ==
    ASSUME NEW q \in Seq(Sending), NEW s \in Sending, s.command.type = "turnInterrupt", NEW lost,
           NEW l \in Seq(LogEvent), NEW ov \in BOOLEAN, NEW v \in Views, v.lastSeq <= Len(l), Faithful(v, l, ov),
           ~v.archived, ~v.archiving
    PROVE  Stopped(v.lastSeq, Append(q, s), lost, l, ov)
<1>1. PICK r \in Seq(Sending) : r = Append(q, s)
  BY AppendLast
<1>2. Len(r) = Len(q) + 1 /\ r[Len(q) + 1] = s
  BY <1>1, AppendLast
<1>3. PICK k \in Nat : k = Len(q) + 1
  <2>1. Len(q) + 1 \in Nat
    OBVIOUS
  <2> QED BY <2>1
<1>4. k \in 1..Len(r) /\ r[k] = s
  BY <1>2, <1>3
<1>5. HasInterrupt(r)
  BY <1>4 DEF HasInterrupt
<1>6. ov \/ (~At(l, v.lastSeq).archived /\ ~At(l, v.lastSeq).archiving)
  BY DEF Faithful, SameCore
<1>7. Stopped(v.lastSeq, r, lost, l, ov)
  BY <1>5, <1>6 DEF Stopped
<1> QED BY <1>1, <1>7

LEMMA IssueKeeps ==
    ASSUME IInv, NEW p \in Panes, NEW c \in UserCommand, Issue(p, c), NEW a, stopAt' = [stopAt EXCEPT ![p] = a],
           a = stopAt[p] \/ a = None \/ (c.type = "turnInterrupt" /\ a = view.lastSeq /\ Composing)
    PROVE  IInv'
<1>1. /\ sent' = sent + 1
      /\ UNCHANGED <<thread, log, hand, clock, orphans, view, executed, overflowed, strayed>>
      /\ \/ /\ conn[p].sock = "open"
            /\ conn' = [conn EXCEPT ![p].up = Append(@, Numbered(c))] /\ outbox' = outbox
         \/ /\ conn[p].sock # "open"
            /\ outbox' = [outbox EXCEPT ![p] = Append(@, Numbered(c))]
            /\ conn' = [conn EXCEPT ![p].sock = IF c.type \in {"turnStart", "runtimeModeSet"}
                                                THEN "down" ELSE @]
  BY DEF Issue, history
<1>2. /\ conn[p] \in Conns /\ conn[p].up \in Seq(Sending) /\ outbox[p] \in Seq(Sending)
      /\ stopAt[p] \in Nat \cup {None} /\ sent \in Nat /\ strayed \subseteq Panes
      /\ orphans \subseteq Orphans
      /\ view \in Views /\ view.lastSeq \in Nat /\ view.lastSeq <= Len(log) /\ overflowed \in BOOLEAN
      /\ log \in Seq(LogEvent)
      /\ Socketed(conn[p], outbox[p])
      /\ conn[p].handler = "live" => thread # NoThread
      /\ Streamed(conn[p], log, view.lastSeq, overflowed)
      /\ Stopped(stopAt[p], conn[p].up \o outbox[p], Excused(p), log, overflowed)
      /\ conn[p].sock # "open" => conn[p].up \o outbox[p] = outbox[p]
      /\ conn[p].sock = "open" => conn[p].up \o outbox[p] = conn[p].up
  BY PaneFacts
<1>3. /\ conn \in [Panes -> Conns] /\ outbox \in [Panes -> Seq(Sending)] /\ Faithful(view, log, overflowed)
  BY DEF IInv, Types
<1>4. PICK s \in Sending : s = Numbered(c) /\ s.number = sent + 1 /\ s.command = c
  <2>1. PICK n \in Nat : n = sent + 1
    BY <1>2
  <2>2. PICK s : s = [number |-> n, command |-> c]
    OBVIOUS
  <2>3. s \in Sending /\ s.number = n /\ s.command = c
    BY <2>2 DEF Sending
  <2> QED BY <2>1, <2>2, <2>3 DEF Numbered
<1>5. PICK q \in Seq(Sending) : q = conn[p].up \o outbox[p]
  <2>1. conn[p].up \o outbox[p] \in Seq(Sending)
    BY <1>2
  <2> QED BY <2>1
<1>6. \A x \in Panes : Excused(x)' <=> Excused(x)
  BY <1>1, SameExcuse
<1>7. Stopped(a, Append(q, s), Excused(p), log, overflowed)
  <2>1. CASE a = stopAt[p]
    BY <1>2, <1>5, <2>1, StoppedAppend
  <2>2. CASE a = None
    BY <2>2 DEF Stopped
  <2>3. CASE c.type = "turnInterrupt" /\ a = view.lastSeq /\ Composing
    <3>1. ~view.archived /\ ~view.archiving /\ s.command.type = "turnInterrupt"
      BY <1>4, <2>3 DEF Composing
    <3> QED BY <1>2, <1>3, <2>3, <3>1, StoppedHere
  <2> QED BY <2>1, <2>2, <2>3
<1>8. a \in Nat \cup {None}
  BY <1>2
<1>9. sent' \in Nat /\ strayed' \subseteq Panes /\ orphans' \subseteq Orphans
  BY <1>1, <1>2
<1>10. PICK r \in Seq(Sending) : r = Append(q, s)
  BY AppendLast
<1>11. Stopped(a, r, Excused(p)', log, overflowed)
  BY <1>6, <1>7, <1>10 DEF Stopped
<1>12. CASE /\ conn[p].sock = "open"
            /\ conn' = [conn EXCEPT ![p].up = Append(@, Numbered(c))] /\ outbox' = outbox
  <2>1. PICK o \in Conns : o = conn[p]
    BY <1>2
  <2>2. PICK d : d = [o EXCEPT !.up = r]
    OBVIOUS
  <2>3. /\ d \in Conns /\ d.sock = o.sock /\ d.handler = o.handler /\ d.since = o.since
        /\ d.sub = o.sub /\ d.down = o.down /\ d.up = r
    BY <2>2 DEF Conns
  <2>4. q = o.up /\ outbox[p] = <<>>
    BY <1>2, <1>5, <1>12, <2>1 DEF Socketed
  <2>5. conn' = [conn EXCEPT ![p] = d] /\ outbox' = [outbox EXCEPT ![p] = outbox[p]]
    BY <1>3, <1>4, <1>10, <1>12, <2>1, <2>2, <2>4
  <2>6. o.handler # "none"
    BY <1>2, <1>12, <2>1 DEF Socketed
  <2>7. Socketed(d, outbox[p])
    BY <1>2, <1>12, <2>1, <2>3, <2>6 DEF Socketed
  <2>8. Streamed(d, log, view.lastSeq, overflowed)
    BY <1>2, <2>1, <2>3 DEF Streamed
  <2>9. d.up \o outbox[p] = r
    BY <2>3, <2>4, NothingBefore
  <2>10. Moves(p, d, outbox[p], a)
    BY <1>1, <1>2, <1>6, <1>8, <1>9, <1>11, <2>1, <2>3, <2>5, <2>7, <2>8, <2>9 DEF Moves
  <2> QED BY <2>10, PaneMoves
<1>13. CASE /\ conn[p].sock # "open"
            /\ outbox' = [outbox EXCEPT ![p] = Append(@, Numbered(c))]
            /\ conn' = [conn EXCEPT ![p].sock = IF c.type \in {"turnStart", "runtimeModeSet"}
                                                THEN "down" ELSE @]
  <2>1. PICK o \in Conns : o = conn[p]
    BY <1>2
  <2>2. PICK k \in {"draft", "down"} : k = IF c.type \in {"turnStart", "runtimeModeSet"} THEN "down" ELSE o.sock
    <3>1. o.sock \in {"draft", "down"}
      BY <1>13, <2>1, ConnFacts
    <3> QED BY <3>1
  <2>3. PICK d : d = [o EXCEPT !.sock = k]
    OBVIOUS
  <2>4. /\ d \in Conns /\ d.sock = k /\ d.handler = o.handler /\ d.since = o.since
        /\ d.sub = o.sub /\ d.down = o.down /\ d.up = o.up
    BY <2>3 DEF Conns
  <2>5. q = outbox[p]
    BY <1>2, <1>5, <1>13
  <2>6. conn' = [conn EXCEPT ![p] = d]
    BY <1>3, <1>13, <2>1, <2>2, <2>3
  <2>7. outbox' = [outbox EXCEPT ![p] = r]
    BY <1>3, <1>4, <1>10, <1>13, <2>5
  <2>8. o.handler = "none" /\ o.up = <<>>
    BY <1>2, <1>13, <2>1 DEF Socketed
  <2>9. Socketed(d, r)
    BY <1>2, <1>13, <2>1, <2>2, <2>4, <2>8 DEF Socketed
  <2>10. Streamed(d, log, view.lastSeq, overflowed)
    BY <1>2, <2>1, <2>4 DEF Streamed
  <2>11. d.up \o r = r
    BY <2>4, <2>8, NothingBefore
  <2>12. Moves(p, d, r, a)
    BY <1>1, <1>2, <1>6, <1>8, <1>9, <1>10, <1>11, <2>1, <2>4, <2>6, <2>7, <2>9, <2>10, <2>11 DEF Moves
  <2> QED BY <2>12, PaneMoves
<1> QED BY <1>1, <1>12, <1>13

-----------------------------------------------------------------------------
(***************************************************************************)
(* What the user does.                                                     *)
(***************************************************************************)

\* Whatever the user does with a pane comes to a command, and to where Stop was pressed.
Issues(p, c, a) ==
    /\ Issue(p, c) /\ stopAt' = [stopAt EXCEPT ![p] = a]
    /\ a = stopAt[p] \/ a = None \/ (c.type = "turnInterrupt" /\ a = view.lastSeq /\ Composing)

LEMMA UseIssues ==
    ASSUME IInv, NEW p \in Panes, Use(p)
    PROVE  \E c \in UserCommand : Issue(p, c) /\ \E a : Issues(p, c, a)
<1>1. stopAt \in [Panes -> Nat \cup {None}] /\ view \in Views
  BY DEF IInv, Types
<1>2. stopAt' = stopAt => stopAt' = [stopAt EXCEPT ![p] = stopAt[p]]
  BY <1>1
<1>3. ASSUME SendTurn(p) PROVE \E c \in UserCommand : Issue(p, c) /\ \E a : Issues(p, c, a)
  <2>1. PICK c : c = [type |-> "turnStart", instance |-> None]
    OBVIOUS
  <2>2. c \in UserCommand
    <3>1. c \in Command
      BY <2>1 DEF Command
    <3> QED BY <2>1, <3>1 DEF UserCommand
  <2>3. Issue(p, c) /\ stopAt' = [stopAt EXCEPT ![p] = None]
    BY <1>3, <2>1 DEF SendTurn
  <2> QED BY <2>2, <2>3 DEF Issues
<1>4. ASSUME AbortTurn(p) PROVE \E c \in UserCommand : Issue(p, c) /\ \E a : Issues(p, c, a)
  <2>1. PICK c : c = [type |-> "turnInterrupt"]
    OBVIOUS
  <2>2. c \in UserCommand /\ c.type = "turnInterrupt"
    <3>1. c \in Command
      BY <2>1 DEF Command
    <3> QED BY <2>1, <3>1 DEF UserCommand
  <2>3. Issue(p, c) /\ stopAt' = [stopAt EXCEPT ![p] = view.lastSeq] /\ Composing
    BY <1>4, <2>1 DEF AbortTurn
  <2> QED BY <2>2, <2>3 DEF Issues
<1>5. ASSUME SetRuntimeMode(p) PROVE \E c \in UserCommand : Issue(p, c) /\ \E a : Issues(p, c, a)
  <2>1. PICK m \in Picks : Issue(p, [type |-> "runtimeModeSet", mode |-> m])
    BY <1>5 DEF SetRuntimeMode
  <2>2. PICK c : c = [type |-> "runtimeModeSet", mode |-> m]
    OBVIOUS
  <2>3. c \in UserCommand
    <3>1. m \in ThreadMode
      BY SyncAssumption DEF ThreadMode
    <3>2. c \in Command
      BY <2>2, <3>1 DEF Command
    <3> QED BY <2>2, <3>2 DEF UserCommand
  <2>4. Issue(p, c) /\ stopAt' = [stopAt EXCEPT ![p] = stopAt[p]]
    BY <1>2, <1>5, <2>1, <2>2 DEF SetRuntimeMode
  <2> QED BY <2>3, <2>4 DEF Issues
<1>6. ASSUME Respond(p) PROVE \E c \in UserCommand : Issue(p, c) /\ \E a : Issues(p, c, a)
  <2>1. PICK r \in Cards(view) : Issue(p, [type |-> "respond", request |-> r])
    BY <1>6 DEF Respond
  <2>2. PICK c : c = [type |-> "respond", request |-> r]
    OBVIOUS
  <2>3. c \in UserCommand
    <3>1. r \in Requests
      BY <1>1 DEF Cards, Views
    <3>2. c \in Command
      BY <2>2, <3>1 DEF Command
    <3> QED BY <2>2, <3>2 DEF UserCommand
  <2>4. Issue(p, c) /\ stopAt' = [stopAt EXCEPT ![p] = stopAt[p]]
    BY <1>2, <1>6, <2>1, <2>2 DEF Respond
  <2> QED BY <2>3, <2>4 DEF Issues
<1>7. ASSUME ArchiveSession(p) PROVE \E c \in UserCommand : Issue(p, c) /\ \E a : Issues(p, c, a)
  <2>1. PICK c : c = [type |-> "archive"]
    OBVIOUS
  <2>2. c \in UserCommand
    <3>1. c \in Command
      BY <2>1 DEF Command
    <3> QED BY <2>1, <3>1 DEF UserCommand
  <2>3. Issue(p, c) /\ stopAt' = [stopAt EXCEPT ![p] = stopAt[p]]
    BY <1>2, <1>7, <2>1 DEF ArchiveSession
  <2> QED BY <2>2, <2>3 DEF Issues
<1>8. ASSUME ResumeSession(p) PROVE \E c \in UserCommand : Issue(p, c) /\ \E a : Issues(p, c, a)
  <2>1. PICK c : c = [type |-> "resume"]
    OBVIOUS
  <2>2. c \in UserCommand
    <3>1. c \in Command
      BY <2>1 DEF Command
    <3> QED BY <2>1, <3>1 DEF UserCommand
  <2>3. Issue(p, c) /\ stopAt' = [stopAt EXCEPT ![p] = stopAt[p]]
    BY <1>2, <1>8, <2>1 DEF ResumeSession
  <2> QED BY <2>2, <2>3 DEF Issues
<1> QED BY <1>3, <1>4, <1>5, <1>6, <1>7, <1>8 DEF Use

LEMMA UseKeeps ==
    ASSUME IInv, NEW p \in Panes, Use(p)
    PROVE  IInv'
<1>1. PICK c \in UserCommand : \E a : Issues(p, c, a)
  BY UseIssues
<1>2. PICK a : Issues(p, c, a)
  BY <1>1
<1> QED BY <1>2, IssueKeeps DEF Issues

-----------------------------------------------------------------------------
(***************************************************************************)
(* What the provider and the Reactor say.                                  *)
(***************************************************************************)

LEMMA SayKeeps ==
    ASSUME IInv, NEW h \in Seq(HandCommand), Say(h), InHand(h, thread, log, clock)
    PROVE  IInv'
<1>1. hand' = h
      /\ UNCHANGED <<thread, log, clock, conn, orphans, sent, outbox, stopAt, view, executed, overflowed, strayed>>
  BY DEF Say, browser, history
<1>2. Types /\ World(thread, log) /\ Faithful(view, log, overflowed) /\ \A q \in Panes : PaneInv(q)
  BY DEF IInv
<1>3. Types'
  BY <1>1, <1>2 DEF Types
<1>4. \A q \in Panes : PaneInv(q)'
  BY <1>1, <1>2 DEF PaneInv, Queue, Excused
<1>5. World(thread', log') /\ Faithful(view', log', overflowed') /\ InHand(hand', thread', log', clock')
  BY <1>1, <1>2
<1> QED BY <1>3, <1>4, <1>5 DEF IInv

\* Commands that neither open a card nor ask.
LEMMA PlainInHand ==
    ASSUME IInv, NEW h \in Seq(HandCommand), thread # NoThread,
           \A k \in 1..Len(h) : h[k].at = clock /\ ~Opens(h[k]) /\ ~Asks(h[k])
    PROVE  InHand(h, thread, log, clock)
<1>1. clock \in Nat /\ thread.cutoff <= clock
  BY TimesAreNat DEF IInv, Types, InHand
<1>2. \A k \in 1..Len(h) : h[k].at <= clock
  BY <1>1
<1> QED BY <1>1, <1>2 DEF InHand, Handy

LEMMA AppendInHand ==
    ASSUME IInv, NEW b \in RawActivity
    PROVE  LET c == Append1(b) IN
           /\ c \in HandCommand /\ c.type = "activityAppend" /\ c.at = clock /\ c.body = b
           /\ ~Asks(c) /\ (Opens(c) <=> b.kind = "opened")
<1>1. clock \in Times
  BY DEF IInv, Types
<1>2. PICK c : c = [type |-> "activityAppend", at |-> clock, body |-> b]
  OBVIOUS
<1>3. c \in HandCommand /\ c.type = "activityAppend" /\ c.at = clock /\ c.body = b
  BY <1>1, <1>2 DEF HandCommand
<1> QED BY <1>2, <1>3 DEF Append1, Asks, Opens

LEMMA SetInHand ==
    ASSUME IInv, NEW x \in SessionChanges
    PROVE  LET c == Set1(x) IN
           /\ c \in HandCommand /\ c.type = "sessionSet" /\ c.at = clock /\ c.change = x
           /\ ~Opens(c) /\ (Asks(c) <=> x.add # None)
<1>1. clock \in Times
  BY DEF IInv, Types
<1>2. PICK c : c = [type |-> "sessionSet", at |-> clock, change |-> x]
  OBVIOUS
<1>3. c \in HandCommand /\ c.type = "sessionSet" /\ c.at = clock /\ c.change = x
  BY <1>1, <1>2 DEF HandCommand
<1> QED BY <1>2, <1>3 DEF Set1, Asks, Opens

LEMMA SayOneKeeps ==
    ASSUME IInv, NEW c \in HandCommand, Say(<<c>>), thread # NoThread, c.at = clock, ~Opens(c), ~Asks(c)
    PROVE  IInv'
<1>1. PICK h \in Seq(HandCommand) : h = <<c>>
  <2>1. <<c>> \in Seq(HandCommand)
    OBVIOUS
  <2> QED BY <2>1
<1>2. Len(h) = 1 /\ h[1] = c
  BY <1>1
<1>3. \A k \in 1..Len(h) : h[k] = c
  BY <1>2
<1>4. InHand(h, thread, log, clock)
  BY <1>3, PlainInHand
<1> QED BY <1>1, <1>4, SayKeeps

LEMMA SayTwoKeeps ==
    ASSUME IInv, NEW c \in HandCommand, NEW d \in HandCommand, Say(<<c, d>>), thread # NoThread,
           c.at = clock, ~Opens(c), ~Asks(c), d.at = clock, ~Opens(d), ~Asks(d)
    PROVE  IInv'
<1>1. PICK h \in Seq(HandCommand) : h = <<c, d>>
  <2>1. <<c, d>> \in Seq(HandCommand)
    OBVIOUS
  <2> QED BY <2>1
<1>2. Len(h) = 2 /\ h[1] = c /\ h[2] = d
  BY <1>1
<1>3. \A k \in 1..Len(h) : h[k] = c \/ h[k] = d
  BY <1>2
<1>4. InHand(h, thread, log, clock)
  BY <1>3, PlainInHand
<1> QED BY <1>1, <1>4, SayKeeps

LEMMA SpokenIsNat == ASSUME NEW i, log \in Seq(RawEvent) PROVE Spoken(i) \in Nat
<1>1. PICK n \in Nat : n = Len(log)
  OBVIOUS
<1>2. IsFiniteSet(1..n)
  BY FS_Interval
<1>3. {k \in DOMAIN log : IsDelta(log[k]) /\ log[k].body.item = i} \subseteq 1..n
  BY <1>1
<1> QED BY <1>2, <1>3, FS_Subset, FS_CardinalityType DEF Spoken

LEMMA DeltaIsRaw ==
    ASSUME NEW i \in Items, NEW n \in Nat
    PROVE  Delta(i, n) \in RawActivity /\ Delta(i, n).kind = "delta"
<1>1. PICK s \in Seq(Nat) : s = <<n>>
  <2>1. <<n>> \in Seq(Nat)
    OBVIOUS
  <2> QED BY <2>1
<1>2. PICK b : b = [kind |-> "delta", item |-> i, first |-> n, sequence |-> n, text |-> s]
  OBVIOUS
<1>3. b \in Activity /\ b.kind = "delta"
  BY <1>2 DEF Activity
<1>4. b = Delta(i, n)
  BY <1>1, <1>2 DEF Delta
<1> QED BY <1>3, <1>4 DEF RawActivity

LEMMA CardsAreRaw ==
    ASSUME NEW r \in Requests
    PROVE  /\ Opened(r) \in RawActivity /\ Opened(r).kind = "opened"
           /\ Resolved(r) \in RawActivity /\ Resolved(r).kind = "resolved"
<1>1. PICK b, c : b = [kind |-> "opened", request |-> r] /\ c = [kind |-> "resolved", request |-> r]
  OBVIOUS
<1>2. b \in Activity /\ b.kind = "opened" /\ c \in Activity /\ c.kind = "resolved"
  BY <1>1 DEF Activity
<1> QED BY <1>1, <1>2 DEF RawActivity, Opened, Resolved

LEMMA ErrorIsRaw ==
    ASSUME NEW k \in {"error", "reactorError"}
    PROVE  [kind |-> k] \in RawActivity /\ [kind |-> k].kind = k
<1>1. PICK b : b = [kind |-> k]
  OBVIOUS
<1>2. b \in Activity /\ b.kind = k
  BY <1>1 DEF Activity
<1> QED BY <1>1, <1>2 DEF RawActivity

LEMMA ChangesInHand ==
    /\ Settling("idle", None) \in SessionChanges /\ Settling("idle", None).add = None
    /\ Stopping \in SessionChanges /\ Stopping.add = None
    /\ \A r \in Requests : /\ Resolving(r) \in SessionChanges /\ Resolving(r).add = None
                           /\ Asking(r) \in SessionChanges
<1>1. Settling("idle", None) \in SessionChanges
  BY DEF SessionChanges
<1>2. Stopping \in SessionChanges
  BY DEF SessionChanges
<1>3. \A r \in Requests : Resolving(r) \in SessionChanges /\ Asking(r) \in SessionChanges
  BY DEF SessionChanges
<1>4. Settling("idle", None).add = None /\ Stopping.add = None
  BY DEF Settling, Stopping, NoChange
<1>5. \A r \in Requests : Resolving(r).add = None
  BY DEF Resolving, NoChange
<1> QED BY <1>1, <1>2, <1>3, <1>4, <1>5

LEMMA SpeakKeeps ==
    ASSUME IInv, Speak
    PROVE  IInv'
<1>1. thread # NoThread /\ log \in Seq(RawEvent)
  BY DEF IInv, World, Speak, Working
<1>2. PICK i \in Items : Say(<<Append1(Delta(i, Spoken(i) + 1))>>)
  BY DEF Speak
<1>3. PICK n \in Nat : n = Spoken(i) + 1
  <2>1. Spoken(i) + 1 \in Nat
    BY <1>1, SpokenIsNat
  <2> QED BY <2>1
<1>4. PICK b \in RawActivity : b = Delta(i, n) /\ b.kind = "delta"
  BY DeltaIsRaw
<1>5. PICK c \in HandCommand : c = Append1(b) /\ c.at = clock /\ ~Asks(c) /\ ~Opens(c)
  BY <1>4, AppendInHand
<1>6. Say(<<c>>)
  BY <1>2, <1>3, <1>4, <1>5
<1> QED BY <1>1, <1>5, <1>6, SayOneKeeps

LEMMA EndTurnKeeps ==
    ASSUME IInv, EndTurn
    PROVE  IInv'
<1>1. thread # NoThread
  BY DEF EndTurn, Working
<1>2. PICK x \in SessionChanges : x = Settling("idle", None) /\ x.add = None
  BY ChangesInHand
<1>3. PICK c \in HandCommand : c = Set1(x) /\ c.at = clock /\ ~Asks(c) /\ ~Opens(c)
  BY <1>2, SetInHand
<1>4. Say(<<c>>)
  BY <1>2, <1>3 DEF EndTurn
<1> QED BY <1>1, <1>3, <1>4, SayOneKeeps

LEMMA SessionExitKeeps ==
    ASSUME IInv, SessionExit
    PROVE  IInv'
<1>1. thread # NoThread
  BY DEF SessionExit, Working
<1>2. PICK x \in SessionChanges : x = Stopping /\ x.add = None
  BY ChangesInHand
<1>3. PICK c \in HandCommand : c = Set1(x) /\ c.at = clock /\ ~Asks(c) /\ ~Opens(c)
  BY <1>2, SetInHand
<1>4. Say(<<c>>)
  BY <1>2, <1>3 DEF SessionExit
<1> QED BY <1>1, <1>3, <1>4, SayOneKeeps

LEMMA FailTurnKeeps ==
    ASSUME IInv, FailTurn
    PROVE  IInv'
<1>1. thread # NoThread
  BY DEF FailTurn, Working
<1>2. PICK k \in {"error", "reactorError"} : Say(<<Append1([kind |-> k]), Set1(Settling("idle", None))>>)
  BY DEF FailTurn
<1>3. PICK x \in SessionChanges : x = Settling("idle", None) /\ x.add = None
  BY ChangesInHand
<1>4. PICK d \in HandCommand : d = Set1(x) /\ d.at = clock /\ ~Asks(d) /\ ~Opens(d)
  BY <1>3, SetInHand
<1>5. PICK b \in RawActivity : b = [kind |-> k] /\ b.kind = k
  BY ErrorIsRaw
<1>6. PICK c \in HandCommand : c = Append1(b) /\ c.at = clock /\ ~Asks(c) /\ ~Opens(c)
  <2>1. b.kind # "opened"
    BY <1>5
  <2> QED BY <2>1, AppendInHand
<1>7. Say(<<c, d>>)
  BY <1>2, <1>3, <1>4, <1>5, <1>6
<1> QED BY <1>1, <1>4, <1>6, <1>7, SayTwoKeeps

LEMMA RetireCardKeeps ==
    ASSUME IInv, RetireCard
    PROVE  IInv'
<1>1. thread # NoThread /\ thread \in Thread
  BY DEF RetireCard, IInv, World, Sound
<1>2. PICK r \in thread.pending : Say(<<Append1(Resolved(r)), Set1(Resolving(r))>>)
  BY DEF RetireCard
<1>3. r \in Requests
  BY <1>1 DEF Thread
<1>4. PICK x \in SessionChanges : x = Resolving(r) /\ x.add = None
  BY <1>3, ChangesInHand
<1>5. PICK d \in HandCommand : d = Set1(x) /\ d.at = clock /\ ~Asks(d) /\ ~Opens(d)
  BY <1>4, SetInHand
<1>6. PICK b \in RawActivity : b = Resolved(r) /\ b.kind = "resolved"
  BY <1>3, CardsAreRaw
<1>7. PICK c \in HandCommand : c = Append1(b) /\ c.at = clock /\ ~Asks(c) /\ ~Opens(c)
  <2>1. b.kind # "opened"
    BY <1>6
  <2> QED BY <2>1, AppendInHand
<1>8. Say(<<c, d>>)
  BY <1>2, <1>4, <1>5, <1>6, <1>7
<1> QED BY <1>1, <1>5, <1>7, <1>8, SayTwoKeeps

LEMMA AskUserKeeps ==
    ASSUME IInv, AskUser
    PROVE  IInv'
<1>1. thread # NoThread /\ ~thread.archived
  BY DEF AskUser, Working, Closed
<1>2. PICK r \in Requests : Unused(r) /\ Say(<<Append1(Opened(r)), Set1(Asking(r))>>)
  BY DEF AskUser
<1>3. clock \in Times /\ clock \in Nat /\ thread.cutoff <= clock
  BY <1>1, TimesAreNat DEF IInv, Types, InHand
<1>4. PICK d \in HandCommand : d = Set1(Asking(r)) /\ d.at = clock
  BY <1>2, ChangesInHand, SetInHand
<1>5. PICK c \in HandCommand : c = Append1(Opened(r)) /\ c.at = clock
  BY <1>2, CardsAreRaw, AppendInHand
<1>6. PICK h \in Seq(HandCommand) : h = <<c, d>>
  <2>1. <<c, d>> \in Seq(HandCommand)
    OBVIOUS
  <2> QED BY <2>1
<1>7. Len(h) = 2 /\ h[1] = c /\ h[2] = d
  BY <1>6
<1>8. \A k \in 1..Len(h) : h[k].at <= clock
  <2>1. \A k \in 1..Len(h) : h[k] = c \/ h[k] = d
    BY <1>7
  <2> QED BY <1>3, <1>4, <1>5, <2>1
<1>9. h = <<OpenAt(r, clock), AskAt(r, clock)>>
  BY <1>4, <1>5, <1>6 DEF OpenAt, AskAt, Append1, Set1
<1>10. r \notin thread.pending /\ r \notin OpenedIn(log)
  <2>1. log \in Seq(RawEvent)
    BY DEF IInv, World
  <2>2. DOMAIN log = 1..Len(log)
    BY <2>1
  <2> QED BY <1>2, <2>2 DEF Unused, Logged, OpenedIn, LoggedIn
<1>11. Handy(h, thread, At(log, Len(log)), OpenedIn(log), FellIn(log))
  BY <1>1, <1>2, <1>3, <1>9, <1>10 DEF Handy
<1>12. InHand(h, thread, log, clock)
  BY <1>1, <1>3, <1>8, <1>11 DEF InHand
<1>13. Say(h)
  BY <1>2, <1>4, <1>5, <1>6
<1> QED BY <1>12, <1>13, SayKeeps

-----------------------------------------------------------------------------
(***************************************************************************)
(* What a browser reads.                                                   *)
(***************************************************************************)

\* Pane p reads, its socket being d then and the view w.
Reads(p, d, w) ==
    /\ d \in Conns /\ conn' = [conn EXCEPT ![p] = d] /\ view' = w
    /\ UNCHANGED <<thread, log, hand, clock, sent, outbox, stopAt, executed, overflowed, orphans, strayed>>
    /\ d.sock = conn[p].sock /\ d.handler = conn[p].handler /\ d.up = conn[p].up
    /\ Len(d.sub) <= BufferSize
    /\ d.handler # "none"
    /\ w \in Views /\ view.lastSeq <= w.lastSeq /\ w.lastSeq <= Len(log)
    /\ Faithful(w, log, overflowed)
    /\ Streamed(d, log, w.lastSeq, overflowed)

LEMMA ReadingKeeps ==
    ASSUME IInv, NEW p \in Panes, NEW d, NEW w, Reads(p, d, w)
    PROVE  IInv'
<1>1. /\ d \in Conns /\ conn' = [conn EXCEPT ![p] = d] /\ view' = w
      /\ UNCHANGED <<thread, log, hand, clock, sent, outbox, stopAt, executed, overflowed, orphans, strayed>>
      /\ d.sock = conn[p].sock /\ d.handler = conn[p].handler /\ d.up = conn[p].up
      /\ Len(d.sub) <= BufferSize
      /\ d.handler # "none"
      /\ w \in Views /\ view.lastSeq <= w.lastSeq /\ w.lastSeq <= Len(log)
      /\ Faithful(w, log, overflowed)
      /\ Streamed(d, log, w.lastSeq, overflowed)
  BY DEF Reads
<1>2. Types /\ World(thread, log) /\ InHand(hand, thread, log, clock)
      /\ \A q \in Panes : PaneInv(q)
  BY DEF IInv
<1>3. conn \in [Panes -> Conns] /\ view \in Views /\ overflowed \in BOOLEAN
  BY <1>2 DEF Types
<1>4. conn' \in [Panes -> Conns]
  BY <1>1, <1>3
<1>5. Types'
  BY <1>1, <1>2, <1>4 DEF Types
<1>6. World(thread', log') /\ InHand(hand', thread', log', clock') /\ Faithful(view', log', overflowed')
  BY <1>1, <1>2
<1>7. ASSUME NEW q \in Panes PROVE PaneInv(q)'
  <2>1. PaneInv(q) /\ (Excused(q)' <=> Excused(q))
    BY <1>1, <1>2, SameExcuse
  <2>2. CASE q = p
    <3>1. conn'[q] = d
      BY <1>1, <1>3, <2>2
    <3>2. Socketed(d, outbox[q])
      BY <1>1, <2>1, <2>2 DEF PaneInv, Socketed
    <3>3. Queue(q)' = Queue(q)
      BY <1>1, <2>2, <3>1 DEF Queue
    <3> QED BY <1>1, <2>1, <2>2, <3>1, <3>2, <3>3 DEF PaneInv, Stopped
  <2>3. CASE q # p
    <3>1. conn'[q] = conn[q] /\ conn[q] \in Conns
      BY <1>1, <1>3, <2>3
    <3>2. Streamed(conn[q], log, w.lastSeq, overflowed)
      <4>1. ~OnePane
        BY <2>3 DEF OnePane
      <4>2. view.lastSeq \in Nat /\ w.lastSeq \in Nat
        BY <1>1, <1>3 DEF Views
      <4>3. Streamed(conn[q], log, view.lastSeq, overflowed)
        BY <2>1 DEF PaneInv
      <4> QED BY <1>1, <1>3, <3>1, <4>1, <4>2, <4>3, LongerView
    <3>3. Queue(q)' = Queue(q)
      BY <1>1, <3>1 DEF Queue
    <3> QED BY <1>1, <2>1, <3>1, <3>2, <3>3 DEF PaneInv, Stopped
  <2> QED BY <2>2, <2>3
<1> QED BY <1>5, <1>6, <1>7 DEF IInv

LEMMA ReceiveKeeps ==
    ASSUME IInv, NEW p \in Panes, Receive(p)
    PROVE  IInv'
<1>1. /\ conn[p].down # <<>>
      /\ view' = ReduceAgentEvents(view, Head(conn[p].down))
      /\ conn' = [conn EXCEPT ![p].down = Tail(@)]
      /\ UNCHANGED <<thread, log, hand, clock, sent, outbox, stopAt, executed, overflowed, orphans, strayed>>
  BY DEF Receive, counts, history
<1>2. /\ conn[p] \in Conns /\ view \in Views /\ view.lastSeq \in Nat /\ view.lastSeq <= Len(log)
      /\ overflowed \in BOOLEAN /\ log \in Seq(LogEvent)
      /\ Socketed(conn[p], outbox[p]) /\ Streamed(conn[p], log, view.lastSeq, overflowed)
  BY PaneFacts
<1>3. PICK c \in Conns : c = conn[p]
  BY <1>2
<1>4. c.handler \in {"replayed", "live"}
  <2>1. c.handler \in Handlers
    BY ConnFacts
  <2> QED BY <1>1, <1>2, <1>3, <2>1 DEF Socketed, Streamed, Handlers
<1>5. PICK fs \in Seq(Seq(WireEvent)) : fs = c.down
  BY ConnFacts
<1>6. PICK gs \in Seq(Seq(WireEvent)) : gs = Tail(fs)
  BY <1>1, <1>3, <1>5, Nonempty
<1>7. PICK d : d = [c EXCEPT !.down = gs]
  OBVIOUS
<1>8. /\ d \in Conns /\ d.sock = c.sock /\ d.handler = c.handler /\ d.since = c.since
      /\ d.sub = c.sub /\ d.down = gs /\ d.up = c.up
  BY <1>7 DEF Conns
<1>9. conn' = [conn EXCEPT ![p] = d]
  BY <1>1, <1>3, <1>5, <1>6, <1>7
<1>10. PICK w : w = ReduceAgentEvents(view, Head(c.down))
  OBVIOUS
<1>11. /\ w \in Views /\ view.lastSeq <= w.lastSeq /\ w.lastSeq <= Len(log)
       /\ Faithful(view, log, overflowed) => Faithful(w, log, overflowed)
       /\ Streamed(d, log, w.lastSeq, overflowed)
  <2>1. Streamed(c, log, view.lastSeq, overflowed) /\ c.down # <<>>
    BY <1>1, <1>2, <1>3
  <2>2. d \in Conns /\ d.handler = c.handler /\ d.sub = c.sub /\ d.down = Tail(c.down)
    BY <1>5, <1>6, <1>8
  <2>3. PICK v \in Views, ov \in BOOLEAN : v = view /\ (ov <=> overflowed) /\ v.lastSeq <= Len(log)
    BY <1>2
  <2>4. Streamed(c, log, v.lastSeq, ov)
    BY <2>1, <2>3 DEF Streamed
  <2>5. /\ w \in Views /\ v.lastSeq <= w.lastSeq /\ w.lastSeq <= Len(log)
        /\ Faithful(v, log, ov) => Faithful(w, log, ov)
        /\ Streamed(d, log, w.lastSeq, ov)
    BY <1>2, <1>4, <1>10, <2>1, <2>2, <2>3, <2>4, ReceiveStreamed
  <2> QED BY <2>3, <2>5 DEF Faithful, Streamed
<1>12. Faithful(view, log, overflowed)
  BY DEF IInv
<1>13. Len(d.sub) <= BufferSize
  BY <1>2, <1>3, <1>8 DEF Socketed
<1>14. Reads(p, d, w)
  BY <1>1, <1>3, <1>4, <1>8, <1>9, <1>10, <1>11, <1>12, <1>13 DEF Reads
<1> QED BY <1>14, ReadingKeeps

LEMMA ForwardKeeps ==
    ASSUME IInv, NEW p \in Panes, Forward(p)
    PROVE  IInv'
<1>1. /\ conn[p].handler = "live" /\ conn[p].down = <<>> /\ conn[p].sub # <<>>
      /\ view' = ReduceAgentEvents(view, Wire(Head(conn[p].sub)[1], Head(conn[p].sub)[2]))
      /\ conn' = [conn EXCEPT ![p].sub = Tail(@)]
      /\ UNCHANGED <<thread, log, hand, clock, sent, outbox, stopAt, executed, overflowed, orphans, strayed>>
  BY DEF Forward, Serving, counts, history
<1>2. /\ conn[p] \in Conns /\ view \in Views /\ view.lastSeq \in Nat /\ view.lastSeq <= Len(log)
      /\ overflowed \in BOOLEAN /\ log \in Seq(LogEvent)
      /\ Socketed(conn[p], outbox[p]) /\ Streamed(conn[p], log, view.lastSeq, overflowed)
  BY PaneFacts
<1>3. PICK c \in Conns : c = conn[p]
  BY <1>2
<1>4. PICK q \in Seq(Nat \X Nat) : q = c.sub
  BY ConnFacts
<1>5. PICK r \in Seq(Nat \X Nat) : r = Tail(q) /\ Len(r) = Len(q) - 1 /\ Head(q) = q[1]
  BY <1>1, <1>3, <1>4, Nonempty
<1>6. PICK d : d = [c EXCEPT !.sub = r]
  OBVIOUS
<1>7. /\ d \in Conns /\ d.sock = c.sock /\ d.handler = c.handler /\ d.since = c.since
      /\ d.sub = r /\ d.down = c.down /\ d.up = c.up
  BY <1>6 DEF Conns
<1>8. conn' = [conn EXCEPT ![p] = d]
  BY <1>1, <1>3, <1>4, <1>5, <1>6
<1>9. PICK w : w = ReduceAgentEvents(view, Batch(log, c.sub[1][1], c.sub[1][2]))
  OBVIOUS
<1>10. view' = w
  BY <1>1, <1>3, <1>4, <1>5, <1>9 DEF Wire, Batch
<1>11. /\ w \in Views /\ view.lastSeq <= w.lastSeq /\ w.lastSeq <= Len(log)
       /\ Faithful(view, log, overflowed) => Faithful(w, log, overflowed)
       /\ Streamed(d, log, w.lastSeq, overflowed)
  <2>1. d.handler = "live" /\ d.sub = Tail(c.sub) /\ d.down = <<>>
    BY <1>1, <1>3, <1>4, <1>5, <1>7
  <2>2. Streamed(c, log, view.lastSeq, overflowed) /\ c.handler = "live" /\ c.down = <<>> /\ c.sub # <<>>
    BY <1>1, <1>2, <1>3
  <2>3. PICK v \in Views, ov \in BOOLEAN : v = view /\ (ov <=> overflowed) /\ v.lastSeq <= Len(log)
    BY <1>2
  <2>4. Streamed(c, log, v.lastSeq, ov)
    BY <2>2, <2>3 DEF Streamed
  <2>5. /\ w \in Views /\ v.lastSeq <= w.lastSeq /\ w.lastSeq <= Len(log)
        /\ Faithful(v, log, ov) => Faithful(w, log, ov)
        /\ Streamed(d, log, w.lastSeq, ov)
    BY <1>2, <1>7, <1>9, <2>1, <2>2, <2>3, <2>4, ForwardStreamed
  <2> QED BY <2>3, <2>5 DEF Faithful, Streamed
<1>12. Faithful(view, log, overflowed)
  BY DEF IInv
<1>13. Len(d.sub) <= BufferSize
  <2>1. Len(q) <= BufferSize /\ Len(q) \in Nat /\ BufferSize \in Nat
    BY <1>2, <1>3, <1>4, SyncAssumption DEF Socketed
  <2> QED BY <1>5, <1>7, <2>1
<1>14. Reads(p, d, w)
  BY <1>1, <1>3, <1>7, <1>8, <1>10, <1>11, <1>12, <1>13 DEF Reads
<1> QED BY <1>14, ReadingKeeps

-----------------------------------------------------------------------------
(***************************************************************************)
(* The start, and a page loaded again.                                     *)
(***************************************************************************)

LEMMA EmptyIsFaithful ==
    ASSUME NEW l \in Seq(LogEvent), NEW ov
    PROVE  Faithful(EmptyView, l, ov) /\ EmptyView \in Views /\ EmptyView.lastSeq = 0
<1>1. EmptyView.lastSeq = 0
  BY DEF EmptyView
<1>2. At(l, EmptyView.lastSeq) = EmptyView
  BY <1>1, AtStart
<1> QED BY <1>1, <1>2, EmptyViewType DEF Faithful, SameCore

\* A pane without a socket and with nothing to say.
LEMMA IdlePane ==
    ASSUME NEW c \in Conns, c.sock # "open", c.handler = "none", c.sub = <<>>, c.down = <<>>, c.up = <<>>,
           NEW l \in Seq(LogEvent), NEW n, NEW ov, NEW lost
    PROVE  /\ Socketed(c, <<>>) /\ Streamed(c, l, n, ov)
           /\ Stopped(None, c.up \o <<>>, lost, l, ov)
<1>1. c.up \o <<>> = <<>>
  <2>1. <<>> \o <<>> = <<>>
    OBVIOUS
  <2> QED BY <2>1
<1>2. Socketed(c, <<>>) /\ Streamed(c, l, n, ov)
  BY OfflineSocketed, NothingStreamed
<1>4. Stopped(None, c.up \o <<>>, lost, l, ov)
  BY DEF Stopped
<1> QED BY <1>1, <1>2, <1>4

LEMMA ReloadKeeps ==
    ASSUME IInv, Reload
    PROVE  IInv'
<1>1. /\ conn' = [p \in Panes |-> IF conn[p].sock = "draft" THEN conn[p] ELSE Offline("down")]
      /\ outbox' = [p \in Panes |-> <<>>] /\ stopAt' = [p \in Panes |-> None]
      /\ view' = EmptyView /\ overflowed' = FALSE
      /\ LetGo(Panes, Panes)
      /\ UNCHANGED <<thread, log, hand, clock, sent, executed>>
  BY DEF Reload
<1>2. Types /\ World(thread, log) /\ InHand(hand, thread, log, clock)
  BY DEF IInv
<1>3. log \in Seq(LogEvent) /\ Len(log) \in Nat
  BY <1>2, RawIsLogged DEF World
<1>4. ASSUME NEW p \in Panes PROVE conn'[p] \in Conns /\ PaneInv(p)'
  <2>1. /\ conn[p] \in Conns /\ Socketed(conn[p], outbox[p])
    BY PaneFacts
  <2>3. PICK c : c = conn'[p]
    OBVIOUS
  <2>4. /\ c \in Conns /\ c.sock # "open" /\ c.handler = "none" /\ c.sub = <<>> /\ c.down = <<>> /\ c.up = <<>>
    <3>1. CASE conn[p].sock = "draft"
      <4>1. c = conn[p]
        BY <1>1, <2>3, <3>1
      <4> QED BY <2>1, <3>1, <4>1 DEF Socketed
    <3>2. CASE conn[p].sock # "draft"
      <4>1. c = Offline("down")
        BY <1>1, <2>3, <3>2
      <4> QED BY <4>1, OfflinePane
    <3> QED BY <3>1, <3>2
  <2>5. PICK n : n = view'.lastSeq
    OBVIOUS
  <2>7. Socketed(c, <<>>) /\ Streamed(c, log, n, FALSE)
    BY <1>3, <2>4, IdlePane
  <2>8. outbox'[p] = <<>> /\ stopAt'[p] = None /\ executed'[p] = executed[p] /\ sent' = sent /\ log' = log
    BY <1>1
  <2>9. Stopped(None, c.up \o <<>>, Excused(p)', log, FALSE)
    BY DEF Stopped
  <2>10. Streamed(c, log', view'.lastSeq, overflowed')
    BY <1>1, <2>5, <2>7
  <2>11. Stopped(stopAt'[p], conn'[p].up \o outbox'[p], Excused(p)', log', overflowed')
    BY <1>1, <2>3, <2>8, <2>9
  <2>12. c.handler # "live"
    BY <2>4
  <2> QED BY <2>3, <2>4, <2>7, <2>8, <2>10, <2>11, <2>12 DEF PaneInv, Queue
<1>5. conn' \in [Panes -> Conns]
  <2>1. conn' = [p \in Panes |-> conn'[p]]
    BY <1>1
  <2> QED BY <1>4, <2>1
<1>6. outbox' \in [Panes -> Seq(Sending)] /\ stopAt' \in [Panes -> Nat \cup {None}]
  <2>1. <<>> \in Seq(Sending)
    OBVIOUS
  <2> QED BY <1>1, <2>1
<1>7. Faithful(view', log', overflowed') /\ view' \in Views /\ view'.lastSeq <= Len(log')
  <2>1. Faithful(EmptyView, log, FALSE) /\ EmptyView \in Views /\ EmptyView.lastSeq = 0
    BY <1>3, EmptyIsFaithful
  <2> QED BY <1>1, <1>3, <2>1 DEF Faithful
<1>8. Types'
  <2>1. strayed' \subseteq Panes /\ orphans' \subseteq Orphans /\ overflowed' \in BOOLEAN
    <3>1. PICK ps \in SUBSET Panes : ps = Panes
      OBVIOUS
    <3>2. LetGo(ps, ps)
      BY <1>1, <3>1
    <3> QED BY <1>1, <3>2, LetGoKeeps
  <2> QED BY <1>1, <1>2, <1>5, <1>6, <1>7, <2>1 DEF Types
<1>9. World(thread', log') /\ InHand(hand', thread', log', clock')
  BY <1>1, <1>2
<1> QED BY <1>4, <1>7, <1>8, <1>9 DEF IInv

LEMMA InitIInv == ASSUME Init PROVE IInv
<1>1. /\ thread = Apply(NoThread, log) /\ hand = <<>> /\ clock = 1
      /\ conn = [p \in Panes |-> Offline("draft")] /\ outbox = [p \in Panes |-> <<>>]
      /\ stopAt = [p \in Panes |-> None] /\ view = EmptyView /\ sent = 0
      /\ executed = [p \in Panes |-> <<>>] /\ overflowed = FALSE /\ strayed = {}
      /\ orphans = {}
  BY DEF Init
<1>2. 1 \in Times /\ <<>> \in Seq(HandCommand) /\ <<>> \in Seq(Sending) /\ <<>> \in Seq(Nat)
  BY SyncAssumption
<1>3. PICK now \in Times : now = 1
  BY <1>2
<1>4. PICK h \in Seq(HandCommand) : h = <<>>
  BY <1>2
<1>5. InHand(h, NoThread, <<>>, now)
  <2>1. Len(<<>>) = 0
    OBVIOUS
  <2>2. \A k \in 1..Len(h) : FALSE
    BY <1>4, <2>1
  <2> QED BY <1>4, <2>2 DEF InHand
<1>6. World(thread, log) /\ InHand(h, thread, log, now)
  <2>1. CASE log = <<>>
    <3>1. thread = NoThread
      BY <1>1, <2>1 DEF Apply
    <3> QED BY <1>5, <2>1, <3>1, WorldStart
  <2>2. CASE \E i \in Instances : log = Decide(NoThread, [type |-> "create", instance |-> i, mode |-> None])
    <3>1. PICK i \in Instances : log = Decide(NoThread, [type |-> "create", instance |-> i, mode |-> None])
      BY <2>2
    <3>2. PICK c : c = [type |-> "create", instance |-> i, mode |-> None]
      OBVIOUS
    <3>3. c.type = "create" /\ c.instance = i /\ c.mode = None /\ ~Fenced(NoThread, c)
      BY <3>2 DEF Fenced
    <3>4. Accepts(NoThread, c)
      BY <3>3 DEF Accepts, WorkCommands, LifecycleCommands
    <3>5. EventsOf(NoThread, c) = log
      BY <3>1, <3>2, <3>3, <3>4 DEF EventsOf
    <3>6. PICK l : l = <<>>
      OBVIOUS
    <3>7. World(NoThread, l) /\ InHand(h, NoThread, l, now)
      BY <1>5, <3>6, WorldStart
    <3>8. /\ log \in Seq(RawEvent) /\ World(Apply(NoThread, log), l \o log)
          /\ InHand(h, Apply(NoThread, log), l \o log, now)
      BY <3>2, <3>5, <3>7, CreateDispatch
    <3>9. l \o log = log
      BY <3>6, <3>8, NothingBefore
    <3> QED BY <1>1, <3>8, <3>9
  <2> QED BY <2>1, <2>2 DEF Init
<1>7. log \in Seq(LogEvent) /\ Len(log) \in Nat
  BY <1>6, RawIsLogged DEF World
<1>8. ASSUME NEW p \in Panes PROVE PaneInv(p)
  <2>1. PICK c \in Conns : /\ c = Offline("draft") /\ c.sock = "draft" /\ c.handler = "none"
                           /\ c.sub = <<>> /\ c.down = <<>> /\ c.up = <<>>
    BY OfflinePane
  <2>2. /\ conn[p] = c /\ outbox[p] = <<>> /\ stopAt[p] = None
    BY <1>1, <2>1
  <2>3. PICK n : n = view.lastSeq
    OBVIOUS
  <2>4. Socketed(c, <<>>) /\ Streamed(c, log, n, FALSE)
    BY <1>7, <2>1, IdlePane
  <2>5. Stopped(None, c.up \o <<>>, Excused(p), log, FALSE)
    BY DEF Stopped
  <2> QED BY <1>1, <2>1, <2>2, <2>3, <2>4, <2>5 DEF PaneInv, Queue
<1>9. Faithful(view, log, overflowed) /\ view \in Views /\ view.lastSeq <= Len(log)
  <2>1. Faithful(EmptyView, log, FALSE) /\ EmptyView \in Views /\ EmptyView.lastSeq = 0
    BY <1>7, EmptyIsFaithful
  <2> QED BY <1>1, <1>7, <2>1 DEF Faithful
<1>10. conn \in [Panes -> Conns]
  <2>1. Offline("draft") \in Conns
    BY OfflinePane
  <2> QED BY <1>1, <2>1
<1>11. Types
  BY <1>1, <1>2, <1>9, <1>10 DEF Types, Orphans
<1> QED BY <1>1, <1>3, <1>4, <1>6, <1>8, <1>9, <1>11 DEF IInv

LEMMA FollowKeeps ==
    ASSUME IInv, NEW p \in Panes, Follow(p)
    PROVE  IInv'
BY SubscribeKeeps, ReplayKeeps, AutoCreateKeeps, ForwardKeeps, HandleCommandKeeps, ConnectKeeps,
   ReceiveKeeps, DiscoverKeeps DEF Follow

LEMMA StepIInv == IInv /\ [Next]_vars => IInv'
<1> SUFFICES ASSUME IInv, [Next]_vars PROVE IInv'
  OBVIOUS
<1>1. CASE \E p \in Panes : Use(p) \/ Follow(p) \/ Die(p) \/ Retarget(p)
  BY <1>1, UseKeeps, FollowKeeps, DieKeeps, RetargetKeeps
<1>2. CASE Provider
  BY <1>2, SpeakKeeps, AskUserKeeps, RetireCardKeeps, EndTurnKeeps, FailTurnKeeps, SessionExitKeeps
  DEF Provider
<1>3. CASE Ingest
  BY <1>3, IngestKeeps
<1>4. CASE FinishArchive
  BY <1>4, FinishArchiveKeeps
<1>5. CASE Reload
  BY <1>5, ReloadKeeps
<1>6. CASE Reboot
  BY <1>6, RebootKeeps
<1>8. CASE \E o \in orphans : LateCreate(o) \/ LateCommand(o)
  BY <1>8, LateCreateKeeps, LateCommandKeeps
<1>7. CASE UNCHANGED vars
  BY <1>7 DEF IInv, Types, PaneInv, Queue, Excused, vars, counts
<1> QED BY <1>1, <1>2, <1>3, <1>4, <1>5, <1>6, <1>7, <1>8 DEF Next

\* Every reachable state satisfies the invariant.
THEOREM ChatInvariant == Spec => []IInv
BY InitIInv, StepIInv, PTL DEF Spec

-----------------------------------------------------------------------------
(***************************************************************************)
(* The order of a pane's commands: an invariant of its own, about what the *)
(* engine has had from each pane (es), how many commands were sent (n),    *)
(* what each pane has under way and waiting (qs) and the old sockets (os). *)
(***************************************************************************)

Rising(q) == \A i, j \in 1..Len(q) : i < j => q[i].number < q[j].number
Numbers(q) == {q[k].number : k \in 1..Len(q)}
Ran(e) == {e[k] : k \in 1..Len(e)}
Ahead(A, B) == \A a \in A, b \in B : a < b

\* What waits was sent later than all that ran or is on an old socket; what is on an
\* old socket has not run, and is not on another.
InOrder(es, n, qs, os) ==
    /\ \A p \in Panes :
        /\ Rising(qs[p]) /\ Numbers(qs[p]) \cup Ran(es[p]) \subseteq 0..n
        /\ Ahead(Ran(es[p]), Numbers(qs[p]))
    /\ \A o \in os :
        /\ Rising(o.up) /\ Numbers(o.up) \subseteq (0..n) \ Ran(es[o.pane])
        /\ Ahead(Numbers(o.up), Numbers(qs[o.pane]))
    /\ \A a, b \in os : a # b /\ a.pane = b.pane => Numbers(a.up) \cap Numbers(b.up) = {}

Queues == [p \in Panes |-> Queue(p)]
OrderInv == InOrder(executed, sent, Queues, orphans)

LEMMA NothingInOrder == Rising(<<>>) /\ Numbers(<<>>) = {} /\ Ran(<<>>) = {}
<1>1. Len(<<>>) = 0
  OBVIOUS
<1>2. 1..0 = {}
  OBVIOUS
<1> QED BY <1>1, <1>2 DEF Rising, Numbers, Ran

LEMMA RanAppend ==
    ASSUME NEW e \in Seq(Nat), NEW m \in Nat
    PROVE  Ran(Append(e, m)) = Ran(e) \cup {m}
<1>1. PICK f : f = Append(e, m)
  OBVIOUS
<1>2. f \in Seq(Nat) /\ Len(f) = Len(e) + 1 /\ f[Len(e) + 1] = m /\ \A k \in 1..Len(e) : f[k] = e[k]
  BY <1>1
<1>3. 1..Len(f) = 1..Len(e) \cup {Len(e) + 1}
  BY <1>2
<1> QED BY <1>1, <1>2, <1>3 DEF Ran

LEMMA RisingAppend ==
    ASSUME NEW q \in Seq(Sending), NEW x \in Sending, Rising(q), Ahead(Numbers(q), {x.number})
    PROVE  Rising(Append(q, x)) /\ Numbers(Append(q, x)) = Numbers(q) \cup {x.number}
<1>1. PICK r : r = Append(q, x)
  OBVIOUS
<1>2. r \in Seq(Sending) /\ Len(r) = Len(q) + 1 /\ r[Len(q) + 1] = x /\ \A k \in 1..Len(q) : r[k] = q[k]
  BY <1>1
<1>3. 1..Len(r) = 1..Len(q) \cup {Len(q) + 1}
  BY <1>2
<1>4. Numbers(r) = Numbers(q) \cup {x.number}
  BY <1>2, <1>3 DEF Numbers
<1>5. ASSUME NEW i \in 1..Len(r), NEW j \in 1..Len(r), i < j PROVE r[i].number < r[j].number
  <2>1. i \in 1..Len(q)
    BY <1>2, <1>5
  <2>2. CASE j \in 1..Len(q)
    BY <1>2, <1>5, <2>1, <2>2 DEF Rising
  <2>3. CASE j = Len(q) + 1
    BY <1>2, <2>1, <2>3 DEF Ahead, Numbers
  <2> QED BY <1>3, <2>2, <2>3
<1> QED BY <1>1, <1>4, <1>5 DEF Rising

LEMMA RisingTail ==
    ASSUME NEW q \in Seq(Sending), q # <<>>, Rising(q)
    PROVE  /\ Head(q) \in Sending /\ Tail(q) \in Seq(Sending) /\ Rising(Tail(q))
           /\ Numbers(q) = {Head(q).number} \cup Numbers(Tail(q))
           /\ Ahead({Head(q).number}, Numbers(Tail(q)))
<1>1. PICK r : r = Tail(q)
  OBVIOUS
<1>2. /\ r \in Seq(Sending) /\ Len(q) \in Nat \ {0} /\ Len(r) = Len(q) - 1 /\ Head(q) = q[1] /\ q[1] \in Sending
      /\ \A k \in 1..Len(r) : r[k] = q[k + 1]
  BY <1>1
<1>3. Numbers(r) = {q[k].number : k \in 2..Len(q)}
  <2>1. \A k \in 1..Len(r) : k + 1 \in 2..Len(q)
    BY <1>2
  <2>2. \A k \in 2..Len(q) : k - 1 \in 1..Len(r) /\ r[k - 1] = q[k]
    BY <1>2
  <2>3. ASSUME NEW v \in Numbers(r) PROVE v \in {q[k].number : k \in 2..Len(q)}
    <3>1. PICK k \in 1..Len(r) : v = r[k].number
      BY <2>3 DEF Numbers
    <3>2. r[k] = q[k + 1]
      BY <1>2, <3>1
    <3> QED BY <2>1, <3>1, <3>2
  <2>4. ASSUME NEW k \in 2..Len(q) PROVE q[k].number \in Numbers(r)
    BY <2>2, <2>4 DEF Numbers
  <2> QED BY <2>3, <2>4
<1>4. 1..Len(q) = {1} \cup 2..Len(q)
  BY <1>2
<1>5. Numbers(q) = {q[1].number} \cup Numbers(r)
  BY <1>3, <1>4 DEF Numbers
<1>6. Ahead({q[1].number}, Numbers(r))
  <2>1. \A k \in 2..Len(q) : q[1].number < q[k].number
    BY <1>2 DEF Rising
  <2> QED BY <1>3, <2>1 DEF Ahead
<1>7. Rising(r)
  <2>1. ASSUME NEW i \in 1..Len(r), NEW j \in 1..Len(r), i < j PROVE r[i].number < r[j].number
    <3>1. i + 1 \in 1..Len(q) /\ j + 1 \in 1..Len(q) /\ i + 1 < j + 1
      BY <1>2, <2>1
    <3> QED BY <1>2, <2>1, <3>1 DEF Rising
  <2> QED BY <2>1 DEF Rising
<1> QED BY <1>1, <1>2, <1>5, <1>6, <1>7

LEMMA RisingFirst ==
    ASSUME NEW q \in Seq(Sending), NEW n \in Nat, n <= Len(q), Rising(q)
    PROVE  Rising(SubSeq(q, 1, n)) /\ Numbers(SubSeq(q, 1, n)) \subseteq Numbers(q)
<1>1. PICK r : r = SubSeq(q, 1, n)
  OBVIOUS
<1>2. r \in Seq(Sending) /\ Len(r) = n /\ \A k \in 1..n : r[k] = q[k]
  BY <1>1, FirstOnes
<1>3. 1..n \subseteq 1..Len(q)
  OBVIOUS
<1> QED BY <1>1, <1>2, <1>3 DEF Rising, Numbers

\* Panes that lose what they have under way, some of it to an old socket.
LEMMA OrderLetGo ==
    ASSUME NEW es, NEW n, NEW qs, NEW qt, NEW os \in SUBSET Orphans, NEW ot \in SUBSET Orphans,
           InOrder(es, n, qs, os),
           \A p \in Panes : qt[p] = qs[p] \/ qt[p] = <<>>,
           \A o \in ot \ os : qt[o.pane] = <<>> /\ Rising(o.up) /\ Numbers(o.up) \subseteq Numbers(qs[o.pane]),
           \A a, b \in ot \ os : a.pane = b.pane => a = b
    PROVE  InOrder(es, n, qt, ot)
<1>1. ASSUME NEW p \in Panes
      PROVE  /\ Rising(qt[p]) /\ Numbers(qt[p]) \cup Ran(es[p]) \subseteq 0..n
             /\ Ahead(Ran(es[p]), Numbers(qt[p]))
  BY NothingInOrder DEF InOrder, Ahead
<1>2. ASSUME NEW o \in ot
      PROVE  /\ Rising(o.up) /\ Numbers(o.up) \subseteq (0..n) \ Ran(es[o.pane])
             /\ Ahead(Numbers(o.up), Numbers(qt[o.pane]))
  <2>1. o.pane \in Panes
    BY DEF Orphans
  <2>2. CASE o \in os
    BY <2>1, <2>2, NothingInOrder DEF InOrder, Ahead
  <2>3. CASE o \notin os
    <3>1. qt[o.pane] = <<>> /\ Rising(o.up) /\ Numbers(o.up) \subseteq Numbers(qs[o.pane])
      BY <2>3
    <3>2. Numbers(qs[o.pane]) \subseteq 0..n /\ Ahead(Ran(es[o.pane]), Numbers(qs[o.pane]))
      BY <2>1 DEF InOrder
    <3>3. Numbers(qs[o.pane]) \cap Ran(es[o.pane]) = {}
      BY <3>2 DEF Ahead
    <3> QED BY <3>1, <3>2, <3>3, NothingInOrder DEF Ahead
  <2> QED BY <2>2, <2>3
<1>3. ASSUME NEW a \in ot, NEW b \in ot, a # b, a.pane = b.pane
      PROVE  Numbers(a.up) \cap Numbers(b.up) = {}
  <2>1. ASSUME NEW c \in os, NEW d \in ot \ os, c.pane = d.pane
        PROVE  Numbers(c.up) \cap Numbers(d.up) = {}
    <3>1. Ahead(Numbers(c.up), Numbers(qs[c.pane])) /\ Numbers(c.up) \subseteq 0..n
      BY DEF InOrder
    <3>2. Numbers(d.up) \subseteq Numbers(qs[c.pane])
      BY <2>1
    <3> QED BY <3>1, <3>2 DEF Ahead
  <2>2. CASE a \in os /\ b \in os
    BY <1>3, <2>2 DEF InOrder
  <2>3. CASE a \in os /\ b \notin os
    BY <1>3, <2>1, <2>3
  <2>4. CASE a \notin os /\ b \in os
    BY <1>3, <2>1, <2>4
  <2>5. CASE a \notin os /\ b \notin os
    BY <1>3, <2>5
  <2> QED BY <2>2, <2>3, <2>4, <2>5
<1> QED BY <1>1, <1>2, <1>3 DEF InOrder

\* A command more.
LEMMA OrderIssued ==
    ASSUME NEW es \in [Panes -> Seq(Nat)], NEW n \in Nat, NEW qs \in [Panes -> Seq(Sending)],
           NEW os \in SUBSET Orphans, InOrder(es, n, qs, os),
           NEW p \in Panes, NEW x \in Sending, x.number = n + 1,
           NEW qt, \A r \in Panes : qt[r] = IF r = p THEN Append(qs[r], x) ELSE qs[r]
    PROVE  InOrder(es, n + 1, qt, os)
<1>1. Numbers(qs[p]) \subseteq 0..n /\ Rising(qs[p]) /\ qs[p] \in Seq(Sending)
  BY DEF InOrder
<1>2. Ahead(Numbers(qs[p]), {x.number})
  BY <1>1 DEF Ahead
<1>3. Rising(qt[p]) /\ Numbers(qt[p]) = Numbers(qs[p]) \cup {n + 1}
  BY <1>1, <1>2, RisingAppend
<1>4. 0..n \subseteq 0..(n + 1) /\ n + 1 \in 0..(n + 1) /\ n + 1 \notin 0..n
      /\ \A m \in 0..n : m < n + 1
  OBVIOUS
<1>5. ASSUME NEW r \in Panes
      PROVE  /\ Rising(qt[r]) /\ Numbers(qt[r]) \cup Ran(es[r]) \subseteq 0..(n + 1)
             /\ Ahead(Ran(es[r]), Numbers(qt[r]))
  <2>1. /\ Rising(qs[r]) /\ Numbers(qs[r]) \subseteq 0..n /\ Ran(es[r]) \subseteq 0..n
        /\ Ahead(Ran(es[r]), Numbers(qs[r]))
    BY DEF InOrder
  <2>2. CASE r = p
    BY <1>3, <1>4, <2>1, <2>2 DEF Ahead
  <2>3. CASE r # p
    BY <1>4, <2>1, <2>3
  <2> QED BY <2>2, <2>3
<1>6. ASSUME NEW o \in os
      PROVE  /\ Rising(o.up) /\ Numbers(o.up) \subseteq (0..(n + 1)) \ Ran(es[o.pane])
             /\ Ahead(Numbers(o.up), Numbers(qt[o.pane]))
  <2>1. /\ o.pane \in Panes /\ Rising(o.up) /\ Numbers(o.up) \subseteq (0..n) \ Ran(es[o.pane])
        /\ Ahead(Numbers(o.up), Numbers(qs[o.pane]))
    BY DEF InOrder, Orphans
  <2>2. CASE o.pane = p
    BY <1>3, <1>4, <2>1, <2>2 DEF Ahead
  <2>3. CASE o.pane # p
    BY <1>4, <2>1, <2>3
  <2> QED BY <2>2, <2>3
<1>7. \A a, b \in os : a # b /\ a.pane = b.pane => Numbers(a.up) \cap Numbers(b.up) = {}
  BY DEF InOrder
<1> QED BY <1>5, <1>6, <1>7 DEF InOrder

\* The socket's own handler hears the next command: it is newer than all so far.
LEMMA OrderHeard ==
    ASSUME NEW es \in [Panes -> Seq(Nat)], NEW n \in Nat, NEW qs \in [Panes -> Seq(Sending)],
           NEW os \in SUBSET Orphans, InOrder(es, n, qs, os),
           NEW p \in Panes, qs[p] # <<>>,
           NEW qt, \A r \in Panes : qt[r] = IF r = p THEN Tail(qs[r]) ELSE qs[r],
           NEW et, \A r \in Panes : et[r] = IF r = p THEN Append(es[r], Head(qs[p]).number) ELSE es[r]
    PROVE  Ahead(Ran(es[p]), {Head(qs[p]).number}) /\ InOrder(et, n, qt, os)
<1>1. PICK h : h = Head(qs[p]).number
  OBVIOUS
<1>2. /\ Rising(qs[p]) /\ Numbers(qs[p]) \cup Ran(es[p]) \subseteq 0..n
      /\ Ahead(Ran(es[p]), Numbers(qs[p])) /\ qs[p] \in Seq(Sending) /\ es[p] \in Seq(Nat)
  BY DEF InOrder
<1>3. /\ Head(qs[p]) \in Sending /\ Rising(qt[p]) /\ Numbers(qs[p]) = {h} \cup Numbers(qt[p])
      /\ Ahead({h}, Numbers(qt[p]))
  BY <1>1, <1>2, RisingTail
<1>4. h \in Nat
  BY <1>1, <1>3 DEF Sending
<1>5. Ran(et[p]) = Ran(es[p]) \cup {h}
  BY <1>1, <1>2, <1>4, RanAppend
<1>6. ASSUME NEW r \in Panes
      PROVE  /\ Rising(qt[r]) /\ Numbers(qt[r]) \cup Ran(et[r]) \subseteq 0..n
             /\ Ahead(Ran(et[r]), Numbers(qt[r]))
  <2>1. CASE r = p
    BY <1>2, <1>3, <1>5, <2>1 DEF Ahead
  <2>2. CASE r # p
    BY <2>2 DEF InOrder
  <2> QED BY <2>1, <2>2
<1>7. ASSUME NEW o \in os
      PROVE  /\ Rising(o.up) /\ Numbers(o.up) \subseteq (0..n) \ Ran(et[o.pane])
             /\ Ahead(Numbers(o.up), Numbers(qt[o.pane]))
  <2>1. /\ o.pane \in Panes /\ Rising(o.up) /\ Numbers(o.up) \subseteq (0..n) \ Ran(es[o.pane])
        /\ Ahead(Numbers(o.up), Numbers(qs[o.pane]))
    BY DEF InOrder, Orphans
  <2>2. CASE o.pane = p
    <3>1. h \notin Numbers(o.up)
      <4>1. Ahead(Numbers(o.up), Numbers(qs[p])) /\ h \in Numbers(qs[p])
        BY <1>3, <2>1, <2>2
      <4>2. ~(h < h)
        BY <1>4
      <4> QED BY <4>1, <4>2 DEF Ahead
    <3> QED BY <1>3, <1>5, <2>1, <2>2, <3>1 DEF Ahead
  <2>3. CASE o.pane # p
    BY <2>1, <2>3
  <2> QED BY <2>2, <2>3
<1>8. \A a, b \in os : a # b /\ a.pane = b.pane => Numbers(a.up) \cap Numbers(b.up) = {}
  BY DEF InOrder
<1> QED BY <1>1, <1>2, <1>3, <1>6, <1>7, <1>8 DEF InOrder, Ahead

\* The handler of an old socket hears its next command: it has not run before.
TakesNext(es, et, os, ot, o, v) ==
    /\ o \in os /\ o.up # <<>> /\ v.pane = o.pane /\ v.up = Tail(o.up)
    /\ ot \subseteq (os \ {o}) \cup {v}
    /\ \A r \in Panes :
          et[r] = IF r = o.pane THEN Append(es[r], Head(o.up).number) ELSE es[r]

LEMMA OrderLate ==
    ASSUME NEW es \in [Panes -> Seq(Nat)], NEW n \in Nat, NEW qs \in [Panes -> Seq(Sending)],
           NEW os, NEW ot, NEW o, NEW v, NEW et,
           InOrder(es, n, qs, os), os \subseteq Orphans, TakesNext(es, et, os, ot, o, v)
    PROVE  Head(o.up).number \notin Ran(es[o.pane]) /\ InOrder(et, n, qs, ot)
<1>1. PICK p \in Panes : p = o.pane
  BY DEF Orphans, TakesNext
<1>2. /\ o \in os /\ o.up # <<>> /\ p = o.pane /\ v.pane = p /\ v.up = Tail(o.up) /\ os \in SUBSET Orphans
      /\ ot \subseteq (os \ {o}) \cup {v}
      /\ \A r \in Panes : et[r] = IF r = p THEN Append(es[r], Head(o.up).number) ELSE es[r]
  BY <1>1 DEF TakesNext
<1> USE <1>2
<1>3. PICK h : h = Head(o.up).number
  OBVIOUS
<1>4. /\ Rising(o.up) /\ Numbers(o.up) \subseteq (0..n) \ Ran(es[p]) /\ o.up \in Seq(Sending)
      /\ Ahead(Numbers(o.up), Numbers(qs[p])) /\ es[p] \in Seq(Nat)
  BY DEF InOrder, Orphans
<1>5. /\ Head(o.up) \in Sending /\ Rising(v.up) /\ Numbers(o.up) = {h} \cup Numbers(v.up)
      /\ Ahead({h}, Numbers(v.up))
  BY <1>3, <1>4, RisingTail
<1>6. h \in Nat
  BY <1>3, <1>5 DEF Sending
<1>7. Ran(et[p]) = Ran(es[p]) \cup {h}
  BY <1>3, <1>4, <1>6, RanAppend
<1>8. h \notin Numbers(v.up)
  BY <1>5, <1>6 DEF Ahead
<1>9. ASSUME NEW r \in Panes
      PROVE  /\ Rising(qs[r]) /\ Numbers(qs[r]) \cup Ran(et[r]) \subseteq 0..n
             /\ Ahead(Ran(et[r]), Numbers(qs[r]))
  <2>1. /\ Rising(qs[r]) /\ Numbers(qs[r]) \cup Ran(es[r]) \subseteq 0..n
        /\ Ahead(Ran(es[r]), Numbers(qs[r]))
    BY DEF InOrder
  <2>2. CASE r = p
    BY <1>4, <1>5, <1>7, <2>1, <2>2 DEF Ahead
  <2>3. CASE r # p
    BY <2>1, <2>3
  <2> QED BY <2>2, <2>3
<1>10. ASSUME NEW a \in os, a # o, a.pane = p PROVE Numbers(a.up) \cap Numbers(o.up) = {}
  BY <1>10 DEF InOrder
<1>11. ASSUME NEW a \in ot
      PROVE  /\ Rising(a.up) /\ Numbers(a.up) \subseteq (0..n) \ Ran(et[a.pane])
             /\ Ahead(Numbers(a.up), Numbers(qs[a.pane]))
  <2>1. CASE a = v
    BY <1>4, <1>5, <1>7, <1>8, <2>1 DEF Ahead
  <2>2. CASE a \in os \ {o}
    <3>1. /\ a.pane \in Panes /\ Rising(a.up) /\ Numbers(a.up) \subseteq (0..n) \ Ran(es[a.pane])
          /\ Ahead(Numbers(a.up), Numbers(qs[a.pane]))
      BY <2>2 DEF InOrder, Orphans
    <3>2. a.pane = p => h \notin Numbers(a.up)
      BY <1>5, <1>10, <2>2
    <3> QED BY <1>7, <3>1, <3>2
  <2> QED BY <2>1, <2>2
<1>12. ASSUME NEW a \in ot, NEW b \in ot, a # b, a.pane = b.pane
       PROVE  Numbers(a.up) \cap Numbers(b.up) = {}
  <2>1. CASE a \in os \ {o} /\ b \in os \ {o}
    BY <1>12, <2>1 DEF InOrder
  <2>2. CASE a = v /\ b \in os \ {o}
    BY <1>5, <1>10, <1>12, <2>2
  <2>3. CASE b = v /\ a \in os \ {o}
    BY <1>5, <1>10, <1>12, <2>3
  <2> QED BY <1>12, <2>1, <2>2, <2>3
<1> QED BY <1>3, <1>4, <1>5, <1>9, <1>11, <1>12 DEF InOrder

-----------------------------------------------------------------------------
(***************************************************************************)
(* Each step keeps the order.                                              *)
(***************************************************************************)

\* What CommandsInOrder says of a step.
InTurn ==
    \A p \in Panes : executed'[p] # executed[p] =>
        LET n == executed'[p][Len(executed'[p])]
            earlier == {executed[p][k] : k \in DOMAIN executed[p]}
        IN  /\ n \notin earlier
            /\ \/ \A m \in earlier : m < n
               \/ \E o \in orphans : o.pane = p /\ o.up # <<>> /\ Head(o.up).number = n

LEMMA OrderTypes ==
    ASSUME IInv
    PROVE  /\ executed \in [Panes -> Seq(Nat)] /\ sent \in Nat /\ orphans \in SUBSET Orphans
           /\ conn \in [Panes -> Conns] /\ outbox \in [Panes -> Seq(Sending)]
           /\ Queues \in [Panes -> Seq(Sending)]
<1>1. /\ executed \in [Panes -> Seq(Nat)] /\ sent \in Nat /\ orphans \in SUBSET Orphans
      /\ conn \in [Panes -> Conns] /\ outbox \in [Panes -> Seq(Sending)]
  BY DEF IInv, Types
<1>2. ASSUME NEW p \in Panes PROVE Queue(p) \in Seq(Sending)
  <2>1. conn[p].up \in Seq(Sending) /\ outbox[p] \in Seq(Sending)
    BY <1>1, ConnFacts
  <2> QED BY <2>1 DEF Queue
<1> QED BY <1>1, <1>2 DEF Queues

\* A step in which the engine hears no pane.
LEMMA Quiet ==
    ASSUME IInv, OrderInv, UNCHANGED <<executed, sent>>,
           \A p \in Panes : Queue(p)' = Queue(p) \/ Queue(p)' = <<>>,
           NEW os \in SUBSET Orphans, os = orphans',
           \A o \in os \ orphans :
              Queue(o.pane)' = <<>> /\ Rising(o.up) /\ Numbers(o.up) \subseteq Numbers(Queue(o.pane)),
           \A a, b \in os \ orphans : a.pane = b.pane => a = b
    PROVE  OrderInv' /\ InTurn
<1>1. InTurn
  BY DEF InTurn
<1>2. PICK qt : qt = [p \in Panes |-> Queue(p)']
  OBVIOUS
<1>3. orphans \in SUBSET Orphans /\ InOrder(executed, sent, Queues, orphans)
  BY OrderTypes DEF OrderInv
<1>4. \A p \in Panes : Queues[p] = Queue(p) /\ qt[p] = Queue(p)'
  BY <1>2 DEF Queues
<1>5. \A p \in Panes : qt[p] = Queues[p] \/ qt[p] = <<>>
  BY <1>4
<1>6. \A o \in os \ orphans :
         qt[o.pane] = <<>> /\ Rising(o.up) /\ Numbers(o.up) \subseteq Numbers(Queues[o.pane])
  <2>1. \A o \in os : o.pane \in Panes
    BY DEF Orphans
  <2> QED BY <1>4, <2>1
<1>7. InOrder(executed, sent, qt, os)
  BY <1>3, <1>5, <1>6, OrderLetGo
<1>8. qt = Queues'
  BY <1>2 DEF Queues
<1> QED BY <1>1, <1>7, <1>8 DEF OrderInv

\* One that leaves the sockets' frames and the outboxes alone.
LEMMA Idle ==
    ASSUME IInv, OrderInv, UNCHANGED <<executed, sent, outbox>>,
           \A p \in Panes : conn'[p].up = conn[p].up \/ (conn'[p].up = <<>> /\ outbox[p] = <<>>),
           orphans' \subseteq orphans
    PROVE  OrderInv' /\ InTurn
<1>1. ASSUME NEW p \in Panes PROVE Queue(p)' = Queue(p) \/ Queue(p)' = <<>>
  <2>1. <<>> \o <<>> = <<>>
    OBVIOUS
  <2> QED BY <2>1 DEF Queue
<1>2. PICK os : os = orphans'
  OBVIOUS
<1>3. os \in SUBSET Orphans /\ os \ orphans = {}
  BY <1>2, OrderTypes
<1> QED BY <1>1, <1>2, <1>3, Quiet

LEMMA PublishUp ==
    ASSUME NEW c, NEW cs \in [Panes -> Conns], Dispatch(c, cs), NEW p \in Panes
    PROVE  conn'[p].up = cs[p].up
<1>1. cs[p] \in Conns
  OBVIOUS
<1>2. PICK n : conn' = Publish(cs, n)
  BY DEF Dispatch
<1>3. \/ conn'[p] = cs[p]
      \/ conn'[p] = [cs[p] EXCEPT !.sub = Append(@, <<Len(log) + 1, Len(log) + n>>)]
  BY <1>2 DEF Publish
<1> QED BY <1>1, <1>3 DEF Conns

\* The engine hears command n of pane p, newer than what it had or late.
LEMMA Heard ==
    ASSUME IInv, NEW p \in Panes, NEW n \in Nat, executed' = [executed EXCEPT ![p] = Append(@, n)],
           n \notin Ran(executed[p]),
           \/ Ahead(Ran(executed[p]), {n})
           \/ \E o \in orphans : o.pane = p /\ o.up # <<>> /\ Head(o.up).number = n
    PROVE  InTurn
<1>1. PICK e \in Seq(Nat) : e = executed[p]
  BY OrderTypes
<1>2. PICK f : f = Append(e, n)
  OBVIOUS
<1>3. f[Len(f)] = n /\ DOMAIN e = 1..Len(e)
  BY <1>2
<1>4. executed'[p] = f /\ \A q \in Panes : q # p => executed'[q] = executed[q]
  BY <1>1, <1>2, OrderTypes
<1>5. {executed[p][k] : k \in DOMAIN executed[p]} = Ran(e)
  BY <1>1, <1>3 DEF Ran
<1> QED BY <1>1, <1>3, <1>4, <1>5 DEF InTurn, Ahead

LEMMA HandleCommandInOrder ==
    ASSUME IInv, OrderInv, NEW p \in Panes, HandleCommand(p)
    PROVE  OrderInv' /\ InTurn
<1>1. /\ conn[p].handler = "live" /\ conn[p].up # <<>>
      /\ Dispatch(Head(conn[p].up).command, [conn EXCEPT ![p].up = Tail(@)])
      /\ executed' = [executed EXCEPT ![p] = Append(@, Head(conn[p].up).number)]
      /\ UNCHANGED <<outbox, sent, orphans>>
  BY DEF HandleCommand, Serving, Record, counts, browser
<1>2. /\ executed \in [Panes -> Seq(Nat)] /\ sent \in Nat /\ orphans \in SUBSET Orphans
      /\ conn \in [Panes -> Conns] /\ outbox \in [Panes -> Seq(Sending)]
      /\ Queues \in [Panes -> Seq(Sending)]
  BY OrderTypes
<1>3. PICK q \in Seq(Sending) : q = conn[p].up
  BY <1>2, ConnFacts
<1>4. PICK r \in Seq(Sending) : r = Tail(q)
  BY <1>1, <1>3, Nonempty
<1>5. PICK cs : cs = [conn EXCEPT ![p].up = Tail(@)]
  OBVIOUS
<1>6. cs \in [Panes -> Conns] /\ \A x \in Panes : cs[x].up = IF x = p THEN r ELSE conn[x].up
  <2>1. PICK d : d = [conn[p] EXCEPT !.up = r]
    OBVIOUS
  <2>2. d \in Conns /\ d.up = r
    BY <1>2, <2>1 DEF Conns
  <2>3. cs = [conn EXCEPT ![p] = d]
    BY <1>3, <1>4, <1>5, <2>1
  <2> QED BY <1>2, <2>2, <2>3
<1>7. \A x \in Panes : conn'[x].up = IF x = p THEN r ELSE conn[x].up
  <2>1. Dispatch(Head(conn[p].up).command, cs)
    BY <1>1, <1>5
  <2> QED BY <1>6, <2>1, PublishUp
<1>8. outbox[p] = <<>> /\ conn[p].sock = "open"
  <2>1. Socketed(conn[p], outbox[p])
    BY PaneFacts
  <2> QED BY <1>1, <2>1 DEF Socketed
<1>9. PICK qt : qt = Queues'
  OBVIOUS
<1>10. Queues[p] = q /\ \A x \in Panes : qt[x] = IF x = p THEN Tail(Queues[x]) ELSE Queues[x]
  <2>1. q \o <<>> = q /\ r \o <<>> = r
    BY NothingBefore
  <2>2. Queues[p] = q
    BY <1>3, <1>8, <2>1 DEF Queues, Queue
  <2>3. qt[p] = r
    BY <1>1, <1>7, <1>8, <1>9, <2>1 DEF Queues, Queue
  <2>4. \A x \in Panes : x # p => qt[x] = Queues[x]
    BY <1>1, <1>7, <1>9 DEF Queues, Queue
  <2> QED BY <1>4, <2>2, <2>3, <2>4
<1>11. \A x \in Panes : executed'[x] = IF x = p THEN Append(executed[x], Head(Queues[p]).number) ELSE executed[x]
  BY <1>1, <1>2, <1>3, <1>10
<1>12. InOrder(executed, sent, Queues, orphans) /\ Queues[p] # <<>>
  BY <1>1, <1>3, <1>10 DEF OrderInv
<1>13. Ahead(Ran(executed[p]), {Head(Queues[p]).number}) /\ InOrder(executed', sent, qt, orphans)
  BY <1>2, <1>10, <1>11, <1>12, OrderHeard
<1>14. OrderInv'
  BY <1>1, <1>9, <1>13 DEF OrderInv
<1>15. PICK n : n = Head(q).number
  OBVIOUS
<1>16. n \in Nat
  <2>1. Head(q) \in Sending
    BY <1>1, <1>3, Nonempty
  <2> QED BY <1>15, <2>1 DEF Sending
<1>17. executed' = [executed EXCEPT ![p] = Append(@, n)] /\ Ahead(Ran(executed[p]), {n})
  BY <1>1, <1>3, <1>10, <1>13, <1>15
<1>18. n \notin Ran(executed[p])
  <2>1. ~(n < n)
    BY <1>16
  <2> QED BY <1>17, <2>1 DEF Ahead
<1> QED BY <1>14, <1>16, <1>17, <1>18, Heard

LEMMA LateCommandInOrder ==
    ASSUME IInv, OrderInv, NEW o \in orphans, LateCommand(o)
    PROVE  OrderInv' /\ InTurn
<1>1. /\ o.up # <<>> /\ Dispatch(Head(o.up).command, conn)
      /\ executed' = [executed EXCEPT ![o.pane] = Append(@, Head(o.up).number)]
      /\ orphans' = {x \in (orphans \ {o}) \cup {[o EXCEPT !.up = Tail(@)]} : x.up # <<>>}
      /\ UNCHANGED <<outbox, sent>>
  BY DEF LateCommand, Record, counts, browser
<1>2. /\ executed \in [Panes -> Seq(Nat)] /\ sent \in Nat /\ orphans \in SUBSET Orphans
      /\ conn \in [Panes -> Conns] /\ Queues \in [Panes -> Seq(Sending)]
  BY OrderTypes
<1>3. o \in Orphans /\ o.up \in Seq(Sending)
  BY <1>2 DEF Orphans
<1>4. PICK p \in Panes : p = o.pane
  BY <1>3 DEF Orphans
<1>5. PICK v : v = [o EXCEPT !.up = Tail(@)]
  OBVIOUS
<1>6. v.pane = p /\ v.up = Tail(o.up)
  BY <1>3, <1>4, <1>5 DEF Orphans
<1>7. PICK ot : ot = orphans'
  OBVIOUS
<1>8. ot \subseteq (orphans \ {o}) \cup {v}
  BY <1>1, <1>5, <1>7
<1>9. \A r \in Panes : executed'[r] = IF r = p THEN Append(executed[r], Head(o.up).number) ELSE executed[r]
  BY <1>1, <1>2, <1>4
<1>10. Head(o.up).number \notin Ran(executed[p]) /\ InOrder(executed', sent, Queues, ot)
  <2>1. InOrder(executed, sent, Queues, orphans) /\ o.up # <<>> /\ p = o.pane
    BY <1>1, <1>4 DEF OrderInv
  <2>2. PICK et : et = executed'
    OBVIOUS
  <2>3. TakesNext(executed, et, orphans, ot, o, v)
    BY <1>1, <1>4, <1>6, <1>8, <1>9, <2>2 DEF TakesNext
  <2>4. PICK es \in [Panes -> Seq(Nat)] : es = executed
    BY <1>2
  <2>5. PICK qs \in [Panes -> Seq(Sending)] : qs = Queues
    BY <1>2
  <2>6. PICK n \in Nat : n = sent
    BY <1>2
  <2>7. PICK os : os = orphans
    OBVIOUS
  <2>8. os \subseteq Orphans
    BY <1>2, <2>7
  <2>9. InOrder(es, n, qs, os)
    BY <2>1, <2>4, <2>5, <2>6, <2>7
  <2>10. TakesNext(es, et, os, ot, o, v)
    BY <2>3, <2>4, <2>7
  <2>11. Head(o.up).number \notin Ran(es[o.pane]) /\ InOrder(et, n, qs, ot)
    BY <2>8, <2>9, <2>10, OrderLate
  <2> QED BY <1>4, <2>2, <2>4, <2>5, <2>11, <2>6
<1>11. Queues' = Queues
  <2>1. \A x \in Panes : conn'[x].up = conn[x].up
    BY <1>1, <1>2, PublishUp
  <2> QED BY <1>1, <2>1 DEF Queues, Queue
<1>12. OrderInv'
  BY <1>1, <1>7, <1>10, <1>11 DEF OrderInv
<1>13. PICK n : n = Head(o.up).number
  OBVIOUS
<1>14. n \in Nat
  <2>1. Head(o.up) \in Sending
    BY <1>1, <1>3, Nonempty
  <2> QED BY <1>13, <2>1 DEF Sending
<1>15. executed' = [executed EXCEPT ![p] = Append(@, n)] /\ n \notin Ran(executed[p])
       /\ \E x \in orphans : x.pane = p /\ x.up # <<>> /\ Head(x.up).number = n
  BY <1>1, <1>4, <1>10, <1>13
<1> QED BY <1>12, <1>14, <1>15, Heard

LEMMA IssueInOrder ==
    ASSUME IInv, OrderInv, NEW p \in Panes, NEW c \in UserCommand, Issue(p, c)
    PROVE  OrderInv' /\ InTurn
<1>1. /\ sent' = sent + 1 /\ UNCHANGED <<executed, orphans>>
      /\ \/ /\ conn[p].sock = "open"
            /\ conn' = [conn EXCEPT ![p].up = Append(@, Numbered(c))] /\ outbox' = outbox
         \/ /\ conn[p].sock # "open"
            /\ outbox' = [outbox EXCEPT ![p] = Append(@, Numbered(c))]
            /\ conn' = [conn EXCEPT ![p].sock = IF c.type \in {"turnStart", "runtimeModeSet"}
                                                THEN "down" ELSE @]
  BY DEF Issue, history
<1>2. /\ executed \in [Panes -> Seq(Nat)] /\ sent \in Nat /\ orphans \in SUBSET Orphans
      /\ conn \in [Panes -> Conns] /\ outbox \in [Panes -> Seq(Sending)]
      /\ Queues \in [Panes -> Seq(Sending)]
  BY OrderTypes
<1>3. PICK s \in Sending : s = Numbered(c) /\ s.number = sent + 1
  <2>1. PICK n \in Nat : n = sent + 1
    BY <1>2
  <2>2. PICK s : s = [number |-> n, command |-> c]
    OBVIOUS
  <2>3. s \in Sending /\ s.number = n
    BY <2>2 DEF Sending
  <2> QED BY <2>1, <2>2, <2>3 DEF Numbered
<1>4. PICK qt : qt = Queues'
  OBVIOUS
<1>5. \A x \in Panes : x # p => qt[x] = Queues[x]
  BY <1>1, <1>2, <1>4 DEF Queues, Queue
<1>6. qt[p] = Append(Queues[p], s)
  <2>1. /\ conn[p].up \in Seq(Sending) /\ outbox[p] \in Seq(Sending) /\ Socketed(conn[p], outbox[p])
        /\ conn[p].sock # "open" => conn[p].up \o outbox[p] = outbox[p]
        /\ conn[p].sock = "open" => conn[p].up \o outbox[p] = conn[p].up
    BY PaneFacts
  <2>2. CASE conn[p].sock = "open"
    <3>1. outbox[p] = <<>>
      BY <2>1, <2>2 DEF Socketed
    <3>2. PICK r \in Seq(Sending) : r = Append(conn[p].up, s)
      <4>1. Append(conn[p].up, s) \in Seq(Sending)
        BY <2>1
      <4> QED BY <4>1
    <3>3. conn'[p].up = r /\ outbox'[p] = <<>>
      BY <1>1, <1>2, <1>3, <2>2, <3>1, <3>2 DEF Conns
    <3>4. r \o <<>> = r
      BY NothingBefore
    <3> QED BY <1>4, <2>1, <2>2, <3>2, <3>3, <3>4 DEF Queues, Queue
  <2>3. CASE conn[p].sock # "open"
    <3>1. conn[p].up = <<>>
      BY <2>1, <2>3 DEF Socketed
    <3>2. PICK r \in Seq(Sending) : r = Append(outbox[p], s)
      <4>1. Append(outbox[p], s) \in Seq(Sending)
        BY <2>1
      <4> QED BY <4>1
    <3>3. outbox'[p] = r /\ conn'[p].up = <<>>
      BY <1>1, <1>2, <1>3, <2>3, <3>1, <3>2 DEF Conns
    <3>4. <<>> \o r = r
      BY NothingBefore
    <3> QED BY <1>4, <2>1, <2>3, <3>2, <3>3, <3>4 DEF Queues, Queue
  <2> QED BY <2>2, <2>3
<1>7. \A x \in Panes : qt[x] = IF x = p THEN Append(Queues[x], s) ELSE Queues[x]
  BY <1>5, <1>6
<1>8. InOrder(executed, sent + 1, qt, orphans)
  <2>1. InOrder(executed, sent, Queues, orphans)
    BY DEF OrderInv
  <2> QED BY <1>2, <1>3, <1>7, <2>1, OrderIssued
<1> QED BY <1>1, <1>4, <1>8 DEF OrderInv, InTurn

\* The panes ps let go of their sockets, and those are idle that had one.
LEMMA LetGoInOrder ==
    ASSUME IInv, OrderInv, NEW ps \in SUBSET Panes, NEW unsent, LetGo(ps, unsent),
           UNCHANGED <<executed, sent>>,
           \A p \in Panes : Queue(p)' = Queue(p) \/ Queue(p)' = <<>>,
           \A p \in ps : conn[p].sock = "open" => Queue(p)' = <<>>
    PROVE  OrderInv' /\ InTurn
<1>1. PICK n \in [ps -> 0..MaxSent] :
        /\ \A p \in ps : n[p] <= Len(conn[p].up)
        /\ orphans' = orphans \cup
             {o \in {[pane |-> p, up |-> SubSeq(conn[p].up, 1, n[p])] : p \in {q \in ps : conn[q].sock = "open"}} :
                 o.up # <<>> \/ thread = NoThread}
  BY DEF LetGo
<1>2. ASSUME NEW p \in ps
      PROVE  /\ conn[p].up \in Seq(Sending) /\ n[p] \in Nat /\ n[p] <= Len(conn[p].up) /\ p \in Panes
             /\ conn[p].sock = "open" => Queue(p) = conn[p].up
  <2>1. p \in Panes /\ n[p] \in 0..MaxSent
    BY <1>1
  <2>2. conn[p].up \in Seq(Sending) /\ (conn[p].sock = "open" => conn[p].up \o outbox[p] = conn[p].up)
    BY <2>1, PaneFacts
  <2>3. n[p] \in Nat /\ n[p] <= Len(conn[p].up)
    BY <1>1, <2>1
  <2> QED BY <2>1, <2>2, <2>3 DEF Queue
<1>3. PICK os : os = orphans'
  OBVIOUS
<1>4. ASSUME NEW o \in os \ orphans
      PROVE  /\ o.pane \in ps /\ o = [pane |-> o.pane, up |-> SubSeq(conn[o.pane].up, 1, n[o.pane])]
             /\ conn[o.pane].sock = "open"
  <2>1. PICK p \in ps : conn[p].sock = "open" /\ o = [pane |-> p, up |-> SubSeq(conn[p].up, 1, n[p])]
    BY <1>1, <1>3
  <2>2. o.pane = p
    BY <2>1
  <2> QED BY <2>1, <2>2
<1>5. ASSUME NEW o \in os \ orphans
      PROVE  /\ o \in Orphans /\ Queue(o.pane)' = <<>> /\ Rising(o.up)
             /\ Numbers(o.up) \subseteq Numbers(Queue(o.pane))
  <2>1. PICK p \in ps : /\ p = o.pane /\ conn[p].sock = "open"
                        /\ o = [pane |-> p, up |-> SubSeq(conn[p].up, 1, n[p])]
    BY <1>4
  <2>2. PICK q \in Seq(Sending) : q = conn[p].up /\ q = Queue(p)
    BY <1>2, <2>1
  <2>3. Rising(q)
    <3>1. Rising(Queues[p]) /\ Queues[p] = q
      BY <1>2, <2>2 DEF OrderInv, InOrder, Queues
    <3> QED BY <3>1
  <2>4. PICK u : u = SubSeq(q, 1, n[p])
    OBVIOUS
  <2>5. u \in Seq(Sending) /\ Rising(u) /\ Numbers(u) \subseteq Numbers(q)
    BY <1>2, <2>2, <2>3, <2>4, FirstOnes, RisingFirst
  <2>6. o.up = u /\ o \in Orphans
    BY <1>2, <2>1, <2>2, <2>4, <2>5 DEF Orphans
  <2> QED BY <2>1, <2>2, <2>5, <2>6
<1>6. os \in SUBSET Orphans
  <2>1. orphans \in SUBSET Orphans
    BY OrderTypes
  <2> QED BY <1>5, <2>1
<1>7. \A a, b \in os \ orphans : a.pane = b.pane => a = b
  BY <1>4
<1> QED BY <1>3, <1>5, <1>6, <1>7, Quiet

LEMMA DieInOrder ==
    ASSUME IInv, OrderInv, NEW p \in Panes, Die(p)
    PROVE  OrderInv' /\ InTurn
<1>1. /\ conn[p].sock = "open" /\ conn' = [conn EXCEPT ![p] = Offline("down")]
      /\ LetGo({p}, {}) /\ UNCHANGED <<executed, sent, outbox>>
  BY DEF Die, browser
<1>2. /\ conn \in [Panes -> Conns] /\ outbox[p] = <<>> /\ Offline("down").up = <<>>
  <2>1. Socketed(conn[p], outbox[p])
    BY PaneFacts
  <2> QED BY <1>1, <2>1, OrderTypes DEF Socketed, Offline
<1>3. ASSUME NEW q \in Panes PROVE IF q = p THEN Queue(q)' = <<>> ELSE Queue(q)' = Queue(q)
  <2>1. <<>> \o <<>> = <<>>
    OBVIOUS
  <2> QED BY <1>1, <1>2, <2>1 DEF Queue
<1>4. PICK ps \in SUBSET Panes : ps = {p}
  OBVIOUS
<1>5. LetGo(ps, {}) /\ \A q \in ps : q = p
  BY <1>1, <1>4
<1> QED BY <1>1, <1>3, <1>5, LetGoInOrder

LEMMA RetargetInOrder ==
    ASSUME IInv, OrderInv, NEW p \in Panes, Retarget(p)
    PROVE  OrderInv' /\ InTurn
<1>1. /\ conn' = [conn EXCEPT ![p] = Offline("down")] /\ outbox' = [outbox EXCEPT ![p] = <<>>]
      /\ LetGo({p}, {p}) /\ UNCHANGED <<executed, sent>>
  BY DEF Retarget
<1>2. conn \in [Panes -> Conns] /\ outbox \in [Panes -> Seq(Sending)] /\ Offline("down").up = <<>>
  BY OrderTypes DEF Offline
<1>3. ASSUME NEW q \in Panes PROVE IF q = p THEN Queue(q)' = <<>> ELSE Queue(q)' = Queue(q)
  <2>1. <<>> \o <<>> = <<>>
    OBVIOUS
  <2> QED BY <1>1, <1>2, <2>1 DEF Queue
<1>4. PICK ps \in SUBSET Panes : ps = {p}
  OBVIOUS
<1>5. LetGo(ps, ps) /\ \A q \in ps : q = p
  BY <1>1, <1>4
<1> QED BY <1>1, <1>3, <1>5, LetGoInOrder

LEMMA ReloadInOrder ==
    ASSUME IInv, OrderInv, Reload
    PROVE  OrderInv' /\ InTurn
<1>1. /\ LetGo(Panes, Panes) /\ UNCHANGED <<executed, sent>>
      /\ conn' = [p \in Panes |-> IF conn[p].sock = "draft" THEN conn[p] ELSE Offline("down")]
      /\ outbox' = [p \in Panes |-> <<>>]
  BY DEF Reload
<1>2. ASSUME NEW p \in Panes PROVE Queue(p)' = <<>>
  <2>1. <<>> \o <<>> = <<>>
    OBVIOUS
  <2>2. conn[p] \in Conns /\ Socketed(conn[p], outbox[p])
    BY PaneFacts
  <2>3. conn'[p].up = <<>>
    BY <1>1, <2>2 DEF Socketed, Offline
  <2> QED BY <1>1, <2>1, <2>3 DEF Queue
<1> QED BY <1>1, <1>2, LetGoInOrder

LEMMA RebootInOrder ==
    ASSUME IInv, OrderInv, Reboot
    PROVE  OrderInv' /\ InTurn
<1> DEFINE cs == [p \in Panes |-> IF conn[p].sock = "open" THEN Offline("down") ELSE conn[p]]
<1>1. /\ orphans' = {} /\ UNCHANGED <<executed, sent, outbox>>
      /\ (\E c : Dispatch(c, cs)) \/ conn' = cs
  BY DEF Reboot, browser
<1>2. conn \in [Panes -> Conns] /\ cs \in [Panes -> Conns]
  <2>1. Offline("down") \in Conns
    BY OfflinePane
  <2> QED BY <2>1, OrderTypes
<1>3. ASSUME NEW p \in Panes
      PROVE  conn'[p].up = conn[p].up \/ (conn'[p].up = <<>> /\ outbox[p] = <<>>)
  <2>1. conn'[p].up = cs[p].up
    BY <1>1, <1>2, PublishUp
  <2>2. Socketed(conn[p], outbox[p])
    BY PaneFacts
  <2>3. Offline("down").up = <<>>
    BY DEF Offline
  <2> QED BY <2>1, <2>2, <2>3 DEF Socketed
<1>4. orphans' \subseteq orphans
  BY <1>1
<1> QED BY <1>1, <1>3, <1>4, Idle

LEMMA ConnectInOrder ==
    ASSUME IInv, OrderInv, NEW p \in Panes, Connect(p)
    PROVE  OrderInv' /\ InTurn
<1>1. /\ conn[p].sock = "down"
      /\ conn' = [conn EXCEPT ![p] = [Offline("open") EXCEPT !.handler = "hello",
                                      !.since = view.lastSeq, !.up = outbox[p]]]
      /\ outbox' = [outbox EXCEPT ![p] = <<>>]
      /\ UNCHANGED <<executed, sent, orphans>>
  BY DEF Connect, counts, history
<1>2. conn \in [Panes -> Conns] /\ outbox \in [Panes -> Seq(Sending)] /\ orphans \in SUBSET Orphans
  BY OrderTypes
<1>3. PICK b \in Seq(Sending) : b = outbox[p]
  BY <1>2
<1>4. Queue(p) = b
  BY <1>1, <1>3, PaneFacts DEF Queue
<1>5. conn'[p].up = b /\ outbox'[p] = <<>>
  BY <1>1, <1>2, <1>3 DEF Offline
<1>6. b \o <<>> = b
  BY NothingBefore
<1>7. ASSUME NEW q \in Panes PROVE Queue(q)' = Queue(q)
  <2>1. CASE q = p
    BY <1>4, <1>5, <1>6, <2>1 DEF Queue
  <2>2. CASE q # p
    BY <1>1, <1>2, <2>2 DEF Queue
  <2> QED BY <2>1, <2>2
<1>8. PICK os \in SUBSET Orphans : os = orphans'
  BY <1>1, <1>2
<1>9. os \ orphans = {}
  BY <1>1, <1>8
<1> QED BY <1>1, <1>7, <1>8, <1>9, Quiet

\* The rest of what sockets and handlers do leaves the commands alone.
LEMMA FollowInOrder ==
    ASSUME IInv, OrderInv, NEW p \in Panes, Follow(p)
    PROVE  OrderInv' /\ InTurn
<1>1. conn \in [Panes -> Conns]
  BY OrderTypes
<1>2. ASSUME UNCHANGED <<executed, sent, outbox, orphans>>,
             \A q \in Panes : conn'[q].up = conn[q].up
      PROVE  OrderInv' /\ InTurn
  BY <1>2, Idle
<1>3. CASE Subscribe(p)
  BY <1>1, <1>2, <1>3 DEF Subscribe, counts, browser, history, Conns
<1>4. CASE Replay(p)
  BY <1>1, <1>2, <1>4 DEF Replay, counts, browser, history, Conns
<1>5. CASE AutoCreate(p)
  <2>1. PICK cs : cs = [conn EXCEPT ![p].handler = "live"]
    OBVIOUS
  <2>2. UNCHANGED <<executed, sent, outbox, orphans>> /\ \E c : Dispatch(c, cs)
    BY <1>5, <2>1 DEF AutoCreate, counts, browser
  <2>3. cs \in [Panes -> Conns] /\ \A q \in Panes : cs[q].up = conn[q].up
    <3>1. PICK d : d = [conn[p] EXCEPT !.handler = "live"]
      OBVIOUS
    <3>2. d \in Conns /\ d.up = conn[p].up
      BY <1>1, <3>1 DEF Conns, Handlers
    <3>3. cs = [conn EXCEPT ![p] = d]
      BY <2>1, <3>1
    <3> QED BY <1>1, <3>2, <3>3
  <2>4. \A q \in Panes : conn'[q].up = conn[q].up
    BY <2>2, <2>3, PublishUp
  <2> QED BY <1>2, <2>2, <2>4
<1>6. CASE Forward(p)
  BY <1>1, <1>2, <1>6 DEF Forward, counts, history, Conns
<1>7. CASE HandleCommand(p)
  BY <1>7, HandleCommandInOrder
<1>8. CASE Connect(p)
  BY <1>8, ConnectInOrder
<1>9. CASE Receive(p)
  BY <1>1, <1>2, <1>9 DEF Receive, counts, history, Conns
<1>10. CASE Discover(p)
  <2>1. /\ conn[p].sock = "draft" /\ conn' = [conn EXCEPT ![p] = Offline("down")]
        /\ UNCHANGED <<executed, sent, outbox, orphans>>
    BY <1>10 DEF Discover, counts, browser, history
  <2>2. conn[p].up = <<>> /\ Offline("down").up = <<>>
    <3>1. Socketed(conn[p], outbox[p])
      BY PaneFacts
    <3> QED BY <2>1, <3>1 DEF Socketed, Offline
  <2> QED BY <1>1, <1>2, <2>1, <2>2
<1> QED BY <1>3, <1>4, <1>5, <1>6, <1>7, <1>8, <1>9, <1>10 DEF Follow

LEMMA InitInOrder == Init => OrderInv
<1> SUFFICES ASSUME Init PROVE OrderInv
  OBVIOUS
<1>1. /\ orphans = {} /\ executed = [p \in Panes |-> <<>>] /\ sent = 0
      /\ \A p \in Panes : conn[p].up = <<>> /\ outbox[p] = <<>>
  BY DEF Init, Offline
<1>2. ASSUME NEW p \in Panes PROVE Queues[p] = <<>> /\ executed[p] = <<>>
  <2>1. <<>> \o <<>> = <<>>
    OBVIOUS
  <2> QED BY <1>1, <2>1 DEF Queues, Queue
<1> QED BY <1>1, <1>2, NothingInOrder DEF OrderInv, InOrder, Ahead

LEMMA StepInOrder == IInv /\ OrderInv /\ [Next]_vars => OrderInv' /\ [InTurn]_vars
<1> SUFFICES ASSUME IInv, OrderInv, [Next]_vars PROVE OrderInv' /\ (InTurn \/ UNCHANGED vars)
  OBVIOUS
<1>1. conn \in [Panes -> Conns]
  BY OrderTypes
<1>2. ASSUME UNCHANGED <<executed, sent, outbox>>, orphans' \subseteq orphans,
             (\E c : Dispatch(c, conn)) \/ conn' = conn
      PROVE  OrderInv' /\ InTurn
  <2>1. \A p \in Panes : conn'[p].up = conn[p].up
    BY <1>1, <1>2, PublishUp
  <2> QED BY <1>2, <2>1, Idle
<1>3. ASSUME NEW p \in Panes, Use(p) \/ Follow(p) \/ Die(p) \/ Retarget(p) PROVE OrderInv' /\ InTurn
  <2>1. CASE Use(p)
    <3>1. PICK c \in UserCommand : Issue(p, c)
      BY <2>1, UseIssues
    <3> QED BY <3>1, IssueInOrder
  <2> QED BY <1>3, <2>1, FollowInOrder, DieInOrder, RetargetInOrder
<1>4. CASE Provider
  <2>1. \E h : Say(h)
    BY <1>4 DEF Provider, Speak, AskUser, RetireCard, EndTurn, FailTurn, SessionExit
  <2>2. UNCHANGED <<executed, sent, outbox, orphans, conn>>
    BY <2>1 DEF Say, browser, history
  <2> QED BY <1>2, <2>2
<1>5. CASE Ingest
  BY <1>2, <1>5 DEF Ingest, counts, browser
<1>6. CASE FinishArchive
  BY <1>2, <1>6 DEF FinishArchive, counts, browser
<1>7. CASE \E o \in orphans : LateCreate(o)
  <2>1. /\ \E c : Dispatch(c, conn)
        /\ orphans' \subseteq orphans /\ UNCHANGED <<executed, sent, outbox>>
    BY <1>7 DEF LateCreate, counts, browser
  <2> QED BY <1>2, <2>1
<1>8. CASE UNCHANGED vars
  <2>1. UNCHANGED <<executed, sent, outbox, orphans, conn>>
    BY <1>8 DEF vars, counts
  <2> QED BY <1>2, <2>1
<1> QED BY <1>3, <1>4, <1>5, <1>6, <1>7, <1>8, ReloadInOrder, RebootInOrder, LateCommandInOrder DEF Next

-----------------------------------------------------------------------------
(***************************************************************************)
(* What follows.                                                           *)
(***************************************************************************)

LEMMA SeqDomain == ASSUME NEW S, NEW q \in Seq(S) PROVE DOMAIN q = 1..Len(q)
OBVIOUS

LEMMA InvTypeOK == IInv => TypeOK
<1> SUFFICES ASSUME IInv PROVE TypeOK
  OBVIOUS
<1>1. thread \in Thread \cup {NoThread}
  BY DEF IInv, World, Sound
<1>2. clock \in Times /\ view \in Views
  BY DEF IInv, Types
<1>3. view.lastSeq \in Nat /\ view.lastSeq <= Len(log) /\ log \in Seq(RawEvent)
  BY <1>2 DEF IInv, Types, World, Views
<1>4. /\ view.status \in Status /\ view.mode \in RuntimeMode
      /\ view.lastSeq \in 0..Len(log)
      /\ Cards(view) \subseteq Requests
  BY <1>2, <1>3 DEF Views, Cards
<1>5. ASSUME NEW p \in Panes
      PROVE  /\ conn[p].sock \in {"draft", "down", "open"}
             /\ conn[p].handler \in {"none", "hello", "subscribed", "replayed", "live"}
             /\ conn[p].handler # "none" <=> conn[p].sock = "open"
             /\ Len(conn[p].sub) <= BufferSize
             /\ NoEmptyFrame(p)
             /\ stopAt[p] \in 0..Len(log) \cup {None}
             /\ conn[p].sock = "open" => outbox[p] = <<>>
  <2>1. /\ conn[p] \in Conns /\ stopAt[p] \in Nat \cup {None}
        /\ Socketed(conn[p], outbox[p]) /\ Streamed(conn[p], log, view.lastSeq, overflowed)
        /\ Stopped(stopAt[p], conn[p].up \o outbox[p], Excused(p), log, overflowed)
    BY PaneFacts
  <2>2. /\ conn[p].sock \in {"draft", "down", "open"}
        /\ conn[p].handler \in {"none", "hello", "subscribed", "replayed", "live"}
    BY <2>1, ConnFacts DEF Handlers
  <2>3. NoEmptyFrame(p)
    <3>1. PICK fs \in Seq(Seq(WireEvent)) : fs = conn[p].down
      BY <2>1, ConnFacts
    <3>2. DOMAIN fs = 1..Len(fs)
      OBVIOUS
    <3>3. CASE conn[p].handler \in {"replayed", "live"}
      <4>1. PICK b : Frames(log, b, fs)
        BY <2>1, <3>1, <3>3 DEF Streamed
      <4>2. \A k \in 1..Len(fs) : fs[k] # <<>>
        BY <4>1 DEF Frames
      <4> QED BY <3>1, <3>2, <4>2 DEF NoEmptyFrame
    <3>4. CASE conn[p].handler \in {"none", "hello", "subscribed"}
      <4>1. fs = <<>>
        BY <2>1, <3>1, <3>4 DEF Streamed, Socketed
      <4>2. Len(<<>>) = 0
        OBVIOUS
      <4>3. \A k \in 1..Len(fs) : FALSE
        BY <4>1, <4>2
      <4> QED BY <3>1, <3>2, <4>3 DEF NoEmptyFrame
    <3> QED BY <2>2, <3>3, <3>4
  <2>4. stopAt[p] \in 0..Len(log) \cup {None}
    <3>1. Len(log) \in Nat
      BY <1>3
    <3> QED BY <2>1, <3>1 DEF Stopped
  <2> QED BY <2>1, <2>2, <2>3, <2>4 DEF Socketed
<1>6. \A o \in orphans : o.pane \in Panes
  BY DEF IInv, Types, Orphans
<1> QED BY <1>1, <1>2, <1>4, <1>5, <1>6 DEF TypeOK

LEMMA WireIsBatch == ASSUME NEW lo, NEW hi PROVE Wire(lo, hi) = Batch(log, lo, hi)
BY DEF Wire, Batch

LEMMA InvPrefix == OnePane /\ IInv => ViewIsPrefix
<1> SUFFICES ASSUME OnePane, IInv PROVE ViewIsPrefix
  OBVIOUS
<1>1. overflowed \/ view = At(log, view.lastSeq)
  BY DEF IInv, Faithful
<1> QED BY <1>1, WireIsBatch DEF ViewIsPrefix, At

LEMMA LogDomain == IInv => DOMAIN log = 1..Len(log)
BY SeqDomain DEF IInv, World

LEMMA InvWaiting == IInv => WaitingShowsCard
<1> SUFFICES ASSUME IInv, ~overflowed, ~ArchiveFell PROVE view.status = "waiting" => Cards(view) # {}
  BY DEF WaitingShowsCard
<1>1. SameCore(view, At(log, view.lastSeq))
  BY DEF IInv, Faithful
<1>2. view.lastSeq \in 0..Len(log)
  BY DEF IInv, Types, Views
<1>3. ~FellIn(log)
  BY LogDomain DEF ArchiveFell, FellIn
<1>4. Shows(At(log, view.lastSeq), FellIn(log))
  BY <1>2 DEF IInv, World
<1> QED BY <1>1, <1>3, <1>4 DEF Shows, SameCore, Cards

LEMMA InvAgrees == IInv => AgreesWithServer
<1> SUFFICES ASSUME IInv, ~overflowed, view.lastSeq = Len(log), thread # NoThread
             PROVE  /\ view.mode = thread.mode
                    /\ view.archived = thread.archived /\ view.archiving = thread.archiving
                    /\ {r \in thread.pending : Logged(Opened(r)) /\ ~Logged(Resolved(r))} \subseteq Cards(view)
                    /\ Cards(view) = thread.pending /\ ~ErrorStands => view.status = thread.status
  BY DEF AgreesWithServer
<1>1. PICK v : v = At(log, Len(log))
  OBVIOUS
<1>2. SameCore(view, v)
  BY <1>1 DEF IInv, Faithful
<1>3. Sound(thread) /\ Match(thread, v, OpenedIn(log), ResolvedIn(log), ErrorIn(log))
  BY <1>1 DEF IInv, World
<1>4. Cards(view) = Cards(v)
  BY <1>2 DEF SameCore, Cards
<1>5. {r \in thread.pending : Logged(Opened(r)) /\ ~Logged(Resolved(r))}
        \subseteq (thread.pending \cap OpenedIn(log)) \ ResolvedIn(log)
  <2>1. thread.pending \subseteq Requests
    BY <1>3 DEF Sound, Thread
  <2>2. \A b : Logged(b) <=> LoggedIn(log, b)
    BY LogDomain DEF Logged, LoggedIn
  <2> QED BY <2>1, <2>2 DEF OpenedIn, ResolvedIn
<1>6. ErrorIn(log) => ErrorStands
  BY LogDomain DEF ErrorIn, ErrorStands, IsError
<1>7. ASSUME Cards(view) = thread.pending, ~ErrorStands PROVE view.status = thread.status
  <2>1. thread.status = "waiting" => thread.pending # {}
    BY <1>3 DEF Sound
  <2>2. \/ v.status = thread.status
        \/ v.status = "waiting" /\ thread.status = "running" /\ thread.pending = {} /\ Cards(v) # {}
        \/ v.status = "running" /\ thread.status = "waiting" /\ thread.pending \cap Cards(v) = {}
    BY <1>3, <1>6, <1>7 DEF Match
  <2>3. v.status = thread.status
    BY <1>4, <1>7, <2>1, <2>2
  <2> QED BY <1>2, <2>3 DEF SameCore
<1> QED BY <1>2, <1>3, <1>4, <1>5, <1>7 DEF Match, SameCore

\* Interrupts of p under way, waiting or on an old socket are among what may be heard.
LEMMA InterruptUnheard ==
    ASSUME NEW p, NEW q \in Seq(Sending), HasInterrupt(q),
           \/ q = conn[p].up \/ q = outbox[p] \/ \E o \in orphans : o.pane = p /\ q = o.up
    PROVE  \E c \in Unheard(p) : c.type = "turnInterrupt"
<1>1. PICK k \in DOMAIN q : q[k].command.type = "turnInterrupt"
  BY SeqDomain DEF HasInterrupt
<1>2. q[k].command \in Unheard(p)
  BY DEF Unheard
<1> QED BY <1>1, <1>2

LEMMA InvIdle == IInv => IdleIsExcused
<1> SUFFICES ASSUME IInv, ~overflowed, NEW p \in Panes, ShownStatus(p) # view.status
             PROVE  \/ \E c \in Unheard(p) : c.type = "turnInterrupt"
                    \/ view.lastSeq < Len(log)
                    \/ p \in strayed
  BY DEF IdleIsExcused
<1>1. stopAt[p] # None /\ view.lastSeq <= stopAt[p]
  BY DEF ShownStatus
<1>2. /\ stopAt[p] \in Nat \cup {None} /\ view.lastSeq \in Nat /\ log \in Seq(LogEvent)
      /\ Stopped(stopAt[p], conn[p].up \o outbox[p], Excused(p), log, overflowed)
      /\ conn[p].up \in Seq(Sending) /\ outbox[p] \in Seq(Sending) /\ orphans \subseteq Orphans
      /\ conn[p].sock # "open" => conn[p].up \o outbox[p] = outbox[p]
      /\ conn[p].sock = "open" => conn[p].up \o outbox[p] = conn[p].up
  BY PaneFacts
<1>3. PICK q : q = conn[p].up \o outbox[p]
  OBVIOUS
<1>4. p \in strayed \/ Excused(p) \/ HasInterrupt(q) \/ stopAt[p] < Len(log)
  BY <1>1, <1>2, <1>3 DEF Stopped
<1>5. HasInterrupt(q) => \E c \in Unheard(p) : c.type = "turnInterrupt"
  BY <1>2, <1>3, InterruptUnheard
<1>6. stopAt[p] < Len(log) => view.lastSeq < Len(log)
  <2>1. Len(log) \in Nat
    BY <1>2
  <2> QED BY <1>1, <1>2, <2>1
<1>7. ASSUME NEW o \in orphans, o.pane = p, HasInterrupt(o.up)
      PROVE  \E c \in Unheard(p) : c.type = "turnInterrupt"
  <2>1. PICK u \in Seq(Sending) : u = o.up
    BY <1>2 DEF Orphans
  <2> QED BY <1>7, <2>1, InterruptUnheard
<1> QED BY <1>4, <1>5, <1>6, <1>7 DEF Excused

\* Whatever the number of panes, all of the view but its transcript is what the events
\* up to its sequence number come to, if no subscription overflowed.
CoreIsPrefix == overflowed \/ SameCore(view, At(log, view.lastSeq))

LEMMA InvCore == IInv => CoreIsPrefix
BY DEF IInv, Faithful, CoreIsPrefix

-----------------------------------------------------------------------------
\* Threads, logs, views, sockets and outboxes have their types, whatever the panes, the
\* provider and the troubles do.
THEOREM ChatTyped == Spec => []TypeOK
BY ChatInvariant, InvTypeOK, PTL

\* A pane that is alone with its thread shows what the log up to its sequence number
\* folds to, row by row: subscribing before the snapshot loses nothing, and neither
\* merging the deltas of a replay, nor cutting it into frames, nor a tail that is sent
\* twice changes anything, unless a full subscription dropped a batch.  With two panes
\* it is false (ToldOnce is refuted).
THEOREM ViewsArePrefixes ==
    ASSUME \A p, q \in Panes : p = q
    PROVE  Spec => []ViewIsPrefix
<1>1. IInv => ViewIsPrefix
  BY InvPrefix DEF OnePane
<1> QED BY ChatInvariant, <1>1, PTL

\* With any number of panes the composer and the panels are painted from a prefix of
\* the log, unless a full subscription dropped a batch: what two panes can spoil is
\* the transcript only (eventReducer.ts, HandleWS).
THEOREM PanelsFollowTheLog == Spec => []CoreIsPrefix
BY ChatInvariant, InvCore, PTL

\* A view that waits has a card to answer, unless an archive failed or a batch was
\* dropped (Ingestion.handle: status last).
THEOREM WaitingHasCards == Spec => []WaitingShowsCard
BY ChatInvariant, InvWaiting, PTL

\* A view that has the whole log agrees with the server's thread, in status, mode,
\* archive state and cards (eventReducer.ts against the engine's applyOne).
THEOREM ViewsAgreeWithServer == Spec => []AgreesWithServer
BY ChatInvariant, InvAgrees, PTL

\* A pane that shows itself idle after Stop although its view does not has its
\* interrupt still unheard or news on the way, or lost a command with a socket
\* (useAgentChatSocket.ts, abortPending).
THEOREM IdlePanesAreExcused == Spec => []IdleIsExcused
BY ChatInvariant, InvIdle, PTL

\* Every command of a pane reaches the engine at most once, across outboxes, sockets
\* that die and pages loaded again; and it comes after every command the pane sent
\* before it that the engine has, unless it was under way on a socket the pane had let
\* go of, whose handler reads on (useAgentChatSocket.ts, outboxRef and onopen;
\* agent_ws.go, readLoop).
THEOREM OnlyLateCommandsAreOvertaken == Spec => CommandsInOrder
<1>1. IInv /\ OrderInv /\ [Next]_vars => OrderInv' /\ [InTurn]_vars
  BY StepInOrder
<1> QED BY <1>1, ChatInvariant, InitInOrder, PTL DEF Spec, CommandsInOrder, InTurn
=============================================================================
