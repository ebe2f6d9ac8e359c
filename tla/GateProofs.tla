----------------------------- MODULE GateProofs -----------------------------
(***************************************************************************)
(* Proofs about Gate, for any sets of requests and threads: type           *)
(* correctness, the four safety invariants, and that every behaviour of    *)
(* Gate is, through its refinement mapping, one of ApprovalPromise.        *)
(*                                                                         *)
(* None of the invariants is inductive alone.  IInv adds what ties a       *)
(* request's entry, verdict, channel and waiter together: an open entry    *)
(* has no verdict, a decided one repeats it, an asker that is on its way   *)
(* finds its entry, and what is in the channel is the verdict.             *)
(***************************************************************************)
EXTENDS Gate, TLAPS

\* What the entry e of request r says about r.
EntryInv(r, e) ==
    /\ e.state = "open" =>
          /\ verdict[r].by = "nobody"
          /\ r \notin cancelled
          /\ e.mutating \/ r \in Waited \ Mutating
    /\ e.state = "decided" =>
          verdict[r].by # "nobody" /\ e.decision = verdict[r].decision
    /\ waiter[r] \in {"none", "done"} => e.state = "absent"
    /\ waiter[r] = "coming" =>
          IF verdict[r].by = "nobody" THEN e.state = "open"
                                      ELSE e.state = "decided" /\ ~e.expired
    /\ waiter[r] = "parked" /\ verdict[r].by = "nobody" => e.state = "open"

\* What ties the verdict of r to its channel, its waiter and its callback.
VerdictInv(r) ==
    /\ verdict[r].by = "nobody" <=> verdict[r].decision = NoDecision
    /\ sending[r] \in {NoDecision, verdict[r].decision}
    /\ channel[r] \in {NoDecision, verdict[r].decision}
    /\ waiter[r] = "parked" /\ verdict[r].by # "nobody" =>
          verdict[r].decision \in {sending[r], channel[r]}
    /\ waiter[r] = "none" => verdict[r].by = "nobody" /\ r \notin cancelled
    /\ waiter[r] \in {"leaving", "done"} => outcome[r] # NoDecision
    /\ r \in callbacks => verdict[r].by = "cancel"
    /\ verdict[r].by = "release" =>
          AllowsUnprompted(verdict[r].mode, r \in Mutating \/ r \notin Waited)

IInv ==
    /\ TypeOK
    /\ \A r \in Requests : EntryInv(r, entries[r]) /\ VerdictInv(r)
    /\ GrantStands

\* A sweep keeps every entry that is open, and every decision an asker on its
\* way has yet to collect.
LEMMA SweptKeeps ==
    ASSUME IInv
    PROVE  /\ Swept(entries) \in [Requests -> Entry]
           /\ \A r \in Requests :
                /\ EntryInv(r, Swept(entries)[r])
                /\ Swept(entries)[r].state = "open" <=> entries[r].state = "open"
                /\ Swept(entries)[r].state # "absent" => Swept(entries)[r] = entries[r]
                /\ waiter[r] = "coming" => Swept(entries)[r] = entries[r]
<1>1. NoEntry \in Entry /\ NoEntry.state = "absent"
  BY DEF NoEntry, Entry
<1> QED BY <1>1 DEF IInv, TypeOK, Swept, EntryInv, Entry

LEMMA InitIInv == Init => IInv
<1> SUFFICES ASSUME Init PROVE IInv
  OBVIOUS
<1>1. NoEntry \in Entry /\ NoEntry.state = "absent"
  BY DEF NoEntry, Entry
<1>2. NoVerdict \in Verdict /\ NoVerdict.by = "nobody" /\ NoVerdict.decision = NoDecision
  BY DEF NoVerdict, Verdict, Source
<1>3. TypeOK
  BY <1>1, <1>2 DEF Init, TypeOK, WaiterState
<1>4. ASSUME NEW r \in Requests PROVE EntryInv(r, entries[r]) /\ VerdictInv(r)
  BY <1>1, <1>2 DEF Init, EntryInv, VerdictInv
<1>5. GrantStands
  BY DEF Init, GrantStands
<1> QED BY <1>3, <1>4, <1>5 DEF IInv

\* What a critical section that decides the requests of S with d leaves behind.
DecidedBy(S, d, by, mode) ==
    /\ entries' \in [Requests -> Entry]
    /\ sending' \in [Requests -> Decision \cup {NoDecision}]
    /\ verdict' \in [Requests -> Verdict]
    /\ \A r \in S :
          /\ entries'[r].state = "decided" /\ ~entries'[r].expired
          /\ entries'[r].decision = d /\ sending'[r] = d
          /\ verdict'[r].by = by /\ verdict'[r].decision = d /\ verdict'[r].mode = mode
          /\ verdict[r].by = "nobody" /\ r \notin cancelled
          /\ by = "release" => AllowsUnprompted(mode, r \in Mutating \/ r \notin Waited)
    /\ \A r \in Requests \ S :
          /\ entries'[r] = Swept(entries)[r]
          /\ sending'[r] = sending[r] /\ verdict'[r] = verdict[r]

\* Decide, applied to open requests, does that.
LEMMA DecideKeeps ==
    ASSUME IInv, NEW S \in SUBSET Requests, NEW d \in Decision,
           NEW by \in Source \ {"nobody"}, NEW mode \in RuntimeMode \cup {NoDecision},
           \A r \in S : Swept(entries)[r].state = "open",
           Decide(Swept(entries), S, d, by, mode),
           by = "release" => \A r \in S : AllowsUnprompted(mode, Swept(entries)[r].mutating)
    PROVE  DecidedBy(S, d, by, mode)
<1> DEFINE es == Swept(entries)
<1>1. /\ es \in [Requests -> Entry]
      /\ \A r \in Requests : EntryInv(r, es[r])
      /\ \A r \in S : es[r] = entries[r]
  BY SweptKeeps
<1> HIDE DEF es
<1>2. entries' = [r \in Requests |-> IF r \in S THEN Decided(es[r], d) ELSE es[r]]
  BY DEF Decide, es
<1>3. \A r \in S : /\ Decided(es[r], d) \in Entry
                   /\ Decided(es[r], d).state = "decided"
                   /\ Decided(es[r], d).decision = d
                   /\ ~Decided(es[r], d).expired
  BY <1>1, ZenonT(60) DEF Decided, Entry
<1>4. sending' = [r \in Requests |-> IF r \in S THEN d ELSE sending[r]]
  BY DEF Decide
<1>5. verdict' = [r \in Requests |-> IF r \in S THEN [by |-> by, decision |-> d, mode |-> mode]
                                                ELSE verdict[r]]
  BY DEF Decide
<1>6. [by |-> by, decision |-> d, mode |-> mode] \in Verdict
  BY DEF Verdict
<1>7. entries' \in [Requests -> Entry]
  BY <1>1, <1>2, <1>3
<1>8. /\ sending' \in [Requests -> Decision \cup {NoDecision}]
      /\ verdict' \in [Requests -> Verdict]
  BY <1>4, <1>5, <1>6 DEF IInv, TypeOK
<1>9. ASSUME NEW r \in S
      PROVE  /\ verdict[r].by = "nobody" /\ r \notin cancelled
             /\ es[r].mutating \/ r \in Waited \ Mutating
  BY <1>1 DEF EntryInv, es
<1>10. ASSUME NEW r \in S, by = "release"
       PROVE  AllowsUnprompted(mode, r \in Mutating \/ r \notin Waited)
  <2>1. AllowsUnprompted(mode, es[r].mutating)
    BY <1>10 DEF es
  <2> QED BY <2>1, <1>9 DEF AllowsUnprompted
<1> QED BY <1>2, <1>3, <1>4, <1>5, <1>7, <1>8, <1>9, <1>10 DEF es, DecidedBy

\* Every step keeps IInv: first the actions of one request, none of which makes
\* a decision.
LEMMA OpenKeeps == ASSUME IInv, NEW r \in Requests, Open(r) PROVE IInv'
<1> DEFINE es == Swept(entries)
<1>1. /\ es \in [Requests -> Entry]
      /\ \A q \in Requests :
           /\ EntryInv(q, es[q])
           /\ es[q].state = "open" <=> entries[q].state = "open"
           /\ es[q].state # "absent" => es[q] = entries[q]
           /\ waiter[q] = "coming" => es[q] = entries[q]
  BY SweptKeeps
<1>2. TypeOK /\ GrantStands /\ \A q \in Requests : VerdictInv(q)
  BY DEF IInv
<1> USE DEF Open, Opened, NoEntry, Entry
<1>3. TypeOK'
  BY <1>1, <1>2 DEF TypeOK, WaiterState, EntryInv, VerdictInv
<1>4. ASSUME NEW q \in Requests PROVE (EntryInv(q, entries[q]))'
  BY <1>1, <1>2 DEF TypeOK, EntryInv, VerdictInv
<1>5. ASSUME NEW q \in Requests PROVE VerdictInv(q)'
  BY <1>1, <1>2 DEF TypeOK, EntryInv, VerdictInv
<1>6. GrantStands'
  BY <1>2 DEF GrantStands
<1> QED BY <1>3, <1>4, <1>5, <1>6 DEF IInv

LEMMA ResolveUnknownKeeps == ASSUME IInv, NEW r \in Requests, ResolveUnknown(r) PROVE IInv'
<1> DEFINE es == Swept(entries)
<1>1. /\ es \in [Requests -> Entry]
      /\ \A q \in Requests :
           /\ EntryInv(q, es[q])
           /\ es[q].state = "open" <=> entries[q].state = "open"
           /\ es[q].state # "absent" => es[q] = entries[q]
           /\ waiter[q] = "coming" => es[q] = entries[q]
  BY SweptKeeps
<1>2. TypeOK /\ GrantStands /\ \A q \in Requests : VerdictInv(q)
  BY DEF IInv
<1> USE DEF ResolveUnknown
<1>3. TypeOK'
  BY <1>1, <1>2 DEF TypeOK, WaiterState, EntryInv, VerdictInv
<1>4. ASSUME NEW q \in Requests PROVE (EntryInv(q, entries[q]))'
  BY <1>1, <1>2 DEF TypeOK, EntryInv, VerdictInv
<1>5. ASSUME NEW q \in Requests PROVE VerdictInv(q)'
  BY <1>1, <1>2 DEF TypeOK, EntryInv, VerdictInv
<1>6. GrantStands'
  BY <1>2 DEF GrantStands
<1> QED BY <1>3, <1>4, <1>5, <1>6 DEF IInv

LEMMA SendKeeps == ASSUME IInv, NEW r \in Requests, Send(r) PROVE IInv'
<1>1. /\ TypeOK /\ GrantStands
      /\ \A q \in Requests : EntryInv(q, entries[q]) /\ VerdictInv(q)
  BY DEF IInv
<1> USE DEF Send
<1>2. TypeOK'
  BY <1>1 DEF TypeOK, WaiterState
<1>3. ASSUME NEW q \in Requests PROVE (EntryInv(q, entries[q]))'
  BY <1>1 DEF TypeOK, EntryInv, VerdictInv
<1>4. ASSUME NEW q \in Requests PROVE VerdictInv(q)'
  BY <1>1 DEF TypeOK, EntryInv, VerdictInv
<1>5. GrantStands'
  BY <1>1 DEF GrantStands
<1> QED BY <1>2, <1>3, <1>4, <1>5 DEF IInv

LEMMA OnCancelKeeps == ASSUME IInv, NEW r \in Requests, OnCancel(r) PROVE IInv'
<1>1. /\ TypeOK /\ GrantStands
      /\ \A q \in Requests : EntryInv(q, entries[q]) /\ VerdictInv(q)
  BY DEF IInv
<1> USE DEF OnCancel
<1>2. TypeOK'
  BY <1>1 DEF TypeOK, WaiterState
<1>3. ASSUME NEW q \in Requests PROVE (EntryInv(q, entries[q]))'
  BY <1>1 DEF TypeOK, EntryInv, VerdictInv
<1>4. ASSUME NEW q \in Requests PROVE VerdictInv(q)'
  BY <1>1 DEF TypeOK, EntryInv, VerdictInv
<1>5. GrantStands'
  BY <1>1 DEF GrantStands
<1> QED BY <1>2, <1>3, <1>4, <1>5 DEF IInv

LEMMA AwaitDecidedKeeps == ASSUME IInv, NEW r \in Requests, AwaitDecided(r) PROVE IInv'
<1> DEFINE es == Swept(entries)
<1>1. /\ es \in [Requests -> Entry]
      /\ \A q \in Requests :
           /\ EntryInv(q, es[q])
           /\ es[q].state = "open" <=> entries[q].state = "open"
           /\ es[q].state # "absent" => es[q] = entries[q]
           /\ waiter[q] = "coming" => es[q] = entries[q]
  BY SweptKeeps
<1>2. TypeOK /\ GrantStands /\ \A q \in Requests : VerdictInv(q)
  BY DEF IInv
<1>0. NoEntry \in Entry /\ NoEntry.state = "absent"
  BY DEF NoEntry, Entry
<1> USE DEF AwaitDecided
<1>3. TypeOK'
  <2>1. entries[r] \in Entry /\ entries[r].state = "decided"
    BY <1>1, <1>2 DEF TypeOK
  <2>2. entries[r].decision = verdict[r].decision
    BY <2>1 DEF IInv, EntryInv
  <2>3. entries[r].decision \in Decision \cup {NoDecision}
    BY <2>1 DEF Entry
  <2> QED BY <1>0, <1>1, <1>2, <2>3 DEF TypeOK, WaiterState
<1>4. ASSUME NEW q \in Requests PROVE (EntryInv(q, entries[q]))'
  BY <1>0, <1>1, <1>2 DEF TypeOK, EntryInv, VerdictInv
<1>5. ASSUME NEW q \in Requests PROVE VerdictInv(q)'
  BY <1>0, <1>1, <1>2 DEF TypeOK, EntryInv, VerdictInv
<1>6. GrantStands'
  BY <1>2 DEF GrantStands
<1> QED BY <1>3, <1>4, <1>5, <1>6 DEF IInv

LEMMA AwaitParkKeeps == ASSUME IInv, NEW r \in Requests, AwaitPark(r) PROVE IInv'
<1> DEFINE es == Swept(entries)
<1>1. /\ es \in [Requests -> Entry]
      /\ \A q \in Requests :
           /\ EntryInv(q, es[q])
           /\ es[q].state = "open" <=> entries[q].state = "open"
           /\ es[q].state # "absent" => es[q] = entries[q]
           /\ waiter[q] = "coming" => es[q] = entries[q]
  BY SweptKeeps
<1>2. TypeOK /\ GrantStands /\ \A q \in Requests : VerdictInv(q)
  BY DEF IInv
<1> DEFINE e == Swept(entries)[r]
           p == [Opened(e) EXCEPT !.mutating = (r \in Mutating)]
<1>0. /\ p \in Entry /\ p.state = "open"
      /\ p.mutating <=> r \in Mutating
  <2>1. e \in Entry /\ e.state # "decided"
    BY <1>1 DEF AwaitPark
  <2>2. Opened(e) \in Entry /\ Opened(e).state = "open"
    BY <2>1 DEF Opened, NoEntry, Entry
  <2>3. ASSUME NEW o \in Entry, NEW m \in BOOLEAN
        PROVE  /\ [o EXCEPT !.mutating = m] \in Entry
               /\ [o EXCEPT !.mutating = m].state = o.state
               /\ [o EXCEPT !.mutating = m].mutating = m
    BY DEF Entry
  <2>4. (r \in Mutating) \in BOOLEAN
    OBVIOUS
  <2>5. p \in Entry /\ p.state = "open" /\ p.mutating = (r \in Mutating)
    BY <2>2, <2>3, <2>4, Zenon
  <2> QED BY <2>5
<1>00. /\ entries' = [Swept(entries) EXCEPT ![r] = p]
      /\ verdict[r].by = "nobody" /\ r \in Waited /\ r \notin cancelled
      /\ \A q \in Requests : sending'[q] = sending[q] /\ channel'[q] = channel[q]
  <2>1. waiter[r] \in {"none", "coming"} /\ e.state # "decided"
    BY DEF AwaitPark
  <2>2. verdict[r].by = "nobody" /\ r \notin cancelled
    BY <1>1, <1>2, <2>1 DEF EntryInv, VerdictInv
  <2>3. sending[r] = NoDecision /\ channel[r] = NoDecision
    BY <1>2, <2>2 DEF VerdictInv
  <2> QED BY <1>2, <2>2, <2>3 DEF AwaitPark, TypeOK
<1> HIDE DEF e, p
<1> USE DEF AwaitPark
<1>3. TypeOK'
  <2>1. entries' \in [Requests -> Entry]
    BY <1>0, <1>00, <1>1
  <2>2. waiter' \in [Requests -> WaiterState]
    BY <1>2 DEF TypeOK, WaiterState
  <2>3. /\ sending' \in [Requests -> Decision \cup {NoDecision}]
        /\ channel' \in [Requests -> Decision \cup {NoDecision}]
    BY <1>2 DEF TypeOK
  <2> QED BY <1>2, <2>1, <2>2, <2>3 DEF TypeOK
<1>4. ASSUME NEW q \in Requests PROVE (EntryInv(q, entries[q]))'
  <2>1. CASE q = r
    BY <1>0, <1>00, <1>1, <1>2, <2>1, ZenonT(60) DEF TypeOK, EntryInv
  <2>2. CASE q # r
    BY <1>00, <1>1, <1>2, <2>2 DEF TypeOK, EntryInv
  <2> QED BY <2>1, <2>2
<1>5. ASSUME NEW q \in Requests PROVE VerdictInv(q)'
  BY <1>0, <1>00, <1>1, <1>2 DEF TypeOK, EntryInv, VerdictInv
<1>6. GrantStands'
  BY <1>2 DEF GrantStands
<1> QED BY <1>3, <1>4, <1>5, <1>6 DEF IInv

LEMMA ReceiveKeeps == ASSUME IInv, NEW r \in Requests, Receive(r) PROVE IInv'
<1>1. /\ TypeOK /\ GrantStands
      /\ \A q \in Requests : EntryInv(q, entries[q]) /\ VerdictInv(q)
  BY DEF IInv
<1> USE DEF Receive
<1>2. TypeOK'
  BY <1>1 DEF TypeOK, WaiterState
<1>3. ASSUME NEW q \in Requests PROVE (EntryInv(q, entries[q]))'
  BY <1>1 DEF TypeOK, EntryInv, VerdictInv
<1>4. ASSUME NEW q \in Requests PROVE VerdictInv(q)'
  BY <1>1 DEF TypeOK, EntryInv, VerdictInv
<1>5. GrantStands'
  BY <1>1 DEF GrantStands
<1> QED BY <1>2, <1>3, <1>4, <1>5 DEF IInv

LEMMA GiveUpKeeps == ASSUME IInv, NEW r \in Requests, GiveUp(r) PROVE IInv'
<1>1. /\ TypeOK /\ GrantStands
      /\ \A q \in Requests : EntryInv(q, entries[q]) /\ VerdictInv(q)
  BY DEF IInv
<1> USE DEF GiveUp
<1>2. TypeOK'
  BY <1>1 DEF TypeOK, WaiterState
<1>3. ASSUME NEW q \in Requests PROVE (EntryInv(q, entries[q]))'
  BY <1>1 DEF TypeOK, EntryInv, VerdictInv
<1>4. ASSUME NEW q \in Requests PROVE VerdictInv(q)'
  BY <1>1, GateAssumption DEF TypeOK, EntryInv, VerdictInv
<1>5. GrantStands'
  BY <1>1 DEF GrantStands
<1> QED BY <1>2, <1>3, <1>4, <1>5 DEF IInv

LEMMA LeaveKeeps == ASSUME IInv, NEW r \in Requests, Leave(r) PROVE IInv'
<1>1. /\ TypeOK /\ GrantStands
      /\ \A q \in Requests : EntryInv(q, entries[q]) /\ VerdictInv(q)
  BY DEF IInv
<1>0. NoEntry \in Entry /\ NoEntry.state = "absent"
  BY DEF NoEntry, Entry
<1> USE DEF Leave
<1>2. TypeOK'
  BY <1>0, <1>1 DEF TypeOK, WaiterState
<1>3. ASSUME NEW q \in Requests PROVE (EntryInv(q, entries[q]))'
  BY <1>0, <1>1 DEF TypeOK, EntryInv, VerdictInv
<1>4. ASSUME NEW q \in Requests PROVE VerdictInv(q)'
  BY <1>0, <1>1 DEF TypeOK, EntryInv, VerdictInv
<1>5. GrantStands'
  BY <1>0, <1>1 DEF GrantStands
<1> QED BY <1>2, <1>3, <1>4, <1>5 DEF IInv

LEMMA EndContextKeeps == ASSUME IInv, NEW r \in Requests, EndContext(r) PROVE IInv'
<1>1. /\ TypeOK /\ GrantStands
      /\ \A q \in Requests : EntryInv(q, entries[q]) /\ VerdictInv(q)
  BY DEF IInv
<1> USE DEF EndContext
<1>2. TypeOK'
  BY <1>1 DEF TypeOK, WaiterState
<1>3. ASSUME NEW q \in Requests PROVE (EntryInv(q, entries[q]))'
  BY <1>1 DEF TypeOK, EntryInv, VerdictInv
<1>4. ASSUME NEW q \in Requests PROVE VerdictInv(q)'
  BY <1>1 DEF TypeOK, EntryInv, VerdictInv
<1>5. GrantStands'
  BY <1>1 DEF GrantStands
<1> QED BY <1>2, <1>3, <1>4, <1>5 DEF IInv

LEMMA ExpireKeeps == ASSUME IInv, NEW r \in Requests, Expire(r) PROVE IInv'
<1>1. /\ TypeOK /\ GrantStands
      /\ \A q \in Requests : EntryInv(q, entries[q]) /\ VerdictInv(q)
  BY DEF IInv
<1> USE DEF Expire, Entry
<1>2. TypeOK'
  BY <1>1, ZenonT(60) DEF TypeOK, WaiterState
<1>3. ASSUME NEW q \in Requests PROVE (EntryInv(q, entries[q]))'
  BY <1>1 DEF TypeOK, EntryInv, VerdictInv
<1>4. ASSUME NEW q \in Requests PROVE VerdictInv(q)'
  BY <1>1 DEF TypeOK, EntryInv, VerdictInv
<1>5. GrantStands'
  BY <1>1 DEF GrantStands
<1> QED BY <1>2, <1>3, <1>4, <1>5 DEF IInv


\* Then the three that decide.
LEMMA ResolveKeeps == ASSUME IInv, NEW r \in Requests, NEW d \in Decision, Resolve(r, d) PROVE IInv'
<1> DEFINE S == {r}
<1>1. /\ TypeOK /\ GrantStands
      /\ \A q \in Requests : EntryInv(q, Swept(entries)[q]) /\ VerdictInv(q)
      /\ S \in SUBSET Requests
      /\ \A q \in S : Swept(entries)[q].state = "open"
  BY SweptKeeps DEF IInv, OpenOn, Resolve
<1>2. Decide(Swept(entries), S, d, "human", NoDecision)
      /\ UNCHANGED <<channel, waiter, outcome, ctxEnded>>
  BY DEF Resolve
<1>3. d \in Decision /\ NoDecision \in RuntimeMode \cup {NoDecision}
      /\ "human" \in Source \ {"nobody"}
  BY GateAssumption DEF Decision, Source
<1> HIDE DEF S
<1>4. DecidedBy(S, d, "human", NoDecision)
  <2>1. "human" # "release"
    OBVIOUS
  <2> QED BY <1>1, <1>2, <1>3, <2>1, DecideKeeps
<1>5. TypeOK'
  BY <1>1, <1>2, <1>4, GateAssumption DEF DecidedBy, TypeOK, Resolve
<1>6. ASSUME NEW q \in Requests PROVE (EntryInv(q, entries[q]))'
  BY <1>1, <1>2, <1>4 DEF DecidedBy, EntryInv, VerdictInv, TypeOK, Resolve, S
<1>7. ASSUME NEW q \in Requests PROVE VerdictInv(q)'
  BY <1>1, <1>2, <1>3, <1>4, GateAssumption DEF DecidedBy, EntryInv, VerdictInv, TypeOK, Resolve, S
<1>8. GrantStands'
  BY <1>1, <1>2, <1>4, GateAssumption DEF DecidedBy, GrantStands, TypeOK, Resolve, S
<1> QED BY <1>5, <1>6, <1>7, <1>8 DEF IInv

LEMMA CancelThreadKeeps == ASSUME IInv, NEW t \in Threads, CancelThread(t) PROVE IInv'
<1>0. PICK S \in SUBSET Requests : S = OpenOn(Swept(entries), t)
  BY DEF OpenOn
<1>1. /\ TypeOK /\ GrantStands
      /\ \A q \in Requests : EntryInv(q, Swept(entries)[q]) /\ VerdictInv(q)
      /\ S \in SUBSET Requests
      /\ \A q \in S : Swept(entries)[q].state = "open"
  BY <1>0, SweptKeeps DEF IInv, OpenOn
<1>2. Decide(Swept(entries), S, "decline", "cancel", NoDecision)
      /\ UNCHANGED <<channel, waiter, outcome, ctxEnded>>
  BY <1>0 DEF CancelThread
<1>3. "decline" \in Decision /\ NoDecision \in RuntimeMode \cup {NoDecision}
      /\ "cancel" \in Source \ {"nobody"}
  BY GateAssumption DEF Decision, Source
<1>4. DecidedBy(S, "decline", "cancel", NoDecision)
  <2> DEFINE d == "decline" by == "cancel"
  <2>1. d \in Decision /\ by \in Source \ {"nobody"} /\ by # "release"
    BY <1>3
  <2>2. Decide(Swept(entries), S, d, by, NoDecision)
    BY <1>2
  <2> HIDE DEF d, by
  <2>3. DecidedBy(S, d, by, NoDecision)
    BY <1>1, <1>3, <2>1, <2>2, DecideKeeps
  <2> QED BY <2>3 DEF d, by
<1>5. TypeOK'
  BY <1>0, <1>1, <1>2, <1>4, GateAssumption DEF DecidedBy, TypeOK, CancelThread, OpenOn
<1>6. ASSUME NEW q \in Requests PROVE (EntryInv(q, entries[q]))'
  BY <1>0, <1>1, <1>2, <1>4 DEF DecidedBy, EntryInv, VerdictInv, TypeOK, CancelThread, OpenOn
<1>7. ASSUME NEW q \in Requests PROVE VerdictInv(q)'
  BY <1>0, <1>1, <1>2, <1>3, <1>4, GateAssumption DEF DecidedBy, EntryInv, VerdictInv, TypeOK, CancelThread, OpenOn
<1>8. GrantStands'
  BY <1>0, <1>1, <1>2, <1>4, GateAssumption DEF DecidedBy, GrantStands, TypeOK, CancelThread, OpenOn
<1> QED BY <1>5, <1>6, <1>7, <1>8 DEF IInv

LEMMA ReleasePendingKeeps == ASSUME IInv, NEW t \in Threads, NEW mode \in RuntimeMode, ReleasePending(t, mode) PROVE IInv'
<1>0. PICK S \in SUBSET Requests :
        S = {q \in OpenOn(Swept(entries), t) :
               AllowsUnprompted(mode, Swept(entries)[q].mutating)}
  BY DEF OpenOn
<1>1. /\ TypeOK /\ GrantStands
      /\ \A q \in Requests : EntryInv(q, Swept(entries)[q]) /\ VerdictInv(q)
      /\ S \in SUBSET Requests
      /\ \A q \in S : Swept(entries)[q].state = "open"
  BY <1>0, SweptKeeps DEF IInv, OpenOn
<1>2. Decide(Swept(entries), S, "accept", "release", mode)
      /\ UNCHANGED <<channel, waiter, outcome, ctxEnded>>
  BY <1>0 DEF ReleasePending
<1>3. "accept" \in Decision /\ mode \in RuntimeMode \cup {NoDecision}
      /\ "release" \in Source \ {"nobody"}
  BY GateAssumption DEF Decision, Source
<1>4. DecidedBy(S, "accept", "release", mode)
  <2>1. \A q \in S : AllowsUnprompted(mode, Swept(entries)[q].mutating)
    BY <1>0
  <2> DEFINE d == "accept" by == "release"
  <2>2. d \in Decision /\ by \in Source \ {"nobody"}
    BY <1>3
  <2>3. Decide(Swept(entries), S, d, by, mode)
    BY <1>2
  <2> HIDE DEF d, by
  <2>4. DecidedBy(S, d, by, mode)
    BY <1>1, <1>3, <2>1, <2>2, <2>3, DecideKeeps
  <2> QED BY <2>4 DEF d, by
<1>5. TypeOK'
  BY <1>0, <1>1, <1>2, <1>4, GateAssumption DEF DecidedBy, TypeOK, ReleasePending
<1>6. ASSUME NEW q \in Requests PROVE (EntryInv(q, entries[q]))'
  BY <1>0, <1>1, <1>2, <1>4 DEF DecidedBy, EntryInv, VerdictInv, TypeOK, ReleasePending
<1>7. ASSUME NEW q \in Requests PROVE VerdictInv(q)'
  BY <1>0, <1>1, <1>2, <1>3, <1>4, GateAssumption DEF DecidedBy, EntryInv, VerdictInv, TypeOK, ReleasePending
<1>8. GrantStands'
  BY <1>0, <1>1, <1>2, <1>4, GateAssumption DEF DecidedBy, GrantStands, TypeOK, ReleasePending
<1> QED BY <1>5, <1>6, <1>7, <1>8 DEF IInv

LEMMA ClearSessionKeeps == ASSUME IInv, NEW t \in Threads, ClearSession(t) PROVE IInv'
<1>1. /\ TypeOK /\ GrantStands
      /\ \A q \in Requests : EntryInv(q, entries[q]) /\ VerdictInv(q)
  BY DEF IInv
<1> USE DEF ClearSession
<1>2. TypeOK'
  BY <1>1 DEF TypeOK, WaiterState
<1>3. ASSUME NEW q \in Requests PROVE (EntryInv(q, entries[q]))'
  BY <1>1 DEF TypeOK, EntryInv, VerdictInv
<1>4. ASSUME NEW q \in Requests PROVE VerdictInv(q)'
  BY <1>1 DEF TypeOK, EntryInv, VerdictInv
<1>5. GrantStands'
  BY <1>1 DEF GrantStands
<1> QED BY <1>2, <1>3, <1>4, <1>5 DEF IInv

LEMMA StepIInv == IInv /\ [Next]_vars => IInv'
<1> SUFFICES ASSUME IInv, [Next]_vars PROVE IInv'
  OBVIOUS
<1>1. ASSUME NEW r \in Requests, Open(r) PROVE IInv'
  BY <1>1, OpenKeeps
<1>2. ASSUME NEW r \in Requests, ResolveUnknown(r) PROVE IInv'
  BY <1>2, ResolveUnknownKeeps
<1>3. ASSUME NEW r \in Requests, NEW d \in Answers, Resolve(r, d) PROVE IInv'
  BY <1>3, ResolveKeeps, GateAssumption
<1>4. ASSUME NEW r \in Requests, Send(r) PROVE IInv'
  BY <1>4, SendKeeps
<1>5. ASSUME NEW r \in Requests, OnCancel(r) PROVE IInv'
  BY <1>5, OnCancelKeeps
<1>6. ASSUME NEW r \in Requests, AwaitDecided(r) PROVE IInv'
  BY <1>6, AwaitDecidedKeeps
<1>7. ASSUME NEW r \in Requests, AwaitPark(r) PROVE IInv'
  BY <1>7, AwaitParkKeeps
<1>8. ASSUME NEW r \in Requests, Receive(r) PROVE IInv'
  BY <1>8, ReceiveKeeps
<1>9. ASSUME NEW r \in Requests, GiveUp(r) PROVE IInv'
  BY <1>9, GiveUpKeeps
<1>10. ASSUME NEW r \in Requests, Leave(r) PROVE IInv'
  BY <1>10, LeaveKeeps
<1>11. ASSUME NEW r \in Requests, EndContext(r) PROVE IInv'
  BY <1>11, EndContextKeeps
<1>12. ASSUME NEW r \in Requests, Expire(r) PROVE IInv'
  BY <1>12, ExpireKeeps
<1>13. ASSUME NEW t \in Threads, CancelThread(t) PROVE IInv'
  BY <1>13, CancelThreadKeeps
<1>14. ASSUME NEW t \in Threads, NEW mode \in Modes, ReleasePending(t, mode) PROVE IInv'
  BY <1>14, ReleasePendingKeeps, GateAssumption
<1>15. ASSUME NEW t \in Threads, ClearSession(t) PROVE IInv'
  BY <1>15, ClearSessionKeeps
<1>16. ASSUME UNCHANGED vars PROVE IInv'
  BY <1>16 DEF vars, IInv, TypeOK, EntryInv, VerdictInv, GrantStands
<1> QED BY <1>1, <1>2, <1>3, <1>4, <1>5, <1>6, <1>7, <1>8, <1>9, <1>10, <1>11,
           <1>12, <1>13, <1>14, <1>16, <1>15 DEF Next

LEMMA IInvImplies ==
    IInv => /\ TypeOK /\ ParkedIsReachable /\ ReleaseObeysMatrix
            /\ GrantStands /\ CancelNeverContradicts
<1> SUFFICES ASSUME IInv
             PROVE  ParkedIsReachable /\ ReleaseObeysMatrix /\ CancelNeverContradicts
  BY DEF IInv
<1> QED BY DEF IInv, TypeOK, EntryInv, VerdictInv, ParkedIsReachable,
               ReleaseObeysMatrix, CancelNeverContradicts

LEMMA GateInvariant == SafeSpec => []IInv
<1> QED BY InitIInv, StepIInv, PTL DEF SafeSpec

\* The gate's maps, channels and waiters keep their types.
THEOREM GateTypeOK == SafeSpec => []TypeOK
<1> QED BY GateInvariant, IInvImplies, PTL

\* However Resolve, CancelThread, ReleasePending and the tombstone sweep
\* interleave with a tool call that parks, the call can be reached: its request
\* is open, or its answer is in its own channel or about to be.
THEOREM ParkedCallsAreReachable == SafeSpec => []ParkedIsReachable
<1> QED BY GateInvariant, IInvImplies, PTL

\* A mode change answers only cards whose action, by its real class, the new
\* mode lets through without asking.
THEOREM ReleasesObeyTheMatrix == SafeSpec => []ReleaseObeysMatrix
<1> QED BY GateInvariant, IInvImplies, PTL

\* An "accept for session" that is in force was given by a human, on a card
\* raised after the thread's last cancellation.
THEOREM SessionGrantsStand == SafeSpec => []GrantStands
<1> QED BY GateInvariant, IInvImplies, PTL

\* A provider is told "cancelled" only about requests no human answered.
THEOREM CancelsNeverContradict == SafeSpec => []CancelNeverContradicts
<1> QED BY GateInvariant, IInvImplies, PTL

-----------------------------------------------------------------------------
(***************************************************************************)
(* Refinement.                                                             *)
(***************************************************************************)

LEMMA RefinesInit == Init => Promise!Init
<1> QED BY DEF Init, Promise!Init, AskerOf, NoVerdict

\* Each action of one request maps to an action of the promise or a stutter.
LEMMA RefinesStep == IInv /\ [Next]_vars => [Promise!Next]_(Promise!vars)
<1> SUFFICES ASSUME IInv, [Next]_vars PROVE [Promise!Next]_(Promise!vars)
  OBVIOUS
<1>1. /\ TypeOK
      /\ \A r \in Requests : EntryInv(r, entries[r]) /\ VerdictInv(r)
      /\ \A r \in Requests : EntryInv(r, Swept(entries)[r])
      /\ \A r \in Requests : Swept(entries)[r].state # "absent" => Swept(entries)[r] = entries[r]
      /\ \A r \in Requests : waiter[r] = "coming" => Swept(entries)[r] = entries[r]
  BY SweptKeeps DEF IInv
<1> DEFINE Quiet == UNCHANGED <<waiter, outcome, verdict>>
<1>2. ASSUME Quiet PROVE UNCHANGED Promise!vars
  BY <1>2 DEF Promise!vars, AskerOf
<1>3. ASSUME NEW r \in Requests, Open(r) PROVE Promise!Register(r)
  BY <1>1, <1>3 DEF Open, Promise!Register, AskerOf, TypeOK
<1>4. ASSUME NEW r \in Requests, NEW d \in Answers, Resolve(r, d)
      PROVE  Promise!Answer({r}, d)
  BY <1>1, <1>4 DEF Resolve, Decide, Promise!Answer, AskerOf, TypeOK, EntryInv, VerdictInv
<1>5. ASSUME NEW t \in Threads, CancelThread(t)
      PROVE  \E S \in SUBSET Requests : Promise!Answer(S, "decline")
  <2> DEFINE S == OpenOn(Swept(entries), t)
  <2>1. S \in SUBSET Requests
    BY DEF OpenOn
  <2>2. \A q \in S : waiter[q] \notin {"none", "done"} /\ verdict[q].decision = NoDecision
    BY <1>1 DEF OpenOn, EntryInv, VerdictInv
  <2>3. /\ verdict' = [q \in Requests |-> IF q \in S THEN
                        [by |-> "cancel", decision |-> "decline", mode |-> NoDecision] ELSE verdict[q]]
        /\ UNCHANGED <<waiter, outcome>>
    BY <1>5 DEF CancelThread, Decide
  <2> HIDE DEF S
  <2>4. Promise!Answer(S, "decline")
    BY <2>1, <2>2, <2>3 DEF Promise!Answer, AskerOf
  <2> QED BY <2>1, <2>4
<1>6. ASSUME NEW t \in Threads, NEW mode \in Modes, ReleasePending(t, mode)
      PROVE  \E S \in SUBSET Requests : Promise!Answer(S, "accept")
  <2> DEFINE S == {q \in OpenOn(Swept(entries), t) :
                      AllowsUnprompted(mode, Swept(entries)[q].mutating)}
  <2>1. S \in SUBSET Requests
    BY DEF OpenOn
  <2>2. \A q \in S : waiter[q] \notin {"none", "done"} /\ verdict[q].decision = NoDecision
    BY <1>1 DEF OpenOn, EntryInv, VerdictInv
  <2>3. /\ verdict' = [q \in Requests |-> IF q \in S THEN
                        [by |-> "release", decision |-> "accept", mode |-> mode] ELSE verdict[q]]
        /\ UNCHANGED <<waiter, outcome>>
    BY <1>6 DEF ReleasePending, Decide
  <2> HIDE DEF S
  <2>4. Promise!Answer(S, "accept")
    BY <2>1, <2>2, <2>3 DEF Promise!Answer, AskerOf
  <2> QED BY <2>1, <2>4
<1>7. ASSUME NEW r \in Requests, AwaitDecided(r) PROVE Promise!Serve(r)
  BY <1>1, <1>7 DEF AwaitDecided, Promise!Serve, AskerOf, TypeOK, EntryInv, VerdictInv
<1>8. ASSUME NEW r \in Requests, AwaitPark(r) PROVE Promise!Block(r)
  BY <1>1, <1>8, ZenonT(60) DEF AwaitPark, Promise!Block, AskerOf, TypeOK, EntryInv, VerdictInv
<1>9. ASSUME NEW r \in Requests, Receive(r) PROVE Promise!Serve(r)
  BY <1>1, <1>9 DEF Receive, Promise!Serve, AskerOf, TypeOK, VerdictInv
<1>10. ASSUME NEW r \in Requests, GiveUp(r) PROVE Promise!GiveUp(r)
  BY <1>1, <1>10 DEF GiveUp, Promise!GiveUp, AskerOf, TypeOK
<1>11. ASSUME NEW r \in Requests, Leave(r) PROVE Promise!Withdraw(r)
  BY <1>1, <1>11, GateAssumption DEF Leave, Promise!Withdraw, AskerOf, TypeOK, VerdictInv, Decision
<1>12. ASSUME NEW r \in Requests,
              ResolveUnknown(r) \/ Send(r) \/ OnCancel(r) \/ EndContext(r) \/ Expire(r)
       PROVE  Quiet
  BY <1>12 DEF ResolveUnknown, Send, OnCancel, EndContext, Expire
<1>13. ASSUME NEW t \in Threads, ClearSession(t) PROVE Quiet
  BY <1>13 DEF ClearSession
<1>14. CASE UNCHANGED vars
  BY <1>2, <1>14 DEF vars
<1>15. CASE Next
  <2>1. \A d \in Answers : d \in Decision
    BY GateAssumption
  <2>2. "decline" \in Decision /\ "accept" \in Decision
    BY DEF Decision
  <2>a. Promise!Decision = Decision
    BY DEF Promise!Decision, Decision
  <2>3. ASSUME NEW r \in Requests, NEW d \in Answers, Resolve(r, d) PROVE Promise!Next
    <3>1. {r} \in SUBSET Requests /\ d \in Decision
      BY <2>1
    <3> QED BY <1>4, <2>a, <2>3, <3>1 DEF Promise!Next
  <2>4. ASSUME NEW t \in Threads, CancelThread(t) PROVE Promise!Next
    BY <1>5, <2>a, <2>2, <2>4 DEF Promise!Next
  <2>5. ASSUME NEW t \in Threads, NEW mode \in Modes, ReleasePending(t, mode) PROVE Promise!Next
    BY <1>6, <2>a, <2>2, <2>5 DEF Promise!Next
  <2>6. ASSUME NEW r \in Requests, Open(r) PROVE Promise!Next
    BY <1>3, <2>6 DEF Promise!Next
  <2>7. ASSUME NEW r \in Requests, AwaitDecided(r) \/ Receive(r) PROVE Promise!Next
    BY <1>7, <1>9, <2>7 DEF Promise!Next
  <2>8. ASSUME NEW r \in Requests, AwaitPark(r) PROVE Promise!Next
    BY <1>8, <2>8 DEF Promise!Next
  <2>9. ASSUME NEW r \in Requests, GiveUp(r) \/ Leave(r) PROVE Promise!Next
    BY <1>10, <1>11, <2>9 DEF Promise!Next
  <2> HIDE DEF Quiet
  <2>10. Promise!Next \/ Quiet
    BY <1>12, <1>15, <1>13, <2>3, <2>4, <2>5, <2>6, <2>7, <2>8, <2>9 DEF Next
  <2> QED BY <1>2, <2>10
<1> QED BY <1>14, <1>15

\* The gate, with its locks, channels, tombstones and sweeps, implements the
\* safety of the promise: one answer per request, which never changes, and an
\* asker that leaves with that answer or because its own context ended.
THEOREM GateImplementsPromise == SafeSpec => Promise!SafeSpec
<1> QED BY GateInvariant, RefinesInit, RefinesStep, PTL DEF SafeSpec, Promise!SafeSpec
=============================================================================
