---------------------------- MODULE EngineProofs ----------------------------
(***************************************************************************)
(* Proofs about Engine, for any threads, commands and queue size.          *)
(*                                                                         *)
(* What makes the invariant inductive is Coupled and InHand: what memory   *)
(* and log may say of the same thread while a command is on its way from   *)
(* Decide to the swap and DELETE handlers cut in, and why the events in    *)
(* the worker's hand still fit the thread they will be applied to.         *)
(***************************************************************************)
EXTENDS Engine, ThreadRulesProofs

\* The worker is a record, and rows holds sequences of batches.
Shape ==
    /\ worker = [stage |-> worker.stage, id |-> worker.id, events |-> worker.events]
    /\ \E S : rows \in [Threads -> Seq(S)]

\* A command past the receipt check has none yet: only the worker writes them.
NoReceiptYet == worker.stage \in {"decide", "commit"} => worker.id \notin receipts

\* Every thread, in memory or on disk, is sound.
AllSound ==
    \A t \in Threads : /\ mem[t] = NoThread \/ Sound(mem[t])
                       /\ disk[t] = NoThread \/ Sound(disk[t])

Fits(t, c, es) == Accepts(t, c) /\ es = Decide(t, c)

\* The events in hand were decided on the thread as it still is, or the thread
\* has been forgotten since and they come to nothing.
InHand ==
    LET t == Target(worker.id)
        c == Cmd(worker.id)
    IN  worker.stage \in {"commit", "swap"} =>
          \/ Fits(mem[t], c, worker.events)
          \/ /\ mem[t] = NoThread
             /\ Apply(NoThread, worker.events) = NoThread
             /\ worker.stage = "commit" =>
                   disk[t] = NoThread \/ Fits(disk[t], c, worker.events)

\* Memory and log agree, or one of them has nothing.
Coupled ==
    \A t \in Threads :
        IF Swapping(t)
        THEN \/ disk[t] \in {NoThread, Apply(mem[t], worker.events)}
             \/ Apply(mem[t], worker.events) = NoThread
        ELSE mem[t] = disk[t] \/ mem[t] = NoThread \/ disk[t] = NoThread

\* For a thread no write overtook, only a DELETE half done makes a difference.
Follows ==
    \A t \in Threads \ torn :
        LET due == IF Swapping(t) THEN Apply(mem[t], worker.events) ELSE mem[t] IN
        disk[t] = due \/ (t \in erasing /\ disk[t] = NoThread)

IInv ==
    /\ TypeOK /\ Shape /\ NoReceiptYet /\ AllSound /\ InHand /\ Coupled /\ Follows
    /\ AckedIsDurable /\ RunsAtMostOnce

-----------------------------------------------------------------------------
LEMMA TargetType == \A id \in Commands : Target(id) \in Threads /\ Cmd(id) \in Command
BY EngineAssumption DEF Target, Cmd

\* Deciding on a thread and applying the events keeps it sound.
LEMMA FitsSound ==
    ASSUME NEW t, t = NoThread \/ Sound(t), NEW c \in Command, NEW es, Fits(t, c, es)
    PROVE  Apply(t, es) = NoThread \/ Sound(Apply(t, es))
BY NoThreadSound, HandleSound DEF Fits

\* The same events applied to another version of the thread.
LEMMA FitsElsewhere ==
    ASSUME NEW t, t = NoThread \/ Sound(t), NEW d, d = NoThread \/ Sound(d),
           t = d \/ t = NoThread \/ d = NoThread,
           NEW c \in Command, NEW es, Fits(t, c, es)
    PROVE  /\ Apply(d, es) = NoThread \/ Sound(Apply(d, es))
           /\ Apply(d, es) \in {NoThread, Apply(t, es)} \/ Apply(t, es) = NoThread
<1>1. CASE t = d
  BY <1>1, FitsSound
<1>2. CASE t = NoThread /\ d # NoThread
  BY <1>2, OverSound DEF Fits
<1>3. CASE t # NoThread /\ d = NoThread
  BY <1>3, NothingFromNoThread DEF Fits
<1> QED BY <1>1, <1>2, <1>3

LEMMA InitIInv == Init => IInv
<1> SUFFICES ASSUME Init PROVE IInv
  OBVIOUS
<1> USE DEF Init
<1>1. TypeOK
  BY EngineAssumption DEF TypeOK, Idle, Stage
<1>2. Shape
  BY DEF Shape, Idle
<1>3. RunsAtMostOnce
  BY DEF RunsAtMostOnce
<1> QED
  BY <1>1, <1>2, <1>3
  DEF IInv, NoReceiptYet, AllSound, InHand, Coupled, Follows, Swapping, AckedIsDurable, Idle

-----------------------------------------------------------------------------
LEMMA DispatchKeeps == ASSUME IInv, NEW id \in Commands, Dispatch(id) PROVE IInv'
<1> USE DEF Dispatch, IInv
<1>1. TypeOK'
  BY EngineAssumption DEF TypeOK
<1>2. Shape' /\ NoReceiptYet' /\ AllSound' /\ AckedIsDurable' /\ RunsAtMostOnce'
  BY DEF Shape, NoReceiptYet, AllSound, AckedIsDurable, RunsAtMostOnce
<1>3. InHand' /\ Coupled' /\ Follows'
  BY DEF InHand, Coupled, Follows, Swapping
<1> QED BY <1>1, <1>2, <1>3

LEMMA TakeKeeps == ASSUME IInv, Take PROVE IInv'
<1> USE DEF Take, IInv
<1>1. worker' = [stage |-> "look", id |-> Head(queue), events |-> <<>>]
  BY DEF Idle
<1>2. Head(queue) \in Commands /\ Tail(queue) \in Seq(Commands) /\ Len(Tail(queue)) <= QueueSize
  BY EngineAssumption DEF TypeOK
<1>3. TypeOK'
  BY <1>1, <1>2 DEF TypeOK, Stage
<1>4. NoReceiptYet' /\ AllSound' /\ AckedIsDurable' /\ RunsAtMostOnce'
  BY <1>1 DEF NoReceiptYet, AllSound, AckedIsDurable, RunsAtMostOnce
<1>5. InHand' /\ Coupled' /\ Follows'
  BY <1>1 DEF InHand, Coupled, Follows, Swapping, Idle
<1>6. Shape'
  BY <1>1 DEF Shape
<1> QED BY <1>3, <1>4, <1>5, <1>6

LEMMA SeenCommandKeeps == ASSUME IInv, SeenCommand PROVE IInv'
<1> USE DEF SeenCommand, IInv
<1>1. \/ worker' = Idle /\ acked' = acked \cup {worker.id} /\ worker.id \in receipts
      \/ /\ worker' = [stage |-> "decide", id |-> worker.id, events |-> worker.events]
         /\ acked' = acked /\ worker.id \notin receipts
  BY DEF Shape
<1>2. TypeOK'
  BY <1>1 DEF TypeOK, Stage, Idle
<1>3. Shape' /\ NoReceiptYet' /\ AllSound' /\ AckedIsDurable' /\ RunsAtMostOnce'
  BY <1>1 DEF Shape, NoReceiptYet, AllSound, AckedIsDurable, RunsAtMostOnce, Idle
<1>4. InHand' /\ Coupled' /\ Follows'
  BY <1>1 DEF InHand, Coupled, Follows, Swapping, Idle
<1> QED BY <1>2, <1>3, <1>4

LEMMA DecidedKeeps == ASSUME IInv, Decided PROVE IInv'
<1> USE DEF Decided, IInv
<1> DEFINE t == Target(worker.id)
           c == Cmd(worker.id)
<1>1. \/ worker' = Idle
      \/ /\ worker' = [stage |-> "commit", id |-> worker.id, events |-> Decide(mem[t], c)]
         /\ Accepts(mem[t], c)
  BY DEF Shape
<1>2. TypeOK'
  BY <1>1 DEF TypeOK, Stage, Idle
<1>3. NoReceiptYet' /\ AllSound' /\ AckedIsDurable' /\ RunsAtMostOnce'
  BY <1>1 DEF NoReceiptYet, AllSound, AckedIsDurable, RunsAtMostOnce, Idle
<1>6. Shape'
  BY <1>1 DEF Shape, Idle
<1>4. InHand'
  BY <1>1 DEF InHand, Fits, Idle
<1>5. Coupled' /\ Follows'
  BY <1>1 DEF Coupled, Follows, Swapping, Idle
<1> QED BY <1>2, <1>3, <1>4, <1>5, <1>6

LEMMA CommitFailsKeeps == ASSUME IInv, CommitFails PROVE IInv'
<1> USE DEF CommitFails, IInv
<1>1. TypeOK'
  BY DEF TypeOK, Stage, Idle
<1>2. Shape' /\ NoReceiptYet' /\ AllSound' /\ AckedIsDurable' /\ RunsAtMostOnce'
  BY DEF Shape, NoReceiptYet, AllSound, AckedIsDurable, RunsAtMostOnce, Idle
<1>3. InHand' /\ Coupled' /\ Follows'
  BY DEF InHand, Coupled, Follows, Swapping, Idle
<1> QED BY <1>1, <1>2, <1>3

LEMMA CommitKeeps == ASSUME IInv, Commit PROVE IInv'
<1> USE DEF Commit, IInv
<1> DEFINE t == Target(worker.id)
           c == Cmd(worker.id)
           es == worker.events
<1>0. /\ worker.id \in Commands /\ t \in Threads /\ c \in Command
      /\ worker.id \notin receipts
  BY TargetType DEF TypeOK, NoReceiptYet
<1>1. /\ worker' = [stage |-> "swap", id |-> worker.id, events |-> es]
      /\ \A u \in Threads \ {t} : disk'[u] = disk[u] /\ rows'[u] = rows[u]
      /\ disk'[t] = Apply(disk[t], es)
      /\ disk' \in [Threads -> {disk'[u] : u \in Threads}]
  BY <1>0 DEF Shape, TypeOK
<1>2. /\ disk'[t] = NoThread \/ Sound(disk'[t])
      /\ disk'[t] \in {NoThread, Apply(mem[t], es)} \/ Apply(mem[t], es) = NoThread
  <2>1. PICK m, d, e : m = mem[t] /\ d = disk[t] /\ e = es
    OBVIOUS
  <2>2. /\ m = NoThread \/ Sound(m)
        /\ d = NoThread \/ Sound(d)
        /\ m = d \/ m = NoThread \/ d = NoThread
    BY <1>0, <2>1 DEF AllSound, Coupled, Swapping
  <2>3. \/ Fits(m, c, e)
        \/ /\ m = NoThread /\ Apply(NoThread, e) = NoThread
           /\ d = NoThread \/ Fits(d, c, e)
    BY <2>1 DEF InHand
  <2>4. CASE Fits(m, c, e)
    <3>1. PICK k : k = c
      OBVIOUS
    <3>2. k \in Command /\ Fits(m, k, e)
      BY <1>0, <2>4, <3>1
    <3>3. /\ Apply(d, e) = NoThread \/ Sound(Apply(d, e))
          /\ Apply(d, e) \in {NoThread, Apply(m, e)} \/ Apply(m, e) = NoThread
      BY <2>2, <3>2, FitsElsewhere
    <3> QED BY <1>1, <2>1, <3>3
  <2>5. CASE m = NoThread /\ Apply(NoThread, e) = NoThread /\ d = NoThread
    BY <1>1, <2>1, <2>5
  <2>6. CASE m = NoThread /\ Apply(NoThread, e) = NoThread /\ Fits(d, c, e)
    <3>1. Apply(d, e) = NoThread \/ Sound(Apply(d, e))
      BY <1>0, <2>2, <2>6, FitsSound
    <3> QED BY <1>1, <2>1, <2>6, <3>1
  <2> QED BY <2>3, <2>4, <2>5, <2>6
<1>3. TypeOK'
  <2>1. \A u \in Threads : disk'[u] \in Thread \cup {NoThread}
    BY <1>1, <1>2 DEF TypeOK, Sound
  <2>2. disk' \in [Threads -> Thread \cup {NoThread}]
    BY <1>1, <2>1
  <2> QED BY <1>0, <1>1, <2>2 DEF TypeOK, Stage
<1>4. Shape'
  <2> DEFINE b == [id |-> worker.id, events |-> es]
  <2>1. PICK S : rows \in [Threads -> Seq(S)]
    BY DEF Shape
  <2>2. rows' \in [Threads -> Seq(S \cup {b})]
    <3>1. \A u \in Threads : rows[u] \in Seq(S \cup {b})
      BY <2>1
    <3>2. Append(rows[t], b) \in Seq(S \cup {b})
      <4> HIDE DEF b
      <4> QED BY <1>0, <3>1
    <3> QED BY <1>0, <2>1, <3>1, <3>2
  <2> QED BY <1>1, <2>2 DEF Shape
<1>5. NoReceiptYet' /\ AckedIsDurable'
  BY <1>1 DEF NoReceiptYet, AckedIsDurable
<1>6. AllSound'
  BY <1>1, <1>2 DEF AllSound
<1>7. InHand'
  BY <1>1 DEF InHand
<1>8. Coupled'
  BY <1>1, <1>2 DEF Coupled, Swapping
<1>9. Follows'
  <2> SUFFICES ASSUME NEW u \in Threads \ torn
               PROVE  LET due == IF Swapping(u)' THEN Apply(mem[u], worker'.events) ELSE mem[u] IN
                      disk'[u] = due \/ (u \in erasing /\ disk'[u] = NoThread)
    BY DEF Follows
  <2>1. CASE u # t
    BY <1>1, <2>1 DEF Follows, Swapping
  <2>2. CASE u = t
    <3>1. disk[t] = mem[t] \/ (t \in erasing /\ disk[t] = NoThread)
      BY <2>2 DEF Follows, Swapping
    <3>2. Swapping(t)'
      BY <1>1 DEF Swapping
    <3>3. CASE disk[t] = mem[t]
      BY <1>1, <2>2, <3>2, <3>3
    <3>4. CASE t \in erasing /\ disk[t] = NoThread /\ mem[t] # NoThread
      <4>1. Fits(mem[t], c, es)
        BY <3>4 DEF InHand
      <4>2. Apply(NoThread, es) = NoThread
        <5>1. PICK m, e : m = mem[t] /\ e = es
          OBVIOUS
        <5> QED BY <1>0, <3>4, <4>1, <5>1, NothingFromNoThread DEF Fits
      <4> QED BY <1>1, <2>2, <3>4, <4>2
    <3> QED BY <3>1, <3>3, <3>4
  <2> QED BY <2>1, <2>2
<1>10. RunsAtMostOnce'
  <2> DEFINE b == [id |-> worker.id, events |-> es]
             ids(R) == {R[i].id : i \in DOMAIN R}
  <2>1. PICK R : R = rows[t]
    OBVIOUS
  <2>2. /\ rows'[t] = Append(R, b) /\ Len(R) \in Nat /\ DOMAIN R = 1..Len(R)
        /\ DOMAIN Append(R, b) = 1..(Len(R) + 1)
        /\ \A i \in 1..Len(R) : Append(R, b)[i] = R[i]
        /\ Append(R, b)[Len(R) + 1] = b
    <3>1. PICK S : R \in Seq(S)
      BY <1>0, <2>1 DEF Shape
    <3>2. rows'[t] = Append(R, b)
      BY <1>0, <2>1 DEF TypeOK
    <3> HIDE DEF b
    <3> QED BY <3>1, <3>2
  <2>3. b.id = worker.id
    OBVIOUS
  <2> HIDE DEF b
  <2>4. /\ \A i, j \in DOMAIN R : R[i].id = R[j].id => i = j
        /\ ids(R) = {id \in receipts : Target(id) = t}
    BY <1>0, <2>1 DEF RunsAtMostOnce
  <2>5. \A i \in 1..Len(R) : R[i].id # worker.id
    <3>1. \A i \in 1..Len(R) : R[i].id \in ids(R)
      BY <2>2
    <3> QED BY <1>0, <2>4, <3>1
  <2>6. PICK A, n : A = Append(R, b) /\ n = Len(R)
    OBVIOUS
  <2>7. /\ n \in Nat /\ DOMAIN R = 1..n /\ DOMAIN A = 1..(n + 1)
        /\ \A i \in 1..n : A[i].id = R[i].id /\ R[i].id # worker.id
        /\ A[n + 1].id = worker.id
    BY <2>2, <2>3, <2>5, <2>6
  <2>8. /\ \A i, j \in DOMAIN A : A[i].id = A[j].id => i = j
        /\ ids(A) = {id \in receipts' : Target(id) = t}
    <3>1. \A i, j \in DOMAIN A : A[i].id = A[j].id => i = j
      BY <2>4, <2>7
    <3>2. \A x : x \in ids(A) <=> x \in ids(R) \/ x = worker.id
      <4>1. 1..(n + 1) = 1..n \cup {n + 1}
        BY <2>7
      <4> QED BY <2>7, <4>1, SMTT(30)
    <3>3. \A x : x \in {id \in receipts' : Target(id) = t} <=>
                    x \in {id \in receipts : Target(id) = t} \/ x = worker.id
      OBVIOUS
    <3> QED BY <2>4, <3>1, <3>2, <3>3
  <2>9. \A u \in Threads \ {t} : {id \in receipts' : Target(id) = u} = {id \in receipts : Target(id) = u}
    OBVIOUS
  <2>10. \A u \in Threads \ {t} : rows'[u] = rows[u]
    BY <1>1
  <2>11. rows'[t] = A
    BY <2>2, <2>6
  <2> QED BY <2>4, <2>8, <2>9, <2>10, <2>11, SMTT(30) DEF RunsAtMostOnce
<1> QED BY <1>3, <1>4, <1>5, <1>6, <1>7, <1>8, <1>9, <1>10

LEMMA SwapKeeps == ASSUME IInv, Swap PROVE IInv'
<1> USE DEF Swap, IInv
<1> DEFINE t == Target(worker.id)
           c == Cmd(worker.id)
           es == worker.events
<1>0. worker.id \in Commands /\ t \in Threads /\ c \in Command
  BY TargetType DEF TypeOK
<1>1. /\ \A u \in Threads \ {t} : mem'[u] = mem[u]
      /\ mem'[t] = Apply(mem[t], es)
      /\ mem' \in [Threads -> {mem'[u] : u \in Threads}]
  BY <1>0 DEF TypeOK
<1>2. mem'[t] = NoThread \/ Sound(mem'[t])
  <2>1. PICK m, e : m = mem[t] /\ e = es
    OBVIOUS
  <2>2. Fits(m, c, e) \/ (m = NoThread /\ Apply(NoThread, e) = NoThread)
    BY <2>1 DEF InHand
  <2>3. m = NoThread \/ Sound(m)
    BY <1>0, <2>1 DEF AllSound
  <2> QED BY <1>0, <1>1, <2>1, <2>2, <2>3, FitsSound
<1>3. TypeOK'
  <2>1. \A u \in Threads : mem'[u] \in Thread \cup {NoThread}
    BY <1>1, <1>2 DEF TypeOK, Sound
  <2>2. mem' \in [Threads -> Thread \cup {NoThread}]
    BY <1>1, <2>1
  <2> QED BY <1>0, <2>2 DEF TypeOK, Stage, Idle
<1>4. Shape' /\ NoReceiptYet' /\ AckedIsDurable' /\ InHand'
  BY DEF Shape, NoReceiptYet, AckedIsDurable, InHand, Idle
<1>5. AllSound'
  BY <1>1, <1>2 DEF AllSound
<1>6. Coupled' /\ Follows'
  BY <1>1 DEF Coupled, Follows, Swapping, Idle
<1>7. RunsAtMostOnce'
  BY DEF RunsAtMostOnce
<1> QED BY <1>3, <1>4, <1>5, <1>6, <1>7

LEMMA EraseKeeps == ASSUME IInv, NEW t \in Threads, Erase(t) PROVE IInv'
<1> USE DEF Erase, IInv
<1>1. /\ disk'[t] = NoThread /\ rows'[t] = <<>>
      /\ \A u \in Threads \ {t} : disk'[u] = disk[u] /\ rows'[u] = rows[u]
  BY DEF TypeOK
<1>2. TypeOK'
  BY DEF TypeOK
<1>3. Shape'
  <2>1. PICK S : rows \in [Threads -> Seq(S)]
    BY DEF Shape
  <2>2. rows' \in [Threads -> Seq(S)]
    BY <2>1
  <2> QED BY <2>2 DEF Shape
<1>4. NoReceiptYet' /\ AckedIsDurable' /\ AllSound'
  BY <1>1 DEF NoReceiptYet, AckedIsDurable, AllSound
<1>5. InHand'
  BY <1>1 DEF InHand, TypeOK
<1>6. Coupled' /\ Follows'
  BY <1>1 DEF Coupled, Follows, Swapping
<1>7. RunsAtMostOnce'
  BY <1>1 DEF RunsAtMostOnce
<1> QED BY <1>2, <1>3, <1>4, <1>5, <1>6, <1>7

LEMMA ForgetKeeps == ASSUME IInv, NEW t \in Threads, Forget(t) PROVE IInv'
<1> USE DEF Forget, IInv
<1>1. mem'[t] = NoThread /\ \A u \in Threads \ {t} : mem'[u] = mem[u]
  BY DEF TypeOK
<1>2. TypeOK'
  BY DEF TypeOK
<1>3. Shape' /\ NoReceiptYet' /\ AckedIsDurable' /\ AllSound' /\ RunsAtMostOnce'
  BY <1>1 DEF Shape, NoReceiptYet, AckedIsDurable, AllSound, RunsAtMostOnce
<1>4. ASSUME worker.stage \in {"commit", "swap"}, Target(worker.id) = t,
             Fits(mem[t], Cmd(worker.id), worker.events), mem[t] # NoThread
      PROVE  Apply(NoThread, worker.events) = NoThread
  <2>1. PICK m, e : m = mem[t] /\ e = worker.events
    OBVIOUS
  <2>2. Cmd(worker.id) \in Command
    BY <1>4, TargetType DEF TypeOK
  <2> QED BY <1>4, <2>1, <2>2, NothingFromNoThread DEF Fits
<1>5. InHand'
  BY <1>1, <1>4 DEF InHand, Coupled, Swapping, TypeOK
<1>6. Coupled' /\ Follows'
  BY <1>1, <1>4 DEF Coupled, Follows, Swapping, InHand
<1> QED BY <1>2, <1>3, <1>5, <1>6

LEMMA RebootKeeps == ASSUME IInv, Reboot PROVE IInv'
<1> USE DEF Reboot, IInv
<1>1. TypeOK'
  BY EngineAssumption DEF TypeOK, Idle, Stage
<1>2. Shape' /\ NoReceiptYet' /\ AckedIsDurable' /\ AllSound' /\ RunsAtMostOnce' /\ InHand'
  BY DEF Shape, NoReceiptYet, AckedIsDurable, AllSound, RunsAtMostOnce, InHand, Idle
<1>3. Coupled' /\ Follows'
  BY DEF Coupled, Follows, Swapping, Idle
<1> QED BY <1>1, <1>2, <1>3

-----------------------------------------------------------------------------
LEMMA StepIInv == IInv /\ [Next]_vars => IInv'
<1> SUFFICES ASSUME IInv, [Next]_vars PROVE IInv'
  OBVIOUS
<1>1. CASE UNCHANGED vars
  BY <1>1 DEF vars, IInv, TypeOK, Shape, NoReceiptYet, AllSound, InHand, Coupled, Follows,
              Swapping, AckedIsDurable, RunsAtMostOnce
<1>2. ASSUME NEW id \in Commands, Dispatch(id) PROVE IInv'
  BY <1>2, DispatchKeeps
<1>3. CASE WorkerStep
  BY <1>3, TakeKeeps, SeenCommandKeeps, DecidedKeeps, CommitKeeps, CommitFailsKeeps, SwapKeeps
  DEF WorkerStep
<1>4. ASSUME NEW t \in Threads, Erase(t) \/ Forget(t) PROVE IInv'
  BY <1>4, EraseKeeps, ForgetKeeps
<1>5. CASE Reboot
  BY <1>5, RebootKeeps
<1> QED BY <1>1, <1>2, <1>3, <1>4, <1>5 DEF Next

LEMMA EngineInvariant == Spec => []IInv
BY InitIInv, StepIInv, PTL DEF Spec

\* The loop's state has its type, through crashes, retries and deletes.
THEOREM EngineTypeOK == Spec => []TypeOK
<1>1. IInv => TypeOK
  BY DEF IInv
<1> QED BY <1>1, EngineInvariant, PTL

\* Memory is what the log says, unless a DELETE was overtaken.
THEOREM MemoryFollowsTheLog == Spec => []MemoryMatchesLog
<1>1. IInv => MemoryMatchesLog
  BY DEF IInv, Follows, MemoryMatchesLog
<1> QED BY <1>1, EngineInvariant, PTL

\* A command runs at most once, however often it is sent.
THEOREM CommandsRunAtMostOnce == Spec => []RunsAtMostOnce
<1>1. IInv => RunsAtMostOnce
  BY DEF IInv
<1> QED BY <1>1, EngineInvariant, PTL

\* No crash undoes a command a caller was told had committed.
THEOREM AcksAreDurable == Spec => []AckedIsDurable
<1>1. IInv => AckedIsDurable
  BY DEF IInv
<1> QED BY <1>1, EngineInvariant, PTL

-----------------------------------------------------------------------------
(***************************************************************************)
(* What the log replays to, and which answers are in it.  The replay is a  *)
(* recursive function: that it exists, and that it goes on from where it   *)
(* was, is by induction on the number of batches.                          *)
(***************************************************************************)

Replaying(f, R, n) ==
    f = [k \in 0..n |-> IF k = 0 THEN NoThread ELSE Apply(f[k - 1], R[k].events)]

ReplayOf(R) ==
    LET after[n \in 0..Len(R)] ==
            IF n = 0 THEN NoThread ELSE Apply(after[n - 1], R[n].events)
    IN  after[Len(R)]

LEMMA ReplayingExists ==
    ASSUME NEW R PROVE \A n \in Nat : \E f : Replaying(f, R, n)
<1> DEFINE S == {n \in Nat : \E f : Replaying(f, R, n)}
<1>1. 0 \in S
  <2> DEFINE f == [k \in 0..0 |-> NoThread]
  <2>1. Replaying(f, R, 0)
    BY DEF Replaying
  <2> QED BY <2>1
<1>2. ASSUME NEW n \in Nat, n \in S PROVE n + 1 \in S
  <2>1. PICK f : Replaying(f, R, n)
    BY <1>2
  <2> DEFINE g == [k \in 0..(n + 1) |-> IF k = n + 1 THEN Apply(f[n], R[n + 1].events) ELSE f[k]]
  <2>2. \A k \in 0..n : g[k] = f[k]
    OBVIOUS
  <2>3. ASSUME NEW k \in 0..(n + 1)
        PROVE  g[k] = IF k = 0 THEN NoThread ELSE Apply(g[k - 1], R[k].events)
    <3>1. CASE k = n + 1
      BY <2>2, <3>1
    <3>2. CASE k \in 1..n
      BY <2>1, <2>2, <3>2 DEF Replaying
    <3>3. CASE k = 0
      BY <2>1, <2>2, <3>3 DEF Replaying
    <3> QED BY <3>1, <3>2, <3>3
  <2>4. Replaying(g, R, n + 1)
    BY <2>3 DEF Replaying
  <2> QED BY <2>4
<1> HIDE DEF S
<1>3. \A n \in Nat : n \in S
  BY <1>1, <1>2, Induction
<1> QED BY <1>3 DEF S

\* Two replays agree as far as their batches do.
LEMMA ReplayingAgrees ==
    ASSUME NEW R, NEW Q, NEW n \in Nat, NEW m \in Nat, n <= m, NEW f, NEW g,
           Replaying(f, R, n), Replaying(g, Q, m), \A k \in 1..n : R[k] = Q[k]
    PROVE  f[n] = g[n]
<1> DEFINE S == {k \in Nat : k <= n => f[k] = g[k]}
<1>1. 0 \in S
  BY DEF Replaying
<1>2. ASSUME NEW k \in Nat, k \in S PROVE k + 1 \in S
  <2> SUFFICES ASSUME k + 1 <= n PROVE f[k + 1] = g[k + 1]
    OBVIOUS
  <2>1. f[k] = g[k] /\ R[k + 1] = Q[k + 1]
    BY <1>2
  <2>2. f[k + 1] = Apply(f[k], R[k + 1].events)
    BY DEF Replaying
  <2>3. g[k + 1] = Apply(g[k], Q[k + 1].events)
    BY DEF Replaying
  <2> QED BY <2>1, <2>2, <2>3
<1> HIDE DEF S
<1>3. \A k \in Nat : k \in S
  BY <1>1, <1>2, Induction
<1> QED BY <1>3 DEF S

LEMMA Replayed ==
    ASSUME NEW R, Len(R) \in Nat
    PROVE  \E f : Replaying(f, R, Len(R)) /\ ReplayOf(R) = f[Len(R)]
<1> DEFINE g == CHOOSE f : Replaying(f, R, Len(R))
<1>1. Replaying(g, R, Len(R))
  BY ReplayingExists
<1>2. ReplayOf(R) = g[Len(R)]
  BY DEF ReplayOf, Replaying
<1> QED BY <1>1, <1>2

LEMMA ReplayNothing == ReplayOf(<<>>) = NoThread
<1>1. Len(<<>>) = 0
  OBVIOUS
<1>2. PICK f : Replaying(f, <<>>, 0) /\ ReplayOf(<<>>) = f[0]
  BY <1>1, Replayed
<1> QED BY <1>2 DEF Replaying

\* One batch more is applied to what the others came to.
LEMMA ReplayAppend ==
    ASSUME NEW S, NEW R \in Seq(S), NEW b \in S
    PROVE  ReplayOf(Append(R, b)) = Apply(ReplayOf(R), b.events)
<1>0. PICK n \in Nat : n = Len(R)
  OBVIOUS
<1>1. PICK Q : Q = Append(R, b)
  OBVIOUS
<1>2. Len(Q) = n + 1 /\ Q[n + 1] = b /\ \A k \in 1..n : R[k] = Q[k]
  BY <1>0, <1>1
<1>3. PICK f : Replaying(f, R, n) /\ ReplayOf(R) = f[n]
  BY <1>0, Replayed
<1>4. PICK g : Replaying(g, Q, n + 1) /\ ReplayOf(Q) = g[n + 1]
  BY <1>2, Replayed
<1>5. f[n] = g[n]
  BY <1>2, <1>3, <1>4, ReplayingAgrees
<1>6. g[n + 1] = Apply(g[n], Q[n + 1].events)
  BY <1>4 DEF Replaying
<1> QED BY <1>1, <1>2, <1>3, <1>4, <1>5, <1>6

Answers(id, r) == Cmd(id).type = "respond" /\ Cmd(id).request = r
Raises(id, r) == Cmd(id).type = "sessionSet" /\ Cmd(id).change.add = r

\* Every answer to r in R is followed by the raising of r again.
Reraised(R, r) ==
    \A i \in 1..Len(R) : Answers(R[i].id, r) => \E k \in i..Len(R) : Raises(R[k].id, r)

\* What memory comes to when the worker is done with what it has committed.
Due(t) == IF Swapping(t) THEN Apply(mem[t], worker.events) ELSE mem[t]

Answering(t, r) == worker.stage = "commit" /\ Target(worker.id) = t /\ Answers(worker.id, r)

\* Between two answers to one card only its raising can put it up, in memory as on
\* disk, and an answer on its way to the log was given while the card was up.
CardsReraised ==
    \A t \in Threads, r \in Requests :
        Pends(disk[t], r) \/ Pends(Due(t), r) \/ Answering(t, r) => Reraised(rows[t], r)

LogInv == LogIsSound /\ CardsReraised

\* Of any two equal answers in R, the card was raised in between.
Spaced(R) ==
    \A i, j \in DOMAIN R :
        i < j /\ Cmd(R[i].id).type = "respond" /\ Cmd(R[j].id) = Cmd(R[i].id)
        => \E k \in i..j : Raises(R[k].id, Cmd(R[i].id).request)

LEMMA AnswersSpaced == AnswersFollowCards <=> \A t \in Threads : Spaced(rows[t])
BY DEF AnswersFollowCards, Spaced, Raises

LEMMA DiskReplays == DiskIsReplay <=> \A t \in Threads : disk[t] = ReplayOf(rows[t])
BY DEF DiskIsReplay, Replay, ReplayOf

LEMMA InitLog == Init => LogInv
<1> SUFFICES ASSUME Init PROVE LogInv
  OBVIOUS
<1>1. DiskIsReplay
  BY DiskReplays, ReplayNothing DEF Init
<1>2. AnswersFollowCards
  BY DEF Init, AnswersFollowCards
<1>3. CardsReraised
  BY DEF Init, CardsReraised, Reraised
<1> QED BY <1>1, <1>2, <1>3 DEF LogInv, LogIsSound

\* A step that leaves the log alone, and puts up or answers no card whose answers are
\* not followed by its raising.
LEMMA LogStands ==
    ASSUME LogInv, rows' = rows, disk' = disk,
           \A t \in Threads, r \in Requests :
              Pends(Due(t), r)' \/ Answering(t, r)' =>
                 Pends(disk[t], r) \/ Pends(Due(t), r) \/ Answering(t, r)
    PROVE  LogInv'
<1>1. (\A t \in Threads : disk[t] = ReplayOf(rows[t]))'
  BY DiskReplays DEF LogInv, LogIsSound
<1>2. DiskIsReplay'
  BY <1>1 DEF DiskIsReplay, Replay, ReplayOf
<1>3. AnswersFollowCards'
  BY DEF LogInv, LogIsSound, AnswersFollowCards
<1>4. CardsReraised'
  BY DEF LogInv, CardsReraised
<1> QED BY <1>2, <1>3, <1>4 DEF LogInv, LogIsSound

LEMMA WorkKeepsLog ==
    ASSUME IInv, LogInv,
           (\E id \in Commands : Dispatch(id)) \/ Take \/ SeenCommand \/ CommitFails \/ UNCHANGED vars
    PROVE  LogInv'
<1>1. rows' = rows /\ disk' = disk /\ mem' = mem
  BY DEF Dispatch, Take, SeenCommand, CommitFails, vars
<1>2. worker' = worker \/ worker'.stage \in {"look", "idle", "decide"}
  <2>1. [worker EXCEPT !.stage = "decide"].stage = "decide"
    BY DEF IInv, Shape
  <2>2. [Idle EXCEPT !.stage = "look", !.id = Head(queue)].stage = "look" /\ Idle.stage = "idle"
    BY DEF Idle
  <2> QED BY <2>1, <2>2 DEF Dispatch, Take, SeenCommand, CommitFails, vars
<1>3. CASE worker' = worker
  BY <1>1, <1>3, LogStands DEF Due, Swapping, Answering
<1>4. CASE worker'.stage \in {"look", "idle", "decide"} /\ worker.stage # "swap"
  BY <1>1, <1>4, LogStands DEF Due, Swapping, Answering
<1>5. worker.stage = "swap" => worker' = worker
  BY DEF Dispatch, Take, SeenCommand, CommitFails, vars, Idle
<1> QED BY <1>2, <1>3, <1>4, <1>5

\* An answer is decided on while its card is up.
LEMMA DecidedKeepsLog == ASSUME IInv, LogInv, Decided PROVE LogInv'
<1> DEFINE t == Target(worker.id)
           c == Cmd(worker.id)
<1>1. rows' = rows /\ disk' = disk /\ mem' = mem /\ worker.stage = "decide"
  BY DEF Decided
<1>2. \/ worker'.stage = "idle"
      \/ worker'.stage = "commit" /\ worker'.id = worker.id /\ Accepts(mem[t], c)
  BY DEF Decided, IInv, Shape, Idle
<1>3. \A u \in Threads : Due(u) = mem[u] /\ Due(u)' = mem[u]
  BY <1>1, <1>2 DEF Due, Swapping
<1>4. ASSUME NEW u \in Threads, NEW r \in Requests, Answering(u, r)'
      PROVE  Pends(Due(u), r)
  <2>1. u = t /\ Accepts(mem[t], c) /\ c.type = "respond" /\ c.request = r
    BY <1>2, <1>4 DEF Answering, Answers, Target, Cmd
  <2>2. Pends(mem[t], r)
    <3>1. PICK m : m = mem[t]
      BY Zenon
    <3>2. PICK k : k = c
      BY Zenon
    <3>3. Accepts(m, k) /\ k.type = "respond" /\ k.request = r
      BY <2>1, <3>1, <3>2
    <3>4. Pends(m, r)
      BY <3>3 DEF Accepts, Fenced, Pends
    <3> QED BY <3>1, <3>4
  <2> QED BY <1>3, <2>1, <2>2
<1> QED BY <1>1, <1>3, <1>4, LogStands

LEMMA SwapKeepsLog == ASSUME IInv, LogInv, Swap PROVE LogInv'
<1> DEFINE t == Target(worker.id)
<1>1. rows' = rows /\ disk' = disk /\ worker' = Idle /\ worker.stage = "swap"
      /\ mem' = [mem EXCEPT ![t] = Apply(@, worker.events)]
  BY DEF Swap
<1>2. t \in Threads /\ DOMAIN mem = Threads
  BY <1>1, TargetType DEF IInv, TypeOK
<1>3. \A u \in Threads : Due(u)' = Due(u)
  BY <1>1, <1>2 DEF Due, Swapping, Idle
<1>4. \A u \in Threads, r \in Requests : ~Answering(u, r)'
  BY <1>1 DEF Answering, Idle
<1> QED BY <1>1, <1>3, <1>4, LogStands

\* What is in hand comes to nothing on a thread forgotten under it.
LEMMA HandOnNothing ==
    ASSUME IInv, worker.stage \in {"commit", "swap"}
    PROVE  LET t == Target(worker.id) IN
           mem[t] = NoThread \/ Apply(NoThread, worker.events) = NoThread
<1> DEFINE t == Target(worker.id)
<1> SUFFICES ASSUME mem[t] # NoThread PROVE Apply(NoThread, worker.events) = NoThread
  OBVIOUS
<1>1. PICK m : m = mem[t]
  BY Zenon
<1>2. PICK e : e = worker.events
  BY Zenon
<1>3. PICK c : c = Cmd(worker.id)
  BY Zenon
<1>4. c \in Command
  BY <1>3, TargetType DEF IInv, TypeOK
<1>5. Fits(m, c, e)
  BY <1>1, <1>2, <1>3 DEF IInv, InHand
<1> QED BY <1>1, <1>2, <1>4, <1>5, NothingFromNoThread DEF Fits

LEMMA ForgetKeepsLog == ASSUME IInv, LogInv, NEW t \in Threads, Forget(t) PROVE LogInv'
<1>1. rows' = rows /\ disk' = disk /\ worker' = worker /\ mem' = [mem EXCEPT ![t] = NoThread]
  BY DEF Forget
<1>2. mem'[t] = NoThread /\ \A u \in Threads \ {t} : mem'[u] = mem[u]
  BY <1>1 DEF IInv, TypeOK
<1>3. \A u \in Threads \ {t} : Due(u)' = Due(u)
  BY <1>1, <1>2 DEF Due, Swapping
<1>4. Due(t)' \in {NoThread, Due(t)}
  BY <1>1, <1>2, HandOnNothing DEF Due, Swapping
<1>5. \A u \in Threads, r \in Requests : Answering(u, r)' <=> Answering(u, r)
  BY <1>1 DEF Answering
<1>6. \A r : ~Pends(NoThread, r)
  BY DEF Pends
<1>7. ASSUME NEW u \in Threads, NEW r \in Requests, Pends(Due(u), r)'
      PROVE  Pends(Due(u), r)
  <2>1. Pends(Due(u)', r)
    BY <1>7 DEF Pends
  <2> QED BY <1>3, <1>4, <1>6, <2>1
<1> QED BY <1>1, <1>5, <1>7, LogStands

LEMMA RebootKeepsLog == ASSUME IInv, LogInv, Reboot PROVE LogInv'
<1>1. rows' = rows /\ disk' = disk /\ worker' = Idle /\ mem' = disk
  BY DEF Reboot
<1>2. \A u \in Threads : Due(u)' = disk[u]
  BY <1>1 DEF Due, Swapping, Idle
<1>3. \A u \in Threads, r \in Requests : ~Answering(u, r)'
  BY <1>1 DEF Answering, Idle
<1>4. \A u \in Threads, r \in Requests : Pends(Due(u), r)' <=> Pends(disk[u], r)
  BY <1>2 DEF Pends
<1> QED BY <1>1, <1>3, <1>4, LogStands

LEMMA EraseKeepsLog == ASSUME IInv, LogInv, NEW t \in Threads, Erase(t) PROVE LogInv'
<1>1. /\ disk'[t] = NoThread /\ rows'[t] = <<>> /\ worker' = worker /\ mem' = mem
      /\ \A u \in Threads \ {t} : disk'[u] = disk[u] /\ rows'[u] = rows[u]
  BY DEF Erase, IInv, TypeOK
<1>2. Len(<<>>) = 0 /\ DOMAIN <<>> = {}
  OBVIOUS
<1>3. \A u \in Threads : disk'[u] = ReplayOf(rows'[u])
  BY <1>1, ReplayNothing, DiskReplays DEF LogInv, LogIsSound
<1>4. DiskIsReplay'
  BY <1>3 DEF DiskIsReplay, Replay, ReplayOf
<1>5. AnswersFollowCards'
  <2>1. \A u \in Threads : Spaced(rows'[u])
    BY <1>1, <1>2, AnswersSpaced DEF LogInv, LogIsSound, Spaced
  <2> QED BY <2>1 DEF AnswersFollowCards, Spaced, Raises, Cmd
<1>6. ASSUME NEW u \in Threads, NEW r \in Requests,
             Pends(disk[u], r)' \/ Pends(Due(u), r)' \/ Answering(u, r)'
      PROVE  Reraised(rows[u], r)'
  <2>1. CASE u = t
    <3>1. Reraised(<<>>, r)
      BY <1>2 DEF Reraised
    <3> QED BY <1>1, <2>1, <3>1 DEF Reraised, Answers, Raises, Cmd
  <2>2. CASE u # t
    <3>1. Pends(disk[u], r) \/ Pends(Due(u), r) \/ Answering(u, r)
      BY <1>1, <1>6, <2>2 DEF Pends, Due, Swapping, Answering
    <3>2. Reraised(rows[u], r)
      BY <3>1 DEF LogInv, CardsReraised
    <3> QED BY <1>1, <2>2, <3>2 DEF Reraised
  <2> QED BY <2>1, <2>2
<1>7. CardsReraised'
  BY <1>6 DEF CardsReraised
<1> QED BY <1>4, <1>5, <1>7 DEF LogInv, LogIsSound

\* What is in hand was decided on some version of the thread, or it comes to nothing.
LEMMA HandDecided ==
    ASSUME IInv, worker.stage = "commit"
    PROVE  LET t == Target(worker.id)
               c == Cmd(worker.id)
               es == worker.events
           IN  \/ \E x : Accepts(x, c) /\ es = Decide(x, c)
               \/ mem[t] = NoThread /\ disk[t] = NoThread /\ Apply(NoThread, es) = NoThread
BY DEF IInv, InHand, Fits

\* The cards up after the events in hand are cards that were up, or the one raised.
LEMMA HandRaises ==
    ASSUME IInv, worker.stage = "commit", NEW r \in Requests,
           NEW y, y \in {mem[Target(worker.id)], disk[Target(worker.id)]},
           Pends(Apply(y, worker.events), r)
    PROVE  /\ Pends(y, r) \/ Raises(worker.id, r)
           /\ ~Answers(worker.id, r)
<1>1. PICK t : t = Target(worker.id)
  BY Zenon
<1>2. PICK c : c = Cmd(worker.id)
  BY Zenon
<1>3. PICK es : es = worker.events
  BY Zenon
<1>4. c \in Command /\ t \in Threads /\ y \in Thread \cup {NoThread}
  BY <1>1, <1>2, TargetType DEF IInv, TypeOK
<1>5. CASE mem[t] = NoThread /\ disk[t] = NoThread /\ Apply(NoThread, es) = NoThread
  <2>1. Apply(y, es) = NoThread
    BY <1>1, <1>5
  <2> QED BY <1>3, <2>1 DEF Pends
<1>6. ASSUME NEW x, es = Decide(x, c)
      PROVE  /\ Pends(y, r) \/ Raises(worker.id, r)
             /\ ~Answers(worker.id, r)
  <2>1. Pends(Apply(y, Decide(x, c)), r)
    BY <1>3, <1>6
  <2>2. Pends(y, r) \/ (c.type = "sessionSet" /\ c.change.add = r)
    BY <1>4, <2>1, CardsAreRaised
  <2>3. c.type = "respond" => ~Pends(Apply(y, Decide(x, c)), c.request)
    BY <1>4, AnswersSettle
  <2> QED BY <1>2, <2>1, <2>2, <2>3 DEF Raises, Answers
<1> QED BY <1>1, <1>2, <1>3, <1>5, <1>6, HandDecided

LEMMA CommitKeepsLog == ASSUME IInv, LogInv, Commit PROVE LogInv'
<1> DEFINE t == Target(worker.id)
           b == [id |-> worker.id, events |-> worker.events]
<1>1. /\ worker.stage = "commit" /\ mem' = mem
      /\ worker' = [stage |-> "swap", id |-> worker.id, events |-> worker.events]
      /\ t \in Threads
  BY TargetType DEF Commit, IInv, TypeOK, Shape
<1>2. /\ disk'[t] = Apply(disk[t], worker.events) /\ rows'[t] = Append(rows[t], b)
      /\ \A u \in Threads \ {t} : disk'[u] = disk[u] /\ rows'[u] = rows[u]
  BY <1>1 DEF Commit, IInv, TypeOK
<1>3. PICK S : rows[t] \in Seq(S)
  BY <1>1 DEF IInv, Shape
<1>4. PICK R \in Seq(S \cup {b}) : R = rows[t]
  BY <1>3
<1>5. PICK Q : Q = Append(R, b)
  BY Zenon
<1>6. PICK n \in Nat : n = Len(R)
  BY <1>4
<1>7. b.id = worker.id /\ b.events = worker.events
  OBVIOUS
<1> HIDE DEF b
<1>8. /\ Len(Q) = n + 1 /\ Q[n + 1] = b /\ \A k \in 1..n : Q[k] = R[k]
      /\ DOMAIN Q = 1..(n + 1) /\ DOMAIN R = 1..n
  BY <1>5, <1>6
<1>9. rows'[t] = Q /\ rows[t] = R
  BY <1>2, <1>4, <1>5
<1>10. DiskIsReplay'
  <2>1. ReplayOf(Q) = Apply(ReplayOf(R), worker.events)
    BY <1>5, <1>7, ReplayAppend
  <2>2. \A u \in Threads : disk[u] = ReplayOf(rows[u])
    BY DiskReplays DEF LogInv, LogIsSound
  <2>3. \A u \in Threads : disk'[u] = ReplayOf(rows'[u])
    BY <1>1, <1>2, <1>9, <2>1, <2>2
  <2> QED BY <2>3 DEF DiskIsReplay, Replay, ReplayOf
<1>11. ASSUME NEW r \in Requests, Reraised(R, r), ~Answers(worker.id, r)
       PROVE  Reraised(Q, r)
  <2> SUFFICES ASSUME NEW i \in 1..(n + 1), Answers(Q[i].id, r)
               PROVE  \E k \in i..(n + 1) : Raises(Q[k].id, r)
    BY <1>8 DEF Reraised
  <2>1. i \in 1..n /\ Answers(R[i].id, r)
    BY <1>7, <1>8, <1>11
  <2>2. PICK k \in i..n : Raises(R[k].id, r)
    BY <1>6, <1>11, <2>1 DEF Reraised
  <2>3. k \in i..(n + 1) /\ Q[k] = R[k]
    BY <1>8
  <2> QED BY <2>2, <2>3
<1>12. ASSUME NEW r \in Requests, Raises(worker.id, r)
       PROVE  Reraised(Q, r)
  <2>1. \A i \in 1..(n + 1) : n + 1 \in i..(n + 1)
    OBVIOUS
  <2> QED BY <1>7, <1>8, <1>12, <2>1 DEF Reraised
<1>13. ASSUME NEW r \in Requests, NEW y, y \in {mem[t], disk[t]}, Pends(Apply(y, worker.events), r)
       PROVE  Reraised(Q, r)
  <2>1. (Pends(y, r) \/ Raises(worker.id, r)) /\ ~Answers(worker.id, r)
    BY <1>1, <1>13, HandRaises
  <2>2. CASE Raises(worker.id, r)
    BY <1>12, <2>2
  <2>3. CASE Pends(y, r)
    <3>1. Due(t) = mem[t]
      BY <1>1 DEF Due, Swapping
    <3>2. Reraised(R, r)
      BY <1>1, <1>9, <1>13, <2>3, <3>1 DEF LogInv, CardsReraised
    <3> QED BY <1>11, <2>1, <3>2
  <2> QED BY <2>1, <2>2, <2>3
<1>14. CardsReraised'
  <2> SUFFICES ASSUME NEW u \in Threads, NEW r \in Requests,
                      Pends(disk[u], r)' \/ Pends(Due(u), r)' \/ Answering(u, r)'
               PROVE  Reraised(rows[u], r)'
    BY DEF CardsReraised
  <2>1. ~Answering(u, r)'
    BY <1>1 DEF Answering
  <2>2. CASE u = t
    <3>1. Due(u)' = Apply(mem[t], worker.events) /\ disk'[u] = Apply(disk[t], worker.events)
      BY <1>1, <1>2, <2>2 DEF Due, Swapping, Target
    <3>2. Pends(disk'[u], r) \/ Pends(Due(u)', r)
      BY <2>1 DEF Pends
    <3>3. Pends(Apply(disk[t], worker.events), r) \/ Pends(Apply(mem[t], worker.events), r)
      BY <3>1, <3>2
    <3>4. Reraised(Q, r)
      BY <1>13, <3>3
    <3> QED BY <1>9, <2>2, <3>4 DEF Reraised, Answers, Raises, Cmd
  <2>3. CASE u # t
    <3>1. Due(u)' = mem[u] /\ Due(u) = mem[u]
      BY <1>1, <2>3 DEF Due, Swapping, Target
    <3>2. Pends(disk[u], r) \/ Pends(Due(u), r)
      BY <1>2, <2>1, <2>3, <3>1 DEF Pends
    <3>3. Reraised(rows[u], r)
      BY <3>2 DEF LogInv, CardsReraised
    <3> QED BY <1>2, <2>3, <3>3 DEF Reraised
  <2> QED BY <2>2, <2>3
<1>15. AnswersFollowCards'
  <2>1. \A u \in Threads : Spaced(rows[u])
    BY AnswersSpaced DEF LogInv, LogIsSound
  <2>2. Spaced(Q)
    <3> SUFFICES ASSUME NEW i \in 1..(n + 1), NEW j \in 1..(n + 1), i < j,
                        Cmd(Q[i].id).type = "respond", Cmd(Q[j].id) = Cmd(Q[i].id)
                 PROVE  \E k \in i..j : Raises(Q[k].id, Cmd(Q[i].id).request)
      BY <1>8 DEF Spaced
    <3> DEFINE r == Cmd(Q[i].id).request
    <3>1. i \in 1..n /\ Q[i] = R[i]
      BY <1>8
    <3>2. CASE j \in 1..n
      <4>1. Q[j] = R[j]
        BY <1>8, <3>2
      <4>2. PICK k \in i..j : Raises(R[k].id, r)
        BY <1>1, <1>8, <1>9, <2>1, <3>1, <3>2, <4>1 DEF Spaced
      <4>3. Q[k] = R[k]
        BY <1>8, <3>1, <3>2
      <4> QED BY <4>2, <4>3
    <3>3. CASE j = n + 1
      <4>1. Cmd(worker.id).type = "respond" /\ Cmd(worker.id).request = r
        BY <1>7, <1>8, <3>3
      <4>2. r \in Requests
        <5>1. Cmd(worker.id) \in Command
          BY <1>1, TargetType DEF IInv, TypeOK
        <5> QED BY <4>1, <5>1 DEF Command
      <4>3. Reraised(R, r)
        BY <1>1, <1>9, <4>1, <4>2 DEF LogInv, CardsReraised, Answering, Answers
      <4>4. PICK k \in i..n : Raises(R[k].id, r)
        BY <1>6, <3>1, <4>3 DEF Reraised, Answers
      <4>5. k \in i..j /\ Q[k] = R[k]
        BY <1>8, <3>1, <3>3
      <4> QED BY <4>4, <4>5
    <3> QED BY <3>2, <3>3
  <2>3. \A u \in Threads : Spaced(rows'[u])
    BY <1>2, <1>9, <2>1, <2>2
  <2> QED BY <2>3 DEF AnswersFollowCards, Spaced, Raises, Cmd
<1> QED BY <1>10, <1>14, <1>15 DEF LogInv, LogIsSound

LEMMA StepLog == IInv /\ LogInv /\ [Next]_vars => LogInv'
<1> SUFFICES ASSUME IInv, LogInv, [Next]_vars PROVE LogInv'
  OBVIOUS
<1>1. CASE UNCHANGED vars \/ (\E id \in Commands : Dispatch(id)) \/ Take \/ SeenCommand \/ CommitFails
  BY <1>1, WorkKeepsLog
<1>2. ASSUME NEW t \in Threads, Erase(t) \/ Forget(t) PROVE LogInv'
  BY <1>2, EraseKeepsLog, ForgetKeepsLog
<1>3. CASE Decided \/ Commit \/ Swap \/ Reboot
  BY <1>3, DecidedKeepsLog, CommitKeepsLog, SwapKeepsLog, RebootKeepsLog
<1> QED BY <1>1, <1>2, <1>3 DEF Next, WorkerStep

\* The log is one a boot can trust: it replays to what was committed, and between two
\* answers to one card the card was raised again.
THEOREM LogsAreSound == Spec => []LogIsSound
<1>1. LogInv => LogIsSound
  BY DEF LogInv
<1> QED BY InitLog, StepLog, <1>1, EngineInvariant, PTL DEF Spec

-----------------------------------------------------------------------------
(***************************************************************************)
(* The loop implements ThreadLife, thread by thread.                       *)
(***************************************************************************)

\* Events in hand, applied to the thread as it is: one command, or nothing.
LEMMA HandStep ==
    ASSUME IInv, worker.stage \in {"commit", "swap"}
    PROVE  LET t == Target(worker.id)
               new == Apply(mem[t], worker.events)
           IN  new = mem[t] \/
               \E c \in Command : Accepts(mem[t], c) /\ new = Apply(mem[t], Decide(mem[t], c))
<1>1. Cmd(worker.id) \in Command
  BY TargetType DEF IInv, TypeOK
<1> QED BY <1>1 DEF IInv, InHand, Fits

LEMMA SameAccepts == ASSUME NEW t, NEW x, NEW c PROVE Life(t)!Accepts(x, c) = Accepts(x, c)
BY DEF Accepts, Life!Accepts, Fenced, Life!Fenced, Closed, Life!Closed, Live, Life!Live, LifecycleCommands, Life!LifecycleCommands, WorkCommands, Life!WorkCommands, TurnInstance, Life!TurnInstance, AntigravityModes, Life!AntigravityModes, RuntimeMode, Life!RuntimeMode

LEMMA SameDecide == ASSUME NEW t, NEW x, NEW c PROVE Life(t)!Decide(x, c) = Decide(x, c)
BY DEF Decide, Life!Decide, Fenced, Life!Fenced, Closed, Life!Closed, Rehomed, Life!Rehomed, TurnInstance, Life!TurnInstance, AntigravityModes, Life!AntigravityModes

LEMMA SameApplyOne == ASSUME NEW t, NEW x, NEW e PROVE Life(t)!ApplyOne(x, e) = ApplyOne(x, e)
<1>1. Life(t)!NewThread(e) = NewThread(e) /\ Life(t)!TurnStarted(x, e) = TurnStarted(x, e)
  BY DEF NewThread, Life!NewThread, TurnStarted, Life!TurnStarted
<1>2. Life(t)!Archived(x, e) = Archived(x, e) /\ Life(t)!Muted = Muted
  BY DEF Archived, Life!Archived, Muted, Life!Muted
<1>3. Life(t)!Unblocked(x, e.request) = Unblocked(x, e.request)
  BY DEF Unblocked, Life!Unblocked
<1>4. Life(t)!SessionSet(x, e.change) = SessionSet(x, e.change)
  BY Zenon DEF SessionSet, Life!SessionSet, Unblocked, Life!Unblocked
<1> QED BY <1>1, <1>2, <1>3, <1>4, Zenon DEF ApplyOne, Life!ApplyOne

LEMMA SameApply == ASSUME NEW t, NEW x, NEW es PROVE Life(t)!Apply(x, es) = Apply(x, es)
BY SameApplyOne, Zenon DEF Apply, Life!Apply

LEMMA SameCommand == ASSUME NEW t PROVE Life(t)!Command = Command
BY DEF Command, Life!Command, ThreadMode, Life!ThreadMode, RuntimeMode, Life!RuntimeMode, SessionChanges, Life!SessionChanges, Settling, Life!Settling, Asking, Life!Asking, Resolving, Life!Resolving, Stopping, Life!Stopping, Reconciling, Life!Reconciling, NoChange, Life!NoChange

\* A step of the loop is, for each thread, a step of ThreadLife or none.
LEMMA LifeStep ==
    ASSUME IInv, [Next]_vars, NEW t \in Threads
    PROVE  [Life(t)!TLNext]_(LiveThread(t))
<1> DEFINE Commanded(new) ==
              \E c \in Command : Accepts(mem[t], c) /\ new = Apply(mem[t], Decide(mem[t], c))
<1>0. t \in Threads /\ mem \in [Threads -> Thread \cup {NoThread}]
  BY DEF IInv, TypeOK
<1>1. ASSUME t \notin torn, LiveThread(t)' = mem[t] \/ Commanded(LiveThread(t)')
      PROVE  [Life(t)!TLNext]_(LiveThread(t))
  <2>1. LiveThread(t) = mem[t]
    BY <1>1 DEF LiveThread
  <2>2. CASE LiveThread(t)' = mem[t]
    BY <2>1, <2>2
  <2>3. CASE Commanded(LiveThread(t)')
    <3>1. PICK c \in Command : /\ Accepts(LiveThread(t), c)
                               /\ LiveThread(t)' = Apply(LiveThread(t), Decide(LiveThread(t), c))
      BY <2>1, <2>3
    <3>2. PICK x : x = LiveThread(t)
      OBVIOUS
    <3>3. PICK es : es = Decide(x, c)
      OBVIOUS
    <3>4. /\ Life(t)!Accepts(x, c) /\ Life(t)!Decide(x, c) = es
          /\ Life(t)!Apply(x, es) = Apply(x, es) /\ c \in Life(t)!Command
      BY <3>1, <3>2, <3>3, SameAccepts, SameDecide, SameApply, SameCommand
    <3>5. Life(t)!Handle(c)
      BY <3>1, <3>2, <3>3, <3>4 DEF Life!Handle
    <3> QED BY <3>4, <3>5 DEF Life!TLNext
  <2> QED BY <1>1, <2>2, <2>3
<1>2. ASSUME LiveThread(t)' = NoThread \/ LiveThread(t)' = LiveThread(t)
      PROVE  [Life(t)!TLNext]_(LiveThread(t))
  BY <1>2 DEF Life!TLNext, Life!ForgetThread
<1>3. CASE mem' = mem /\ torn' = torn
  BY <1>2, <1>3 DEF LiveThread
<1>4. CASE t \in torn'
  BY <1>2, <1>4 DEF LiveThread
<1>5. CASE Swap /\ t \notin torn'
  <2>1. t \notin torn /\ LiveThread(t)' = mem'[t]
    BY <1>5 DEF Swap, LiveThread
  <2>2. CASE Target(worker.id) # t
    BY <1>1, <1>5, <2>1, <2>2 DEF Swap
  <2>3. CASE Target(worker.id) = t
    <3>1. mem'[t] = Apply(mem[t], worker.events)
      BY <1>0, <1>5, <2>3 DEF Swap
    <3>2. mem'[t] = mem[t] \/ Commanded(mem'[t])
      BY <1>5, <2>3, <3>1, HandStep DEF Swap
    <3> QED BY <1>1, <2>1, <3>2
  <2> QED BY <2>2, <2>3
<1>6. ASSUME NEW u \in Threads, Forget(u), t \notin torn'
      PROVE  [Life(t)!TLNext]_(LiveThread(t))
  <2>1. t \notin torn /\ LiveThread(t)' = mem'[t]
    BY <1>6 DEF Forget, LiveThread
  <2>2. mem'[t] \in {NoThread, mem[t]}
    BY <1>0, <1>6 DEF Forget
  <2> QED BY <1>1, <1>2, <2>1, <2>2
<1>7. CASE Reboot /\ t \notin torn'
  <2>1. t \notin torn /\ LiveThread(t)' = disk[t]
    BY <1>7 DEF Reboot, LiveThread
  <2>2. CASE Swapping(t)
    <3>1. \/ disk[t] = NoThread
          \/ disk[t] = Apply(mem[t], worker.events)
      BY <2>1, <2>2 DEF IInv, Follows
    <3>2. \/ disk[t] = NoThread
          \/ disk[t] = mem[t] \/ Commanded(disk[t])
      BY <2>2, <3>1, HandStep DEF Swapping
    <3> QED BY <1>1, <1>2, <2>1, <3>2
  <2>3. CASE ~Swapping(t)
    BY <1>1, <1>2, <2>1, <2>3 DEF IInv, Follows
  <2> QED BY <2>2, <2>3
<1>8. CASE Next /\ ~Swap /\ ~Reboot /\ ~ \E u \in Threads : Forget(u)
  BY <1>3, <1>8 DEF Next, WorkerStep, Dispatch, Take, SeenCommand, Decided, Commit, CommitFails, Erase
<1>9. CASE UNCHANGED vars
  BY <1>3, <1>9 DEF vars
<1> QED BY <1>4, <1>5, <1>6, <1>7, <1>8, <1>9

\* Every thread in memory, unless a DELETE on it was overtaken, lives by the
\* rules of ThreadLife, whose theorems therefore hold of it.
THEOREM ThreadsLiveByTheRules == Spec => ThreadsLive
<1>1. Init => \A t \in Threads : Life(t)!TLInit
  BY DEF Init, Life!TLInit, LiveThread
<1>2. IInv /\ [Next]_vars => [\A t \in Threads : [Life(t)!TLNext]_(LiveThread(t))]_vars
  BY LifeStep
<1> QED BY <1>1, <1>2, EngineInvariant, PTL DEF Spec, ThreadsLive
=============================================================================
