--------------------------- MODULE TerminalsProofs ---------------------------
(***************************************************************************)
(* Proofs about Terminals, for any number of shells, sockets and reads and *)
(* any ring buffer.                                                        *)
(*                                                                         *)
(* What makes the invariant inductive is Fed: for every socket that is up, *)
(* what it was sent, what the pump is writing to it and what is queued for *)
(* it make up its stream, with nothing missing, repeated or out of order,  *)
(* unless another socket took its place; and Places: nobody writes to a    *)
(* socket before it is attached, or for another shell.                     *)
(***************************************************************************)
EXTENDS Terminals, SequenceTheorems, TLAPS

ShellType ==
    [alive : BOOLEAN, killer : BOOLEAN, read : Nat, flushed : Nat, evicted : Nat,
     conn : Nat, replay : Seq(Nat), pump : {"run", "write", "lastWrite", "tell", "done"},
     to : Nat, frames : Seq(Nat)]

ConnType ==
    [at : {"spawning", "attaching", "reading", "gone"}, open : BOOLEAN, shell : Nat,
     got : Seq(Nat), since : Nat]

Shape == shells \in Seq(ShellType) /\ conns \in Seq(ConnType)

\* Which sockets a shell may know.
Places ==
    /\ \A c \in Conns :
          /\ conns[c].at \in {"attaching", "reading"} => conns[c].shell \in Shells
          /\ conns[c].at \in {"spawning", "attaching"} =>
                /\ conns[c].got = <<>> /\ c \notin ousted
                /\ \A s \in Shells : shells[s].conn # c /\ shells[s].to # c
    /\ \A s \in Shells, c \in Conns :
          (shells[s].conn = c \/ shells[s].to = c) /\ conns[c].at = "reading" =>
              conns[c].shell = s

\* Of socket c with its record y, at the shell with the record x: its stream, and
\* what of it has been sent or is being written.
StreamOf(y, x) == <<0>> \o Reads(y.since, x.flushed)
Sent(c, y, x) == y.got \o (IF x.to = c THEN x.frames ELSE <<>>)

Fed(c, y, x, replaced) ==
    /\ y.since <= x.flushed
    /\ IF replaced THEN x.conn # c /\ IsPrefix(Sent(c, y, x), StreamOf(y, x))
       ELSE /\ x.conn = c
            /\ IF x.replay = <<>> THEN Sent(c, y, x) = StreamOf(y, x)
               ELSE x.to # c /\ y.got = <<>> /\ x.replay = StreamOf(y, x)

Reading(c) == conns[c].at = "reading" /\ conns[c].open

AllFed == \A c \in Conns : Reading(c) => Fed(c, conns[c], shells[conns[c].shell], c \in ousted)

IInv == Shape /\ TypeOK /\ Places /\ AllFed /\ LiveIsRegistered

-----------------------------------------------------------------------------
(***************************************************************************)
(* Reads and prefixes.                                                     *)
(***************************************************************************)

LEMMA ReadsType ==
    ASSUME NEW a \in Nat, NEW b \in Nat, a <= b
    PROVE  /\ Reads(a, b) \in Seq(Nat) /\ Len(Reads(a, b)) = b - a
           /\ \A i \in 1..(b - a) : Reads(a, b)[i] = a + i
<1>1. b - a \in Nat /\ Reads(a, b) \in [1..(b - a) -> Nat]
  BY DEF Reads
<1>2. Reads(a, b) \in Seq(Nat)
  BY <1>1, SeqDef
<1> QED BY <1>1, <1>2 DEF Reads

LEMMA ReadsJoin ==
    ASSUME NEW a \in Nat, NEW b \in Nat, NEW n \in Nat, a <= b, b <= n
    PROVE  Reads(a, b) \o Reads(b, n) = Reads(a, n)
<1> DEFINE p == Reads(a, b)
           q == Reads(b, n)
           r == Reads(a, n)
           l == p \o q
<1>1. p \in Seq(Nat) /\ Len(p) = b - a /\ \A i \in 1..(b - a) : p[i] = a + i
  BY ReadsType
<1>2. q \in Seq(Nat) /\ Len(q) = n - b /\ \A i \in 1..(n - b) : q[i] = b + i
  BY ReadsType
<1>3. a <= n
  OBVIOUS
<1>4. r \in Seq(Nat) /\ Len(r) = n - a /\ \A i \in 1..(n - a) : r[i] = a + i
  BY <1>3, ReadsType
<1> HIDE DEF p, q, r
<1>5. /\ l \in Seq(Nat) /\ Len(l) = Len(p) + Len(q)
      /\ \A i \in 1..(Len(p) + Len(q)) : l[i] = IF i <= Len(p) THEN p[i] ELSE q[i - Len(p)]
  BY <1>1, <1>2, ConcatProperties
<1>6. Len(p) + Len(q) = n - a
  BY <1>1, <1>2
<1> HIDE DEF l
<1>7. ASSUME NEW i \in 1..(n - a) PROVE l[i] = r[i]
  <2>0. l[i] = IF i <= b - a THEN p[i] ELSE q[i - (b - a)]
    BY <1>1, <1>5, <1>6
  <2>1. CASE i <= b - a
    BY <1>1, <1>4, <2>0, <2>1
  <2>2. CASE i > b - a
    <3>1. i - (b - a) \in 1..(n - b) /\ b + (i - (b - a)) = a + i
      BY <2>2
    <3>2. q[i - (b - a)] = a + i
      BY <1>2, <3>1
    <3> QED BY <1>4, <2>0, <2>2, <3>2
  <2>3. i <= b - a \/ i > b - a
    OBVIOUS
  <2> QED BY <2>1, <2>2, <2>3
<1>8. l = r
  BY <1>4, <1>5, <1>6, <1>7, SeqEqual
<1> QED BY <1>8 DEF l, p, q, r

LEMMA Regrouped ==
    ASSUME NEW p \in Seq(Nat), NEW q \in Seq(Nat), NEW r \in Seq(Nat)
    PROVE  (p \o q) \o r = p \o (q \o r)
BY ConcatAssociative

LEMMA PrefixIs ==
    ASSUME NEW p \in Seq(Nat), NEW t \in Seq(Nat)
    PROVE  IsPrefix(p, t) <=> \E q \in Seq(Nat) : p \o q = t
<1>0. Len(p) \in Nat /\ Len(t) \in Nat
  OBVIOUS
<1>1. ASSUME IsPrefix(p, t) PROVE \E q \in Seq(Nat) : p \o q = t
  <2> DEFINE q == SubSeq(t, Len(p) + 1, Len(t))
             l == p \o q
  <2>1. Len(p) <= Len(t) /\ SubSeq(p, 1, Len(p)) = SubSeq(t, 1, Len(p))
    BY <1>1 DEF IsPrefix
  <2>2. /\ \A i \in 1..Len(p) : SubSeq(p, 1, Len(p))[i] = p[i]
        /\ \A i \in 1..Len(p) : SubSeq(t, 1, Len(p))[i] = t[i]
    BY <1>0, <2>1
  <2>3. \A i \in 1..Len(p) : p[i] = t[i]
    BY <2>1, <2>2
  <2>4. /\ q \in Seq(Nat) /\ Len(q) = Len(t) - Len(p)
        /\ \A i \in 1..Len(q) : q[i] = t[Len(p) + i]
    BY <1>0, <2>1
  <2> HIDE DEF q
  <2>5. /\ l \in Seq(Nat) /\ Len(l) = Len(p) + Len(q)
        /\ \A i \in 1..(Len(p) + Len(q)) : l[i] = IF i <= Len(p) THEN p[i] ELSE q[i - Len(p)]
    BY <2>4, ConcatProperties
  <2> HIDE DEF l
  <2>6. ASSUME NEW i \in 1..Len(l) PROVE l[i] = t[i]
    <3>1. CASE i <= Len(p)
      BY <1>0, <2>3, <2>4, <2>5, <3>1
    <3>2. CASE i > Len(p)
      <4>1. i - Len(p) \in 1..Len(q) /\ Len(p) + (i - Len(p)) = i
        BY <1>0, <2>1, <2>4, <2>5, <3>2
      <4>2. q[i - Len(p)] = t[i]
        BY <2>4, <4>1
      <4>3. i \in 1..(Len(p) + Len(q)) /\ ~(i <= Len(p))
        BY <1>0, <2>5, <3>2
      <4> QED BY <2>5, <4>2, <4>3
    <3> QED BY <1>0, <3>1, <3>2
  <2>7. Len(l) = Len(t)
    BY <1>0, <2>1, <2>4, <2>5
  <2>8. l = t
    BY <2>5, <2>6, <2>7, SeqEqual
  <2> QED BY <2>4, <2>8 DEF l
<1>2. ASSUME NEW q \in Seq(Nat), p \o q = t PROVE IsPrefix(p, t)
  <2>1. /\ Len(t) = Len(p) + Len(q) /\ Len(q) \in Nat
        /\ \A i \in 1..(Len(p) + Len(q)) : t[i] = IF i <= Len(p) THEN p[i] ELSE q[i - Len(p)]
    BY <1>2, ConcatProperties
  <2>2. \A i \in 1..Len(p) : p[i] = t[i]
    BY <1>0, <2>1
  <2>3. ASSUME NEW v \in Seq(Nat), Len(p) <= Len(v)
        PROVE  LET w == SubSeq(v, 1, Len(p)) IN
               w \in Seq(Nat) /\ Len(w) = Len(p) /\ \A i \in 1..Len(p) : w[i] = v[i]
    BY <1>0, <2>3
  <2>5. Len(p) <= Len(p) /\ Len(p) <= Len(t)
    BY <1>0, <2>1
  <2>4. SubSeq(p, 1, Len(p)) = SubSeq(t, 1, Len(p))
    <3> DEFINE v == SubSeq(p, 1, Len(p))
               w == SubSeq(t, 1, Len(p))
    <3>1. v \in Seq(Nat) /\ Len(v) = Len(p) /\ \A i \in 1..Len(p) : v[i] = p[i]
      BY <2>3, <2>5
    <3>2. w \in Seq(Nat) /\ Len(w) = Len(p) /\ \A i \in 1..Len(p) : w[i] = t[i]
      BY <2>3, <2>5
    <3> HIDE DEF v, w
    <3>3. v = w
      BY <2>2, <3>1, <3>2, SeqEqual
    <3> QED BY <3>3 DEF v, w
  <2> QED BY <1>0, <2>1, <2>4 DEF IsPrefix
<1> QED BY <1>1, <1>2

LEMMA StreamType ==
    ASSUME NEW a \in Nat, NEW b \in Nat, a <= b
    PROVE  <<0>> \o Reads(a, b) \in Seq(Nat) /\ <<0>> \o Reads(a, b) # <<>>
<1>1. <<0>> \in Seq(Nat) /\ Len(<<0>>) = 1 /\ Reads(a, b) \in Seq(Nat)
  BY ReadsType
<1>2. /\ <<0>> \o Reads(a, b) \in Seq(Nat)
      /\ Len(<<0>> \o Reads(a, b)) = 1 + Len(Reads(a, b)) /\ Len(Reads(a, b)) \in Nat
  BY <1>1, ConcatProperties
<1> QED BY <1>2, EmptySeq

LEMMA StreamJoin ==
    ASSUME NEW a \in Nat, NEW b \in Nat, NEW n \in Nat, a <= b, b <= n
    PROVE  (<<0>> \o Reads(a, b)) \o Reads(b, n) = <<0>> \o Reads(a, n)
<1>1. <<0>> \in Seq(Nat) /\ Reads(a, b) \in Seq(Nat) /\ Reads(b, n) \in Seq(Nat)
  BY ReadsType
<1>2. (<<0>> \o Reads(a, b)) \o Reads(b, n) = <<0>> \o (Reads(a, b) \o Reads(b, n))
  BY <1>1, ConcatAssociative
<1> QED BY <1>2, ReadsJoin

LEMMA PrefixExtends ==
    ASSUME NEW p \in Seq(Nat), NEW t \in Seq(Nat), NEW u \in Seq(Nat), IsPrefix(p, t)
    PROVE  IsPrefix(p, t \o u)
<1>1. PICK q \in Seq(Nat) : p \o q = t
  BY PrefixIs
<1>2. q \o u \in Seq(Nat) /\ t \o u \in Seq(Nat)
  BY ConcatProperties
<1>3. (p \o q) \o u = p \o (q \o u)
  BY Regrouped
<1>4. p \o (q \o u) = t \o u
  BY <1>1, <1>3
<1> QED BY <1>2, <1>4, PrefixIs

LEMMA PrefixShrinks ==
    ASSUME NEW p \in Seq(Nat), NEW q \in Seq(Nat), NEW t \in Seq(Nat), IsPrefix(p \o q, t)
    PROVE  IsPrefix(p, t)
<1>0. p \o q \in Seq(Nat)
  BY ConcatProperties
<1>1. PICK u \in Seq(Nat) : (p \o q) \o u = t
  BY <1>0, PrefixIs
<1>2. q \o u \in Seq(Nat)
  BY ConcatProperties
<1>3. (p \o q) \o u = p \o (q \o u)
  BY Regrouped
<1>4. p \o (q \o u) = t
  BY <1>1, <1>3
<1> QED BY <1>2, <1>4, PrefixIs

-----------------------------------------------------------------------------
(***************************************************************************)
(* What one step of the pump does for one socket.                          *)
(***************************************************************************)

\* A socket is fed as before when nothing it depends on changed.
LEMMA FedSame ==
    ASSUME NEW c, NEW y, NEW x, NEW w, NEW o, Fed(c, y, x, o),
           w.flushed = x.flushed, w.conn = x.conn, w.replay = x.replay,
           w.to = c <=> x.to = c, x.to = c => w.frames = x.frames
    PROVE  Fed(c, y, w, o)
<1>1. Sent(c, y, w) = Sent(c, y, x) /\ StreamOf(y, w) = StreamOf(y, x)
  BY DEF Sent, StreamOf
<1> QED BY <1>1 DEF Fed

\* What is written moves from the pump to the socket.
LEMMA FedWritten ==
    ASSUME NEW c \in Nat \ {0}, NEW y \in ConnType, NEW x \in ShellType, NEW o, Fed(c, y, x, o),
           x.to = c, NEW z, z.got = y.got \o x.frames, z.since = y.since,
           NEW w, w.flushed = x.flushed, w.conn = x.conn, w.replay = x.replay, w.to = Nobody
    PROVE  Fed(c, z, w, o)
<1>1. z.got \in Seq(Nat)
  <2>1. y.got \in Seq(Nat) /\ x.frames \in Seq(Nat)
    BY DEF ConnType, ShellType
  <2> QED BY <2>1, ConcatProperties
<1>2. Sent(c, z, w) = z.got
  BY <1>1, ConcatEmptySeq DEF Sent, Nobody
<1>3. Sent(c, y, x) = z.got /\ StreamOf(z, w) = StreamOf(y, x)
  BY DEF Sent, StreamOf
<1> QED BY <1>2, <1>3 DEF Fed

\* flush: the replay and the new reads are on their way, and nothing else.
LEMMA FedFlushed ==
    ASSUME NEW c \in Nat \ {0}, NEW y \in ConnType, NEW x \in ShellType, NEW o, Fed(c, y, x, o),
           x.to = Nobody, NEW n \in Nat, x.flushed <= n,
           NEW out, out = IF x.conn = Nobody THEN <<>> ELSE x.replay \o Reads(x.flushed, n),
           NEW w, w.flushed = n, w.conn = x.conn, w.replay = <<>>, w.frames = out,
           w.to = IF out = <<>> THEN Nobody ELSE x.conn
    PROVE  Fed(c, y, w, o)
<1> DEFINE more == Reads(x.flushed, n)
<1>1. /\ x.flushed \in Nat /\ x.replay \in Seq(Nat) /\ y.got \in Seq(Nat) /\ y.since \in Nat
      /\ c # Nobody /\ y.since <= x.flushed
  BY DEF ShellType, ConnType, Nobody, Fed
<1>2. y.since <= n
  BY <1>1
<1>0. <<>> \in Seq(Nat)
  OBVIOUS
<1>3. more \in Seq(Nat) /\ <<>> \in Seq(Nat)
  <2>1. ASSUME NEW a \in Nat, a <= n PROVE Reads(a, n) \in Seq(Nat)
    BY <2>1, ReadsType
  <2> QED BY <1>0, <1>1, <2>1
<1>4. StreamOf(y, x) \in Seq(Nat) /\ StreamOf(y, x) # <<>> /\ StreamOf(y, w) = StreamOf(y, x) \o more
  BY <1>1, StreamType, StreamJoin DEF StreamOf
<1>5. Sent(c, y, x) = y.got
  BY <1>1, ConcatEmptySeq DEF Sent
<1> HIDE DEF more
<1>6. CASE o
  <2>1. x.conn # c /\ IsPrefix(y.got, StreamOf(y, x))
    BY <1>5, <1>6 DEF Fed
  <2>2. Sent(c, y, w) = y.got
    BY <1>1, <2>1, ConcatEmptySeq DEF Sent
  <2>3. IsPrefix(y.got, StreamOf(y, w))
    BY <1>1, <1>3, <1>4, <2>1, PrefixExtends
  <2> QED BY <1>2, <1>6, <2>1, <2>2, <2>3 DEF Fed
<1>7. CASE ~o
  <2>1. x.conn = c /\ out = x.replay \o more
    BY <1>1, <1>7 DEF Fed, more
  <2>2. Sent(c, y, w) = y.got \o out
    BY <1>1, <2>1 DEF Sent
  <2>3. y.got \o out = StreamOf(y, w)
    <3>1. CASE x.replay = <<>>
      <4>1. y.got = StreamOf(y, x)
        BY <1>5, <1>7, <3>1 DEF Fed
      <4>2. out = more
        BY <1>3, <2>1, <3>1, ConcatEmptySeq
      <4> QED BY <1>4, <4>1, <4>2
    <3>2. CASE x.replay # <<>>
      <4>1. y.got = <<>> /\ x.replay = StreamOf(y, x)
        BY <1>7, <3>2 DEF Fed
      <4>2. out = StreamOf(y, w) /\ out \in Seq(Nat)
        BY <1>1, <1>3, <1>4, <2>1, <4>1, ConcatProperties
      <4> QED BY <4>1, <4>2, ConcatEmptySeq
    <3> QED BY <3>1, <3>2
  <2> QED BY <1>2, <1>7, <2>1, <2>2, <2>3 DEF Fed
<1> QED BY <1>6, <1>7

\* attachConn: the whole stream so far is queued.
LEMMA FedAttached ==
    ASSUME NEW c, NEW x \in ShellType, x.evicted <= x.flushed,
           NEW y, y.since = x.evicted, y.got = <<>>,
           NEW w, w.conn = c, w.to # c, w.flushed = x.flushed,
           w.replay = StreamOf(y, w)
    PROVE  Fed(c, y, w, FALSE)
<1>1. x.evicted \in Nat /\ x.flushed \in Nat
  BY DEF ShellType
<1>2. w.replay # <<>>
  BY <1>1, StreamType DEF StreamOf
<1> QED BY <1>2 DEF Fed

\* What another socket's attaching leaves the one it replaced.
LEMMA FedReplaced ==
    ASSUME NEW c, NEW y \in ConnType, NEW x \in ShellType, NEW o, Fed(c, y, x, o),
           NEW w, w.flushed = x.flushed, w.conn # c, w.to = x.to, w.frames = x.frames
    PROVE  Fed(c, y, w, TRUE)
<1>1. /\ Sent(c, y, w) = Sent(c, y, x) /\ StreamOf(y, w) = StreamOf(y, x)
  BY DEF Sent, StreamOf
<1>2. y.since \in Nat /\ x.flushed \in Nat /\ y.got \in Seq(Nat) /\ y.since <= x.flushed
  BY DEF ConnType, ShellType, Fed
<1>0. <<>> \in Seq(Nat)
  OBVIOUS
<1>3. StreamOf(y, x) \in Seq(Nat) /\ <<>> \in Seq(Nat)
  <2>1. ASSUME NEW a \in Nat, NEW b \in Nat, a <= b PROVE <<0>> \o Reads(a, b) \in Seq(Nat)
    BY <2>1, StreamType
  <2> QED BY <1>0, <1>2, <2>1 DEF StreamOf
<1>4. IsPrefix(Sent(c, y, x), StreamOf(y, x))
  <2>1. CASE o
    BY <2>1 DEF Fed
  <2>2. CASE ~o /\ x.replay = <<>>
    <3>1. Sent(c, y, x) = StreamOf(y, x) /\ StreamOf(y, x) \o <<>> = StreamOf(y, x)
      BY <1>3, <2>2, ConcatEmptySeq DEF Fed
    <3> QED BY <1>3, <3>1, PrefixIs
  <2>3. CASE ~o /\ x.replay # <<>>
    <3>1. Sent(c, y, x) = <<>>
      BY <1>3, <2>3, ConcatEmptySeq DEF Fed, Sent
    <3>2. <<>> \o StreamOf(y, x) = StreamOf(y, x)
      BY <1>3, ConcatEmptySeq
    <3> QED BY <1>3, <3>1, <3>2, PrefixIs
  <2> QED BY <2>1, <2>2, <2>3
<1> QED BY <1>1, <1>2, <1>4 DEF Fed

-----------------------------------------------------------------------------
(***************************************************************************)
(* Steps that start no shell, open no socket and attach none.              *)
(***************************************************************************)

\* What TypeOK says of one shell's numbers.
ShellOK(x) ==
    /\ x.evicted <= x.flushed /\ x.flushed <= x.read
    /\ x.flushed > 0 => x.evicted < x.flushed
    /\ {x.conn, x.to} \subseteq {Nobody} \cup Conns
    /\ (x.to # Nobody) = (x.pump \in {"write", "lastWrite"})

LEMMA Facts ==
    ASSUME IInv
    PROVE  /\ shells \in Seq(ShellType) /\ Shells = 1..Len(shells) /\ Len(shells) \in Nat
           /\ conns \in Seq(ConnType) /\ Conns = 1..Len(conns) /\ Len(conns) \in Nat
           /\ \A s \in Shells : shells[s] \in ShellType /\ ShellOK(shells[s]) /\ s \in Nat \ {0}
           /\ \A c \in Conns : conns[c] \in ConnType /\ c \in Nat \ {0}
<1>1. /\ shells \in Seq(ShellType) /\ Shells = 1..Len(shells) /\ Len(shells) \in Nat
      /\ conns \in Seq(ConnType) /\ Conns = 1..Len(conns) /\ Len(conns) \in Nat
  BY DEF IInv, Shape, Shells, Conns
<1>2. ASSUME NEW s \in Shells PROVE shells[s] \in ShellType /\ s \in Nat \ {0}
  BY <1>1, ElementOfSeq
<1>3. ASSUME NEW s \in Shells PROVE ShellOK(shells[s])
  BY DEF IInv, TypeOK, ShellOK
<1>4. ASSUME NEW c \in Conns PROVE conns[c] \in ConnType /\ c \in Nat \ {0}
  BY <1>1, ElementOfSeq
<1> QED BY <1>1, <1>2, <1>3, <1>4

\* y became z: the same socket, or one that is gone.
StillOrGone(y, z) ==
    \/ z.at = "gone" /\ z.shell \in {Nobody} \cup Shells
    \/ /\ z.at = y.at /\ z.shell = y.shell
       /\ z.at \in {"spawning", "attaching"} => z.got = <<>>

\* A step in which no shell and no socket appears, and none gets more than what was
\* meant for it.
QuietShell(s) ==
    /\ ShellOK(shells'[s])
    /\ shells'[s].conn \in {Nobody, shells[s].conn}
    /\ shells'[s].to \in {Nobody, shells[s].to, shells[s].conn}
    /\ shells'[s].alive => registered' = s \/ shells'[s].killer \/ s \in overwritten

QuietConn(c) ==
    /\ StillOrGone(conns[c], conns'[c])
    /\ Reading(c)' => Fed(c, conns'[c], shells'[conns'[c].shell], c \in ousted')

LEMMA QuietKeeps ==
    ASSUME IInv, Shape', Len(shells') = Len(shells), Len(conns') = Len(conns),
           registered' \in {Nobody, registered}, overwritten' = overwritten, ousted' \subseteq ousted,
           \A s \in Shells : QuietShell(s), \A c \in Conns : QuietConn(c)
    PROVE  IInv'
<1> USE DEF QuietShell, QuietConn
<1>0. /\ Shells' = Shells /\ Conns' = Conns
      /\ \A s \in Shells : s \in Nat \ {0}
      /\ \A c \in Conns : c \in Nat \ {0}
  BY Facts DEF Shape, Shells, Conns
<1>1. \A s \in Shells : shells'[s] \in ShellType
  BY <1>0, ElementOfSeq DEF Shape, Shells
<1>2. \A c \in Conns : conns'[c] \in ConnType
  BY <1>0, ElementOfSeq DEF Shape, Conns
<1>3. TypeOK'
  <2>1. registered' \in {Nobody} \cup Shells /\ overwritten' \subseteq Shells /\ ousted' \subseteq Conns
    BY DEF IInv, TypeOK
  <2>2. ASSUME NEW s \in Shells
        PROVE  LET x == shells'[s] IN
               /\ {x.alive, x.killer} \subseteq BOOLEAN
               /\ x.pump \in {"run", "write", "lastWrite", "tell", "done"}
               /\ x.evicted <= x.flushed /\ x.flushed <= x.read
               /\ x.flushed > 0 => x.evicted < x.flushed
               /\ {x.conn, x.to} \subseteq {Nobody} \cup Conns
               /\ (x.to # Nobody) = (x.pump \in {"write", "lastWrite"})
    BY <1>1 DEF ShellOK, ShellType
  <2>3. ASSUME NEW c \in Conns
        PROVE  /\ conns'[c].at \in {"spawning", "attaching", "reading", "gone"}
               /\ conns'[c].shell \in {Nobody} \cup Shells
               /\ conns'[c].open \in BOOLEAN
    BY <1>2 DEF ConnType, StillOrGone, IInv, TypeOK
  <2> QED BY <1>0, <2>1, <2>2, <2>3 DEF TypeOK
<1>4. Places'
  <2>1. ASSUME NEW c \in Conns
        PROVE  /\ conns'[c].at \in {"attaching", "reading"} => conns'[c].shell \in Shells
               /\ conns'[c].at \in {"spawning", "attaching"} =>
                     /\ conns'[c].got = <<>> /\ c \notin ousted'
                     /\ \A s \in Shells : shells'[s].conn # c /\ shells'[s].to # c
    <3>1. /\ conns[c].at \in {"attaching", "reading"} => conns[c].shell \in Shells
          /\ conns[c].at \in {"spawning", "attaching"} =>
                /\ c \notin ousted
                /\ \A s \in Shells : shells[s].conn # c /\ shells[s].to # c
      BY DEF IInv, Places
    <3>2. c # Nobody
      BY <1>0 DEF Nobody
    <3> QED BY <3>1, <3>2 DEF StillOrGone
  <2>2. ASSUME NEW s \in Shells, NEW c \in Conns, shells'[s].conn = c \/ shells'[s].to = c,
               conns'[c].at = "reading"
        PROVE  conns'[c].shell = s
    <3>1. c # Nobody
      BY <1>0 DEF Nobody
    <3>2. shells[s].conn = c \/ shells[s].to = c
      BY <2>2, <3>1
    <3>3. conns[c].at = "reading" /\ conns'[c].shell = conns[c].shell
      BY <2>2 DEF StillOrGone
    <3> QED BY <3>2, <3>3 DEF IInv, Places
  <2> QED BY <1>0, <2>1, <2>2 DEF Places
<1>5. AllFed' /\ LiveIsRegistered'
  BY <1>0 DEF AllFed, LiveIsRegistered
<1> QED BY <1>3, <1>4, <1>5 DEF IInv

\* One shell changes, and what its sockets have been sent does not.
LEMMA ShellStepKeeps ==
    ASSUME IInv, NEW s \in Shells, NEW x \in ShellType, shells' = [shells EXCEPT ![s] = x],
           UNCHANGED <<conns, overwritten, ousted>>, registered' \in {Nobody, registered},
           ShellOK(x), x.conn = shells[s].conn,
           x.to \in {Nobody, shells[s].to, shells[s].conn},
           \A c \in Conns : Reading(c) /\ conns[c].shell = s =>
                               Fed(c, conns[c], x, c \in ousted),
           x.alive => registered' = s \/ x.killer \/ s \in overwritten,
           registered' = registered \/ registered = s
    PROVE  IInv'
<1>0. s \in 1..Len(shells) /\ shells \in Seq(ShellType) /\ Conns = 1..Len(conns)
  BY Facts
<1>1. /\ shells' \in Seq(ShellType) /\ Len(shells') = Len(shells)
      /\ shells'[s] = x /\ \A t \in Shells : t # s => shells'[t] = shells[t]
  BY <1>0, ExceptSeq DEF Shells
<1>2. Shape'
  BY <1>1 DEF IInv, Shape
<1>3. ASSUME NEW t \in Shells
      PROVE  /\ ShellOK(shells'[t])
             /\ shells'[t].conn \in {Nobody, shells[t].conn}
             /\ shells'[t].to \in {Nobody, shells[t].to, shells[t].conn}
             /\ shells'[t].alive => registered' = t \/ shells'[t].killer \/ t \in overwritten
  <2>1. CASE t = s
    BY <1>1, <2>1
  <2>2. CASE t # s
    BY <1>1, <2>2, Facts DEF IInv, LiveIsRegistered
  <2> QED BY <2>1, <2>2
<1>4. ASSUME NEW c \in Conns
      PROVE  /\ StillOrGone(conns[c], conns'[c])
             /\ Reading(c)' => Fed(c, conns'[c], shells'[conns'[c].shell], c \in ousted')
  <2>1. StillOrGone(conns[c], conns'[c])
    BY DEF StillOrGone, IInv, Places
  <2>2. Reading(c)' => Reading(c) /\ conns[c].shell \in Shells
    BY DEF Reading, IInv, Places
  <2>3. Reading(c)' => Fed(c, conns[c], shells[conns[c].shell], c \in ousted)
    BY <2>2 DEF IInv, AllFed
  <2> QED BY <1>1, <2>1, <2>2, <2>3
<1> QED BY <1>1, <1>2, <1>3, <1>4, QuietKeeps DEF QuietShell, QuietConn

LEMMA ReadNat == ASSUME IInv, NEW s \in Shells PROVE shells[s].read \in Nat /\ shells[s].flushed \in Nat
<1>1. shells[s] \in ShellType
  BY Facts
<1> QED BY <1>1 DEF ShellType

\* The fields of a shell that the pump works on.
SameFeed(x, w) ==
    /\ w.flushed = x.flushed /\ w.evicted = x.evicted /\ w.conn = x.conn
    /\ w.replay = x.replay /\ w.pump = x.pump /\ w.to = x.to /\ w.frames = x.frames

\* A step of a shell that the pump has no part in.
LEMMA AsideKeeps ==
    ASSUME IInv, NEW s \in Shells, NEW x \in ShellType, shells' = [shells EXCEPT ![s] = x],
           UNCHANGED <<conns, overwritten, ousted>>, registered' \in {Nobody, registered},
           registered' = registered \/ registered = s,
           SameFeed(shells[s], x), x.read \in {shells[s].read, shells[s].read + 1},
           x.alive => registered' = s \/ x.killer \/ s \in overwritten
    PROVE  IInv'
<1>1. /\ ShellOK(shells[s]) /\ shells[s].read \in Nat /\ shells[s].flushed \in Nat
      /\ shells[s] \in ShellType
  BY Facts, ReadNat
<1>2. ShellOK(x)
  BY <1>1 DEF ShellOK, SameFeed
<1>3. ASSUME NEW c \in Conns, Reading(c), conns[c].shell = s
      PROVE  Fed(c, conns[c], x, c \in ousted)
  <2>1. Fed(c, conns[c], shells[s], c \in ousted)
    BY <1>3 DEF IInv, AllFed
  <2> QED BY <2>1, FedSame DEF SameFeed
<1> QED BY <1>2, <1>3, ShellStepKeeps DEF SameFeed

LEMMA ExitKeeps == ASSUME IInv, NEW s \in Shells, Exit(s) PROVE IInv'
<1>1. ASSUME NEW x \in ShellType
      PROVE  LET w == [x EXCEPT !.alive = FALSE] IN
             w \in ShellType /\ SameFeed(x, w) /\ ~w.alive /\ w.read = x.read
  BY DEF ShellType, SameFeed
<1>2. shells[s] \in ShellType
  BY Facts
<1> QED BY <1>1, <1>2, AsideKeeps DEF Exit

LEMMA ReadKeeps == ASSUME IInv, NEW s \in Shells, Read(s) PROVE IInv'
<1>1. ASSUME NEW x \in ShellType
      PROVE  LET w == [x EXCEPT !.read = @ + 1] IN
             /\ w \in ShellType /\ SameFeed(x, w) /\ w.read = x.read + 1
             /\ w.alive = x.alive /\ w.killer = x.killer
  <2>1. ASSUME NEW n \in Nat
        PROVE  LET w == [x EXCEPT !.read = n] IN
               /\ w \in ShellType /\ SameFeed(x, w) /\ w.read = n
               /\ w.alive = x.alive /\ w.killer = x.killer
    BY DEF ShellType, SameFeed
  <2>2. x.read + 1 \in Nat
    BY DEF ShellType
  <2> QED BY <2>1, <2>2
<1>2. shells[s] \in ShellType
  BY Facts
<1>3. shells[s].alive => registered = s \/ shells[s].killer \/ s \in overwritten
  BY DEF IInv, LiveIsRegistered
<1> QED BY <1>1, <1>2, <1>3, AsideKeeps DEF Read

LEMMA DiscardKeeps == ASSUME IInv, NEW s \in Shells, Discard(s) PROVE IInv'
<1>1. /\ registered' \in {Nobody, registered}
      /\ registered' = registered \/ registered = s
  BY DEF Discard, Discarded
<1>2. shells[s] \in ShellType /\ SameFeed(shells[s], shells[s])
  BY Facts DEF SameFeed
<1>3. shells' = [shells EXCEPT ![s] = shells[s]]
  BY Facts DEF Discard
<1> QED BY <1>1, <1>2, <1>3, AsideKeeps DEF Discard

LEMMA KillKeeps == ASSUME IInv, Kill PROVE IInv'
<1>1. ASSUME NEW x \in ShellType
      PROVE  LET w == [x EXCEPT !.killer = x.alive] IN
             /\ w \in ShellType /\ SameFeed(x, w) /\ w.read = x.read
             /\ w.alive => w.killer
  BY DEF ShellType, SameFeed
<1>2. registered \in Shells
  BY DEF IInv, TypeOK, Kill
<1>3. shells[registered] \in ShellType
  BY <1>2, Facts
<1> QED BY <1>1, <1>2, <1>3, AsideKeeps DEF Kill

LEMMA TerminateKeeps == ASSUME IInv, NEW s \in Shells, Terminate(s) PROVE IInv'
<1>1. ASSUME NEW x \in ShellType
      PROVE  LET w == [x EXCEPT !.killer = FALSE, !.alive = FALSE] IN
             w \in ShellType /\ SameFeed(x, w) /\ ~w.alive /\ w.read = x.read
  BY DEF ShellType, SameFeed
<1>2. shells[s] \in ShellType /\ shells \in Seq(ShellType)
  BY Facts
<1>3. shells' = [shells EXCEPT ![s] = [shells[s] EXCEPT !.killer = FALSE, !.alive = FALSE]]
  BY <1>2 DEF Terminate
<1> QED BY <1>1, <1>2, <1>3, AsideKeeps DEF Terminate

-----------------------------------------------------------------------------
(***************************************************************************)
(* The pump.                                                               *)
(***************************************************************************)

\* The ring buffer begins before its last chunk, and never before it did.
LEMMA BeginsOK ==
    ASSUME NEW x \in ShellType, x.evicted <= x.flushed, x.flushed > 0 => x.evicted < x.flushed,
           NEW n \in Nat, x.flushed <= n, NEW e \in Begins(x, n)
    PROVE  /\ e \in Nat /\ x.evicted <= e /\ e <= n
           /\ n > 0 => e < n
<1>1. x.evicted \in Nat /\ x.flushed \in Nat
  BY DEF ShellType
<1>2. CASE e = x.evicted
  BY <1>1, <1>2
<1>3. CASE n # x.flushed /\ e \in (x.evicted + 1)..x.flushed
  BY <1>1, <1>3
<1> QED BY <1>2, <1>3 DEF Begins

LEMMA FlushedKeeps ==
    ASSUME IInv, NEW s \in Shells, shells[s].pump = "run",
           NEW n \in shells[s].flushed..shells[s].read, NEW e \in Begins(shells[s], n),
           NEW last \in BOOLEAN, shells' = [shells EXCEPT ![s] = Flushed(@, n, e, last)],
           UNCHANGED <<registered, conns, overwritten, ousted>>
    PROVE  IInv'
<1> DEFINE x == shells[s]
           w == Flushed(x, n, e, last)
           out == IF x.conn = Nobody THEN <<>> ELSE x.replay \o Reads(x.flushed, n)
<1>1. x \in ShellType /\ ShellOK(x) /\ x.to = Nobody
  BY Facts DEF ShellOK
<1>2. /\ x.flushed \in Nat /\ x.read \in Nat /\ x.evicted \in Nat /\ x.replay \in Seq(Nat)
      /\ x.conn \in Nat /\ x.evicted <= x.flushed /\ x.flushed <= x.read
      /\ x.flushed > 0 => x.evicted < x.flushed
  BY <1>1 DEF ShellType, ShellOK
<1>3. n \in Nat /\ x.flushed <= n /\ n <= x.read
  BY <1>2
<1>4. e \in Nat /\ e <= n /\ (n > 0 => e < n)
  BY <1>1, <1>2, <1>3, BeginsOK
<1>5. out \in Seq(Nat)
  <2>1. ASSUME NEW a \in Nat, a <= n PROVE Reads(a, n) \in Seq(Nat)
    BY <1>3, <2>1, ReadsType
  <2>2. Reads(x.flushed, n) \in Seq(Nat)
    BY <1>2, <1>3, <2>1
  <2> HIDE DEF x
  <2>3. x.replay \o Reads(x.flushed, n) \in Seq(Nat)
    BY <1>2, <2>2, ConcatProperties
  <2> QED BY <2>3
<1>6. shells' = [shells EXCEPT ![s] = w]
  OBVIOUS
<1> HIDE DEF x
<1>7. /\ w.flushed = n /\ w.evicted = e /\ w.replay = <<>> /\ w.frames = out
      /\ w.to = IF out = <<>> THEN Nobody ELSE x.conn
      /\ w.conn = x.conn /\ w.read = x.read /\ w.alive = x.alive /\ w.killer = x.killer
      /\ w.pump = IF out # <<>> THEN (IF last THEN "lastWrite" ELSE "write")
                  ELSE IF last THEN "tell" ELSE "run"
  BY <1>1 DEF Flushed, ShellType
<1>8. w \in ShellType
  <2>1. w = [x EXCEPT !.flushed = n, !.evicted = e, !.replay = <<>>,
              !.to = IF out = <<>> THEN Nobody ELSE x.conn, !.frames = out,
              !.pump = IF out # <<>> THEN (IF last THEN "lastWrite" ELSE "write")
                       ELSE IF last THEN "tell" ELSE "run"]
    BY DEF Flushed
  <2> HIDE DEF w, out
  <2>2. (IF out = <<>> THEN Nobody ELSE x.conn) \in Nat /\ <<>> \in Seq(Nat)
    BY <1>2 DEF Nobody
  <2> QED BY <1>1, <1>3, <1>4, <1>5, <2>1, <2>2 DEF ShellType
<1>9. out # <<>> => x.conn # Nobody
  OBVIOUS
<1> HIDE DEF w
<1>10. ShellOK(w)
  <2>1. w.evicted <= w.flushed /\ w.flushed <= w.read /\ (w.flushed > 0 => w.evicted < w.flushed)
    BY <1>3, <1>4, <1>7
  <2>2. {w.conn, w.to} \subseteq {Nobody} \cup Conns
    BY <1>1, <1>7 DEF ShellOK
  <2>3. (w.to # Nobody) = (w.pump \in {"write", "lastWrite"})
    <3> HIDE DEF out
    <3>1. CASE out = <<>>
      BY <1>7, <3>1
    <3>2. CASE out # <<>>
      BY <1>7, <1>9, <3>2
    <3> QED BY <3>1, <3>2
  <2> QED BY <2>1, <2>2, <2>3 DEF ShellOK
<1>11. ASSUME NEW c \in Conns, Reading(c), conns[c].shell = s
       PROVE  Fed(c, conns[c], w, c \in ousted)
  <2>1. Fed(c, conns[c], x, c \in ousted) /\ c \in Nat \ {0} /\ conns[c] \in ConnType
    BY <1>11, Facts DEF IInv, AllFed, x
  <2> QED BY <1>1, <1>3, <1>7, <2>1, FedFlushed
<1>12. w.alive => registered' = s \/ w.killer \/ s \in overwritten
  BY <1>7 DEF IInv, LiveIsRegistered, x
<1>13. w.conn = shells[s].conn /\ w.to \in {Nobody, shells[s].to, shells[s].conn}
  BY <1>7 DEF x
<1> QED BY <1>6, <1>8, <1>10, <1>11, <1>12, <1>13, ShellStepKeeps

LEMMA FlushKeeps == ASSUME IInv, NEW s \in Shells, Flush(s) PROVE IInv'
<1>1. PICK n \in shells[s].flushed..shells[s].read : \E e \in Begins(shells[s], n) :
           shells' = [shells EXCEPT ![s] = Flushed(@, n, e, FALSE)]
  BY DEF Flush
<1> QED BY <1>1, FlushedKeeps DEF Flush

LEMMA LastFlushKeeps == ASSUME IInv, NEW s \in Shells, LastFlush(s) PROVE IInv'
<1>1. shells[s].flushed <= shells[s].read
  BY Facts DEF ShellOK
<1>2. shells[s].read \in shells[s].flushed..shells[s].read
  BY <1>1, ReadNat
<1> QED BY <1>2, FlushedKeeps DEF LastFlush

LEMMA ClosedIs ==
    ASSUME NEW y \in ConnType
    PROVE  /\ Closed(y) \in ConnType /\ ~Closed(y).open /\ Closed(y).got = <<>>
           /\ Closed(y).at = y.at /\ Closed(y).shell = y.shell
<1>1. ASSUME NEW q \in Seq(Nat), NEW n \in Nat
      PROVE  LET z == [y EXCEPT !.open = FALSE, !.got = q, !.since = n] IN
             /\ z \in ConnType /\ ~z.open /\ z.got = q
             /\ z.at = y.at /\ z.shell = y.shell
  BY DEF ConnType
<1>2. <<>> \in Seq(Nat)
  OBVIOUS
<1> QED BY <1>1, <1>2 DEF Closed

LEMMA GoneIs ==
    /\ Gone \in ConnType /\ ~Gone.open /\ Gone.at = "gone" /\ Gone.shell = Nobody
    /\ NewConn \in ConnType /\ NewConn.got = <<>>
<1>1. NewConn \in ConnType /\ NewConn.got = <<>> /\ NewConn.shell = Nobody
  BY DEF NewConn, ConnType, Nobody
<1>2. ASSUME NEW y \in ConnType
      PROVE  LET z == [y EXCEPT !.at = "gone"] IN
             z \in ConnType /\ z.at = "gone" /\ z.shell = y.shell
  BY DEF ConnType
<1> QED BY <1>1, <1>2, ClosedIs DEF Gone

LEMMA WrittenIs ==
    ASSUME NEW y \in ShellType, NEW p \in {"run", "tell"}
    PROVE  LET v == [y EXCEPT !.pump = p, !.to = Nobody, !.frames = <<>>] IN
           /\ v \in ShellType
           /\ v.flushed = y.flushed /\ v.evicted = y.evicted /\ v.read = y.read
           /\ v.conn = y.conn /\ v.replay = y.replay /\ v.to = Nobody
           /\ v.alive = y.alive /\ v.killer = y.killer /\ v.pump = p
<1>1. ASSUME NEW q \in Seq(Nat), NEW n \in Nat
      PROVE  LET v == [y EXCEPT !.pump = p, !.to = n, !.frames = q] IN
             /\ v \in ShellType
             /\ v.flushed = y.flushed /\ v.evicted = y.evicted /\ v.read = y.read
             /\ v.conn = y.conn /\ v.replay = y.replay /\ v.to = n
             /\ v.alive = y.alive /\ v.killer = y.killer /\ v.pump = p
  BY DEF ShellType
<1>2. <<>> \in Seq(Nat)
  OBVIOUS
<1>3. Nobody \in Nat
  BY DEF Nobody
<1> QED BY <1>1, <1>2, <1>3

LEMMA WriteKeeps == ASSUME IInv, NEW s \in Shells, Write(s) PROVE IInv'
<1> DEFINE x == shells[s]
           d == x.to
           w == shells'[s]
<1>1. /\ x \in ShellType /\ ShellOK(x) /\ shells \in Seq(ShellType) /\ s \in 1..Len(shells)
      /\ conns \in Seq(ConnType) /\ Conns = 1..Len(conns) /\ s \in Nat \ {0}
  BY Facts
<1>2. x.pump \in {"write", "lastWrite"} /\ UNCHANGED <<registered, overwritten, ousted>>
  BY DEF Write
<1>3. d # Nobody /\ d \in Conns /\ d \in 1..Len(conns) /\ d \in Nat \ {0} /\ conns[d] \in ConnType
  BY <1>1, <1>2, Facts DEF ShellOK
<1>4. conns[d].at \notin {"spawning", "attaching"} /\ (conns[d].at = "reading" => conns[d].shell = s)
  BY <1>3 DEF IInv, Places
<1>5. /\ shells' \in Seq(ShellType) /\ Len(shells') = Len(shells)
      /\ \A t \in Shells : t # s => shells'[t] = shells[t]
      /\ w.flushed = x.flushed /\ w.evicted = x.evicted /\ w.read = x.read
      /\ w.conn = x.conn /\ w.replay = x.replay /\ w.to = Nobody
      /\ w.alive = x.alive /\ w.killer = x.killer /\ w.pump \in {"run", "tell"}
  <2> DEFINE p == IF x.pump = "write" THEN "run" ELSE "tell"
             v == [x EXCEPT !.pump = p, !.to = Nobody, !.frames = <<>>]
  <2>2. shells' = [shells EXCEPT ![s] = v]
    BY <1>1 DEF Write
  <2>3. p \in {"run", "tell"}
    OBVIOUS
  <2>0. x \in ShellType
    BY <1>1
  <2> HIDE DEF p, x
  <2>4. /\ v \in ShellType
        /\ v.flushed = x.flushed /\ v.evicted = x.evicted /\ v.read = x.read
        /\ v.conn = x.conn /\ v.replay = x.replay /\ v.to = Nobody
        /\ v.alive = x.alive /\ v.killer = x.killer /\ v.pump = p
    BY <2>0, <2>3, WrittenIs
  <2> HIDE DEF v
  <2>5. /\ shells' \in Seq(ShellType) /\ Len(shells') = Len(shells)
        /\ shells'[s] = v /\ \A t \in Shells : t # s => shells'[t] = shells[t]
    BY <1>1, <2>2, <2>4, ExceptSeq DEF Shells
  <2> QED BY <2>3, <2>4, <2>5
<1>6. PICK z : /\ conns' = [conns EXCEPT ![d] = z] /\ z \in ConnType
               /\ z.at = conns[d].at /\ z.shell = conns[d].shell
               /\ ~z.open \/ (z.got = conns[d].got \o x.frames /\ z.since = conns[d].since
                              /\ conns[d].open)
  <2>1. CASE conns' = [conns EXCEPT ![d] = Closed(@)]
    BY <1>3, <2>1, ClosedIs
  <2>2. CASE conns[d].open /\ conns' = [conns EXCEPT ![d].got = @ \o x.frames]
    <3>1. ASSUME NEW y \in ConnType, NEW q \in Seq(Nat)
          PROVE  LET z == [y EXCEPT !.got = @ \o q] IN
                 /\ z \in ConnType /\ z.at = y.at /\ z.shell = y.shell
                 /\ z.got = y.got \o q /\ z.since = y.since
      <4>1. y.got \o q \in Seq(Nat)
        BY ConcatProperties DEF ConnType
      <4> QED BY <4>1 DEF ConnType
    <3>2. x.frames \in Seq(Nat)
      BY <1>1 DEF ShellType
    <3> QED BY <1>3, <2>2, <3>1, <3>2
  <2> QED BY <2>1, <2>2 DEF Write
<1>7. /\ conns' \in Seq(ConnType) /\ Len(conns') = Len(conns)
      /\ conns'[d] = z /\ \A c \in Conns : c # d => conns'[c] = conns[c]
  <2> HIDE DEF d
  <2> QED BY <1>1, <1>3, <1>6, ExceptSeq DEF Conns
<1>8. ASSUME NEW t \in Shells
      PROVE  /\ ShellOK(shells'[t])
             /\ shells'[t].conn \in {Nobody, shells[t].conn}
             /\ shells'[t].to \in {Nobody, shells[t].to, shells[t].conn}
             /\ shells'[t].alive => registered' = t \/ shells'[t].killer \/ t \in overwritten
  <2>1. CASE t = s
    <3>1. ShellOK(w)
      BY <1>1, <1>5 DEF ShellOK
    <3> QED BY <1>2, <1>5, <2>1, <3>1 DEF IInv, LiveIsRegistered
  <2>2. CASE t # s
    BY <1>2, <1>5, <2>2, Facts DEF IInv, LiveIsRegistered
  <2> QED BY <2>1, <2>2
<1>9. ASSUME NEW c \in Conns
      PROVE  /\ StillOrGone(conns[c], conns'[c])
             /\ Reading(c)' => Fed(c, conns'[c], shells'[conns'[c].shell], c \in ousted')
  <2>0. c \in Nat \ {0} /\ conns[c] \in ConnType
    BY Facts
  <2>1. StillOrGone(conns[c], conns'[c])
    <3> HIDE DEF d
    <3>1. CASE c = d
      BY <1>4, <1>6, <1>7, <3>1 DEF StillOrGone
    <3>2. CASE c # d
      BY <1>7, <3>2 DEF StillOrGone, IInv, Places
    <3> QED BY <3>1, <3>2
  <2>2. ASSUME c # d, Reading(c)
        PROVE  Fed(c, conns[c], shells'[conns[c].shell], c \in ousted)
    <3>1. Fed(c, conns[c], shells[conns[c].shell], c \in ousted) /\ conns[c].shell \in Shells
      BY <2>2 DEF IInv, AllFed, Places, Reading
    <3>2. CASE conns[c].shell = s
      BY <1>5, <2>0, <2>2, <3>1, <3>2, FedSame DEF Nobody
    <3>3. CASE conns[c].shell # s
      BY <1>5, <3>1, <3>3
    <3> QED BY <3>2, <3>3
  <2>3. ASSUME c = d, z.open, z.at = "reading"
        PROVE  Fed(c, z, shells'[z.shell], c \in ousted)
    <3>1. z.shell = s /\ Reading(d) /\ z.got = conns[d].got \o x.frames /\ z.since = conns[d].since
      BY <1>4, <1>6, <2>3 DEF Reading
    <3>2. Fed(d, conns[d], x, d \in ousted)
      BY <1>3, <1>4, <1>6, <2>3, <3>1 DEF IInv, AllFed
    <3>3. Fed(d, z, w, d \in ousted)
      <4> HIDE DEF w
      <4> QED BY <1>1, <1>3, <1>5, <3>1, <3>2, FedWritten
    <3> QED BY <2>3, <3>1, <3>3
  <2> QED BY <1>2, <1>6, <1>7, <2>1, <2>2, <2>3 DEF Reading
<1> QED BY <1>2, <1>5, <1>7, <1>8, <1>9, QuietKeeps DEF Shape, QuietShell, QuietConn

LEMMA NotifyExitKeeps == ASSUME IInv, NEW s \in Shells, NotifyExit(s) PROVE IInv'
<1> DEFINE x == shells[s]
           w == [x EXCEPT !.pump = "done"]
<1>1. /\ x \in ShellType /\ ShellOK(x) /\ shells \in Seq(ShellType) /\ s \in 1..Len(shells)
      /\ conns \in Seq(ConnType) /\ Conns = 1..Len(conns) /\ Len(conns) \in Nat
  BY Facts
<1>2. x.pump = "tell" /\ UNCHANGED <<registered, overwritten, ousted>>
  BY DEF NotifyExit
<1>3. shells' = [shells EXCEPT ![s] = w]
  BY <1>1 DEF NotifyExit
<1> HIDE DEF x
<1>4. /\ w \in ShellType /\ w.flushed = x.flushed /\ w.evicted = x.evicted /\ w.read = x.read
      /\ w.conn = x.conn /\ w.replay = x.replay /\ w.to = x.to /\ w.frames = x.frames
      /\ w.alive = x.alive /\ w.killer = x.killer /\ w.pump = "done"
  BY <1>1 DEF ShellType
<1> HIDE DEF w
<1>5. /\ shells' \in Seq(ShellType) /\ Len(shells') = Len(shells)
      /\ shells'[s] = w /\ \A t \in Shells : t # s => shells'[t] = shells[t]
  BY <1>1, <1>3, <1>4, ExceptSeq DEF Shells
<1>6. ASSUME NEW c \in Conns
      PROVE  /\ conns'[c] \in ConnType /\ conns'[c].at = conns[c].at
             /\ conns'[c].shell = conns[c].shell
             /\ conns'[c].open => conns'[c] = conns[c]
             /\ StillOrGone(conns[c], conns'[c])
  <2>0. conns[c] \in ConnType
    BY Facts
  <2>1. conns'[c] = conns[c] \/ conns'[c] = Closed(conns[c])
    BY DEF NotifyExit
  <2>2. /\ conns'[c] \in ConnType /\ conns'[c].at = conns[c].at
        /\ conns'[c].shell = conns[c].shell
        /\ conns'[c].open => conns'[c] = conns[c]
        /\ conns'[c].got \in {conns[c].got, <<>>}
    BY <2>0, <2>1, ClosedIs
  <2> QED BY <2>2 DEF StillOrGone, IInv, Places
<1>7. conns' \in Seq(ConnType) /\ Len(conns') = Len(conns)
  <2>1. conns' = [c \in 1..Len(conns) |-> conns'[c]]
    BY <1>1 DEF NotifyExit
  <2>2. conns' \in [1..Len(conns) -> ConnType]
    BY <1>1, <1>6, <2>1
  <2> QED BY <1>1, <2>2, SeqDef
<1>8. ASSUME NEW t \in Shells
      PROVE  /\ ShellOK(shells'[t])
             /\ shells'[t].conn \in {Nobody, shells[t].conn}
             /\ shells'[t].to \in {Nobody, shells[t].to, shells[t].conn}
             /\ shells'[t].alive => registered' = t \/ shells'[t].killer \/ t \in overwritten
  <2>1. CASE t = s
    <3>1. ShellOK(w)
      BY <1>1, <1>2, <1>4 DEF ShellOK
    <3> QED BY <1>2, <1>4, <1>5, <2>1, <3>1 DEF IInv, LiveIsRegistered, x
  <2>2. CASE t # s
    BY <1>2, <1>5, <2>2, Facts DEF IInv, LiveIsRegistered
  <2> QED BY <2>1, <2>2
<1>9. ASSUME NEW c \in Conns, Reading(c)'
      PROVE  Fed(c, conns'[c], shells'[conns'[c].shell], c \in ousted')
  <2>1. conns'[c] = conns[c] /\ Reading(c)
    BY <1>6, <1>9 DEF Reading
  <2>2. Fed(c, conns[c], shells[conns[c].shell], c \in ousted) /\ conns[c].shell \in Shells
    BY <2>1 DEF IInv, AllFed, Places, Reading
  <2>3. CASE conns[c].shell = s
    <3>1. Fed(c, conns[c], x, c \in ousted)
      BY <2>2, <2>3 DEF x
    <3>2. Fed(c, conns[c], w, c \in ousted)
      BY <1>4, <3>1, FedSame
    <3> QED BY <1>2, <1>5, <2>1, <2>3, <3>2
  <2>4. CASE conns[c].shell # s
    BY <1>2, <1>5, <2>1, <2>2, <2>4
  <2> QED BY <2>3, <2>4
<1> QED BY <1>2, <1>5, <1>6, <1>7, <1>8, <1>9, QuietKeeps DEF Shape, QuietShell, QuietConn

-----------------------------------------------------------------------------
(***************************************************************************)
(* The socket's end.                                                       *)
(***************************************************************************)

\* One socket closes or goes, and no shell changes.
LEMMA ConnEndKeeps ==
    ASSUME IInv, NEW c \in Conns, NEW z \in ConnType, conns' = [conns EXCEPT ![c] = z],
           ~z.open, StillOrGone(conns[c], z),
           UNCHANGED <<shells, registered, overwritten, ousted>>
    PROVE  IInv'
<1>1. /\ conns' \in Seq(ConnType) /\ Len(conns') = Len(conns)
      /\ conns'[c] = z /\ \A d \in Conns : d # c => conns'[d] = conns[d]
  BY Facts, ExceptSeq DEF Conns
<1>2. ASSUME NEW t \in Shells
      PROVE  /\ ShellOK(shells'[t])
             /\ shells'[t].conn \in {Nobody, shells[t].conn}
             /\ shells'[t].to \in {Nobody, shells[t].to, shells[t].conn}
             /\ shells'[t].alive => registered' = t \/ shells'[t].killer \/ t \in overwritten
  BY Facts DEF IInv, LiveIsRegistered
<1>3. ASSUME NEW d \in Conns
      PROVE  /\ StillOrGone(conns[d], conns'[d])
             /\ Reading(d)' => Fed(d, conns'[d], shells'[conns'[d].shell], d \in ousted')
  <2>1. CASE d = c
    BY <1>1, <2>1 DEF Reading
  <2>2. CASE d # c
    <3>1. StillOrGone(conns[d], conns'[d])
      BY <1>1, <2>2 DEF StillOrGone, IInv, Places
    <3> QED BY <1>1, <2>2, <3>1 DEF Reading, IInv, AllFed
  <2> QED BY <2>1, <2>2
<1> QED BY <1>1, <1>2, <1>3, QuietKeeps DEF IInv, Shape, QuietShell, QuietConn

LEMMA DropKeeps == ASSUME IInv, NEW c \in Conns, Drop(c) PROVE IInv'
<1>1. conns[c] \in ConnType
  BY Facts
<1>2. StillOrGone(conns[c], Closed(conns[c]))
  BY <1>1, ClosedIs DEF StillOrGone
<1> QED BY <1>1, <1>2, ClosedIs, ConnEndKeeps DEF Drop

LEMMA SpawnFailsKeeps == ASSUME IInv, NEW c \in Conns, SpawnFails(c) PROVE IInv'
<1>1. StillOrGone(conns[c], Gone)
  BY GoneIs DEF StillOrGone
<1> QED BY <1>1, GoneIs, ConnEndKeeps DEF SpawnFails

LEMMA DetachKeeps == ASSUME IInv, NEW c \in Conns, Detach(c) PROVE IInv'
<1>1. /\ conns \in Seq(ConnType) /\ Conns = 1..Len(conns) /\ c \in Nat \ {0}
      /\ shells \in Seq(ShellType) /\ Shells = 1..Len(shells) /\ Len(shells) \in Nat
  BY Facts
<1>2. /\ conns' \in Seq(ConnType) /\ Len(conns') = Len(conns)
      /\ conns'[c] = Gone /\ \A d \in Conns : d # c => conns'[d] = conns[d]
  BY <1>1, GoneIs, ExceptSeq DEF Detach
<1>3. UNCHANGED <<registered, overwritten>> /\ ousted' = ousted \ {c}
  BY DEF Detach
<1>4. ASSUME NEW s \in Shells
      PROVE  /\ shells'[s] \in ShellType /\ ShellOK(shells'[s])
             /\ shells'[s].conn = shells[s].conn \/ (shells[s].conn = c /\ shells'[s].conn = Nobody)
             /\ shells'[s].flushed = shells[s].flushed /\ shells'[s].replay = shells[s].replay
             /\ shells'[s].to = shells[s].to /\ shells'[s].frames = shells[s].frames
             /\ shells'[s].alive = shells[s].alive /\ shells'[s].killer = shells[s].killer
  <2>0. shells[s] \in ShellType /\ ShellOK(shells[s])
    BY Facts
  <2>1. \/ shells'[s] = shells[s]
        \/ shells[s].conn = c /\ shells'[s] = [shells[s] EXCEPT !.conn = Nobody]
    BY DEF Detach
  <2>2. ASSUME NEW x \in ShellType, ShellOK(x)
        PROVE  LET w == [x EXCEPT !.conn = Nobody] IN
               /\ w \in ShellType /\ ShellOK(w) /\ w.conn = Nobody
               /\ w.flushed = x.flushed /\ w.replay = x.replay
               /\ w.to = x.to /\ w.frames = x.frames
               /\ w.alive = x.alive /\ w.killer = x.killer
    BY <2>2 DEF ShellType, ShellOK, Nobody
  <2>3. CASE shells'[s] = shells[s]
    BY <2>0, <2>3
  <2>4. CASE shells[s].conn = c /\ shells'[s] = [shells[s] EXCEPT !.conn = Nobody]
    BY <2>0, <2>2, <2>4
  <2> QED BY <2>1, <2>3, <2>4
<1>5. shells' \in Seq(ShellType) /\ Len(shells') = Len(shells)
  <2>1. shells' = [s \in 1..Len(shells) |-> shells'[s]]
    BY <1>1 DEF Detach
  <2>2. shells' \in [1..Len(shells) -> ShellType]
    BY <1>1, <1>4, <2>1
  <2> QED BY <1>1, <2>2, SeqDef
<1>6. ASSUME NEW s \in Shells
      PROVE  /\ ShellOK(shells'[s])
             /\ shells'[s].conn \in {Nobody, shells[s].conn}
             /\ shells'[s].to \in {Nobody, shells[s].to, shells[s].conn}
             /\ shells'[s].alive => registered' = s \/ shells'[s].killer \/ s \in overwritten
  BY <1>3, <1>4 DEF IInv, LiveIsRegistered
<1>7. ASSUME NEW d \in Conns
      PROVE  /\ StillOrGone(conns[d], conns'[d])
             /\ Reading(d)' => Fed(d, conns'[d], shells'[conns'[d].shell], d \in ousted')
  <2>1. CASE d = c
    BY <1>2, <2>1, GoneIs DEF StillOrGone, Reading
  <2>2. CASE d # c
    <3>1. StillOrGone(conns[d], conns'[d]) /\ conns'[d] = conns[d] /\ conns[d] \in ConnType
      BY <1>2, <2>2, Facts DEF StillOrGone, IInv, Places
    <3>2. ASSUME Reading(d)
          PROVE  Fed(d, conns[d], shells'[conns[d].shell], d \in ousted)
      <4> DEFINE t == conns[d].shell
      <4>1. t \in Shells /\ Fed(d, conns[d], shells[t], d \in ousted) /\ d \in Nat \ {0}
        BY <3>2, Facts DEF Reading, IInv, AllFed, Places
      <4>2. CASE shells'[t].conn = shells[t].conn
        <5>1. Fed(d, conns[d], shells'[t], d \in ousted)
          <6> HIDE DEF t
          <6> QED BY <1>4, <4>1, <4>2, FedSame
        <5> QED BY <5>1
      <4>3. CASE shells[t].conn = c /\ shells'[t].conn = Nobody
        <5>1. d \in ousted
          BY <2>2, <4>1, <4>3 DEF Fed
        <5>2. Fed(d, conns[d], shells'[t], TRUE)
          <6> HIDE DEF t
          <6>1. shells[t] \in ShellType /\ shells'[t].conn # d
            BY <4>1, <4>3, Facts DEF Nobody
          <6> QED BY <1>4, <3>1, <4>1, <6>1, FedReplaced
        <5> QED BY <5>1, <5>2
      <4> QED BY <1>4, <4>1, <4>2, <4>3
    <3> QED BY <1>3, <2>2, <3>1, <3>2 DEF Reading
  <2> QED BY <2>1, <2>2
<1> QED BY <1>2, <1>3, <1>5, <1>6, <1>7, QuietKeeps DEF Shape, QuietShell, QuietConn

-----------------------------------------------------------------------------
(***************************************************************************)
(* A socket's beginning.                                                   *)
(***************************************************************************)

LEMMA ConnectKeeps == ASSUME IInv, Connect PROVE IInv'
<1> DEFINE at == IF registered = Nobody THEN "spawning" ELSE "attaching"
           y == [NewConn EXCEPT !.at = at, !.shell = registered]
           new == Len(conns) + 1
<1>1. /\ conns \in Seq(ConnType) /\ Conns = 1..Len(conns) /\ Len(conns) \in Nat
      /\ shells \in Seq(ShellType) /\ Shells = 1..Len(shells) /\ Len(shells) \in Nat
  BY Facts
<1>2. UNCHANGED <<shells, registered, overwritten, ousted>> /\ conns' = Append(conns, y)
  BY DEF Connect
<1>3. registered \in {Nobody} \cup Shells /\ registered \in Nat
  BY <1>1 DEF IInv, TypeOK, Nobody
<1>4. /\ y \in ConnType /\ y.at = at /\ y.shell = registered /\ y.got = <<>>
      /\ at \in {"spawning", "attaching"} /\ (at = "attaching" => registered \in Shells)
  <2>1. at \in {"spawning", "attaching"} /\ (at = "attaching" => registered \in Shells)
    BY <1>3
  <2>2. NewConn \in ConnType /\ NewConn.got = <<>>
    BY GoneIs
  <2> HIDE DEF at
  <2>3. y \in ConnType /\ y.at = at /\ y.shell = registered /\ y.got = NewConn.got
    BY <1>3, <2>1, <2>2 DEF ConnType
  <2> QED BY <2>1, <2>2, <2>3
<1> HIDE DEF y
<1>5. /\ conns' \in Seq(ConnType) /\ Len(conns') = new /\ conns'[new] = y
      /\ \A c \in Conns : conns'[c] = conns[c]
  BY <1>1, <1>2, <1>4, AppendProperties
<1>6. Conns' = 1..new /\ Conns' = Conns \cup {new} /\ new \notin Conns /\ new \in Nat \ {0}
  BY <1>1, <1>5 DEF Conns
<1>7. Shells' = Shells /\ Shape'
  BY <1>1, <1>2, <1>5 DEF Shells, Shape
<1>8. TypeOK'
  <2>1. ASSUME NEW c \in Conns'
        PROVE  /\ conns'[c].at \in {"spawning", "attaching", "reading", "gone"}
               /\ conns'[c].shell \in {Nobody} \cup Shells
               /\ conns'[c].open \in BOOLEAN
    <3>1. CASE c = new
      BY <1>3, <1>4, <1>5, <3>1 DEF ConnType
    <3>2. CASE c \in Conns
      BY <1>5, <3>2 DEF IInv, TypeOK
    <3> QED BY <1>6, <3>1, <3>2
  <2> QED BY <1>2, <1>6, <1>7, <2>1 DEF IInv, TypeOK
<1>9. ASSUME NEW s \in Shells PROVE shells[s].conn # new /\ shells[s].to # new
  <2>1. {shells[s].conn, shells[s].to} \subseteq {Nobody} \cup Conns
    BY DEF IInv, TypeOK
  <2> QED BY <1>6, <2>1 DEF Nobody
<1>10. new \notin ousted
  BY <1>6 DEF IInv, TypeOK
<1>11. Places'
  <2>1. ASSUME NEW c \in Conns'
        PROVE  /\ conns'[c].at \in {"attaching", "reading"} => conns'[c].shell \in Shells
               /\ conns'[c].at \in {"spawning", "attaching"} =>
                     /\ conns'[c].got = <<>> /\ c \notin ousted
                     /\ \A s \in Shells : shells[s].conn # c /\ shells[s].to # c
    <3>1. CASE c = new
      <4> HIDE DEF at, new
      <4> QED BY <1>4, <1>5, <1>9, <1>10, <3>1
    <3>2. CASE c \in Conns
      BY <1>5, <3>2 DEF IInv, Places
    <3> QED BY <1>6, <3>1, <3>2
  <2>2. ASSUME NEW s \in Shells, NEW c \in Conns', shells[s].conn = c \/ shells[s].to = c,
               conns'[c].at = "reading"
        PROVE  conns'[c].shell = s
    <3>1. c \in Conns
      BY <1>6, <1>9, <2>2
    <3> QED BY <1>5, <2>2, <3>1 DEF IInv, Places
  <2> QED BY <1>2, <1>7, <2>1, <2>2 DEF Places
<1>12. AllFed'
  <2>1. ASSUME NEW c \in Conns', Reading(c)'
        PROVE  Fed(c, conns'[c], shells[conns'[c].shell], c \in ousted)
    <3>1. c \in Conns
      BY <1>4, <1>5, <1>6, <2>1 DEF Reading
    <3>2. Reading(c)
      BY <1>5, <2>1, <3>1 DEF Reading
    <3> QED BY <1>5, <3>1, <3>2 DEF IInv, AllFed
  <2> QED BY <1>2, <2>1 DEF AllFed
<1>13. LiveIsRegistered'
  BY <1>2, <1>7 DEF IInv, LiveIsRegistered
<1> QED BY <1>7, <1>8, <1>11, <1>12, <1>13 DEF IInv

LEMMA NewShellIs ==
    /\ NewShell \in ShellType
    /\ NewShell.evicted = 0 /\ NewShell.flushed = 0 /\ NewShell.read = 0
    /\ NewShell.conn = Nobody /\ NewShell.to = Nobody /\ NewShell.pump = "run"
<1>1. <<>> \in Seq(Nat)
  OBVIOUS
<1> QED BY <1>1 DEF NewShell, ShellType, Nobody

LEMMA SpawnKeeps == ASSUME IInv, NEW c \in Conns, Spawn(c) PROVE IInv'
<1> DEFINE new == Len(shells) + 1
           z == [conns[c] EXCEPT !.at = "attaching", !.shell = new]
<1>1. /\ conns \in Seq(ConnType) /\ Conns = 1..Len(conns) /\ c \in Nat \ {0}
      /\ shells \in Seq(ShellType) /\ Shells = 1..Len(shells) /\ Len(shells) \in Nat
      /\ conns[c] \in ConnType
  BY Facts
<1>2. /\ conns[c].at = "spawning" /\ UNCHANGED ousted /\ shells' = Append(shells, NewShell)
      /\ registered' = Len(shells')
      /\ overwritten' = overwritten \cup ({registered} \ {Nobody})
      /\ conns' = [conns EXCEPT ![c].at = "attaching", ![c].shell = Len(shells')]
  BY DEF Spawn
<1>3. /\ shells' \in Seq(ShellType) /\ Len(shells') = new /\ shells'[new] = NewShell
      /\ \A s \in Shells : shells'[s] = shells[s]
  BY <1>1, <1>2, NewShellIs, AppendProperties
<1>4. /\ Shells' = Shells \cup {new} /\ new \notin Shells /\ new \in Nat \ {0}
      /\ registered' = new
  BY <1>1, <1>2, <1>3 DEF Shells
<1> HIDE DEF new
<1>5. z \in ConnType /\ z.at = "attaching" /\ z.shell = new /\ z.got = conns[c].got
  <2>1. ASSUME NEW y \in ConnType, NEW n \in Nat
        PROVE  LET v == [y EXCEPT !.at = "attaching", !.shell = n] IN
               v \in ConnType /\ v.at = "attaching" /\ v.shell = n /\ v.got = y.got
    BY DEF ConnType
  <2> QED BY <1>1, <1>4, <2>1
<1>6. conns' = [conns EXCEPT ![c] = z]
  BY <1>1, <1>2, <1>3
<1> HIDE DEF z
<1>7. /\ conns' \in Seq(ConnType) /\ Len(conns') = Len(conns)
      /\ conns'[c] = z /\ \A d \in Conns : d # c => conns'[d] = conns[d]
  BY <1>1, <1>5, <1>6, ExceptSeq
<1>8. Conns' = Conns /\ Shape'
  BY <1>1, <1>3, <1>7 DEF Conns, Shape
<1>9. TypeOK'
  <2>1. registered' \in Shells' /\ overwritten' \subseteq Shells' /\ ousted' \subseteq Conns
    BY <1>2, <1>4 DEF IInv, TypeOK
  <2>2. ASSUME NEW s \in Shells'
        PROVE  LET x == shells'[s] IN
               /\ {x.alive, x.killer} \subseteq BOOLEAN
               /\ x.pump \in {"run", "write", "lastWrite", "tell", "done"}
               /\ x.evicted <= x.flushed /\ x.flushed <= x.read
               /\ x.flushed > 0 => x.evicted < x.flushed
               /\ {x.conn, x.to} \subseteq {Nobody} \cup Conns
               /\ (x.to # Nobody) = (x.pump \in {"write", "lastWrite"})
    <3>1. CASE s = new
      BY <1>3, <3>1, NewShellIs DEF ShellType
    <3>2. CASE s \in Shells
      BY <1>3, <3>2 DEF IInv, TypeOK
    <3> QED BY <1>4, <3>1, <3>2
  <2>3. ASSUME NEW d \in Conns
        PROVE  /\ conns'[d].at \in {"spawning", "attaching", "reading", "gone"}
               /\ conns'[d].shell \in {Nobody} \cup Shells'
               /\ conns'[d].open \in BOOLEAN
    <3>1. CASE d = c
      BY <1>4, <1>5, <1>7, <3>1 DEF ConnType
    <3>2. CASE d # c
      BY <1>4, <1>7, <3>2 DEF IInv, TypeOK
    <3> QED BY <3>1, <3>2
  <2> QED BY <1>8, <2>1, <2>2, <2>3 DEF TypeOK
<1>10. Places'
  <2>1. ASSUME NEW d \in Conns
        PROVE  /\ conns'[d].at \in {"attaching", "reading"} => conns'[d].shell \in Shells'
               /\ conns'[d].at \in {"spawning", "attaching"} =>
                     /\ conns'[d].got = <<>> /\ d \notin ousted'
                     /\ \A s \in Shells' : shells'[s].conn # d /\ shells'[s].to # d
    <3>1. conns[d].at \in {"spawning", "attaching"} =>
                     /\ conns[d].got = <<>> /\ d \notin ousted
                     /\ \A s \in Shells' : shells'[s].conn # d /\ shells'[s].to # d
      <4>1. d # Nobody
        BY Facts DEF Nobody
      <4> QED BY <1>3, <1>4, <4>1, NewShellIs DEF IInv, Places
    <3>0. conns[c].at = "spawning" /\ ousted' = ousted
      BY <1>2
    <3>2. CASE d = c
      <4>1. conns'[d].at = "attaching" /\ conns'[d].shell \in Shells' /\ conns'[d].got = conns[d].got
        BY <1>4, <1>5, <1>7, <3>2
      <4>2. conns[d].at = "spawning"
        BY <3>0, <3>2
      <4> QED BY <3>0, <3>1, <4>1, <4>2
    <3>3. CASE d # c
      <4>1. conns'[d] = conns[d]
        BY <1>7, <3>3
      <4>2. conns[d].at \in {"attaching", "reading"} => conns[d].shell \in Shells'
        BY <1>4 DEF IInv, Places
      <4> QED BY <3>0, <3>1, <4>1, <4>2
    <3> QED BY <3>2, <3>3
  <2>2. ASSUME NEW s \in Shells', NEW d \in Conns, shells'[s].conn = d \/ shells'[s].to = d,
               conns'[d].at = "reading"
        PROVE  conns'[d].shell = s
    <3>1. d # c /\ d # Nobody
      BY <1>5, <1>7, <2>2, Facts DEF Nobody
    <3>2. s \in Shells
      BY <1>3, <1>4, <2>2, <3>1, NewShellIs
    <3> QED BY <1>3, <1>7, <2>2, <3>1, <3>2 DEF IInv, Places
  <2> QED BY <1>8, <2>1, <2>2 DEF Places
<1>11. AllFed'
  <2>1. ASSUME NEW d \in Conns, Reading(d)'
        PROVE  Fed(d, conns'[d], shells'[conns'[d].shell], d \in ousted')
    <3>1. d # c
      BY <1>5, <1>7, <2>1 DEF Reading
    <3>2. conns'[d] = conns[d] /\ Reading(d)
      BY <1>7, <2>1, <3>1 DEF Reading
    <3>3. conns[d].shell \in Shells /\ Fed(d, conns[d], shells[conns[d].shell], d \in ousted)
      BY <3>2 DEF Reading, IInv, AllFed, Places
    <3> QED BY <1>2, <1>3, <3>2, <3>3
  <2> QED BY <1>8, <2>1 DEF AllFed
<1>12. LiveIsRegistered'
  <2>1. ASSUME NEW s \in Shells', shells'[s].alive
        PROVE  registered' = s \/ shells'[s].killer \/ s \in overwritten'
    <3>1. CASE s = new
      BY <1>4, <3>1
    <3>2. CASE s \in Shells
      <4>1. registered = s \/ shells[s].killer \/ s \in overwritten
        BY <1>3, <2>1, <3>2 DEF IInv, LiveIsRegistered
      <4>2. s # Nobody
        BY <3>2, Facts DEF Nobody
      <4> QED BY <1>2, <1>3, <3>2, <4>1, <4>2
    <3> QED BY <1>4, <3>1, <3>2
  <2> QED BY <2>1 DEF LiveIsRegistered
<1> QED BY <1>8, <1>9, <1>10, <1>11, <1>12 DEF IInv

\* A shell as attachConn leaves it.
AttachedTo(x, c) == [x EXCEPT !.conn = c, !.replay = <<0>> \o Reads(x.evicted, x.flushed)]

LEMMA AttachedIs ==
    ASSUME IInv, NEW x \in ShellType, ShellOK(x), NEW c \in Conns
    PROVE  LET w == AttachedTo(x, c) IN
           /\ w \in ShellType /\ ShellOK(w) /\ w.conn = c /\ w.flushed = x.flushed
           /\ w.replay = <<0>> \o Reads(x.evicted, x.flushed)
           /\ w.to = x.to /\ w.frames = x.frames /\ w.alive = x.alive /\ w.killer = x.killer
<1>1. c \in Nat
  BY Facts
<1>2. <<0>> \o Reads(x.evicted, x.flushed) \in Seq(Nat)
  <2>1. ASSUME NEW a \in Nat, NEW b \in Nat, a <= b PROVE <<0>> \o Reads(a, b) \in Seq(Nat)
    BY <2>1, StreamType
  <2> QED BY <2>1 DEF ShellType, ShellOK
<1>3. ASSUME NEW q \in Seq(Nat)
      PROVE  LET w == [x EXCEPT !.conn = c, !.replay = q] IN
             /\ w \in ShellType /\ ShellOK(w) /\ w.conn = c /\ w.flushed = x.flushed
             /\ w.replay = q
             /\ w.to = x.to /\ w.frames = x.frames /\ w.alive = x.alive /\ w.killer = x.killer
  BY <1>1 DEF ShellType, ShellOK
<1> QED BY <1>2, <1>3 DEF AttachedTo

LEMMA AttachKeeps == ASSUME IInv, NEW c \in Conns, Attach(c) PROVE IInv'
<1> DEFINE s == conns[c].shell
           x == shells[s]
           w == AttachedTo(x, c)
           since == IF conns[c].open THEN x.evicted ELSE 0
           z == [conns[c] EXCEPT !.at = "reading", !.since = since]
<1>1. /\ conns \in Seq(ConnType) /\ Conns = 1..Len(conns) /\ c \in Nat \ {0}
      /\ shells \in Seq(ShellType) /\ Shells = 1..Len(shells) /\ Len(shells) \in Nat
      /\ conns[c] \in ConnType
  BY Facts
<1>2. conns[c].at = "attaching" /\ UNCHANGED <<registered, overwritten>>
  BY DEF Attach
<1>3. ousted' = ousted \cup ({x.conn} \ {Nobody})
  BY DEF Attach
<1>4. /\ s \in Shells /\ conns[c].got = <<>> /\ c \notin ousted
      /\ \A t \in Shells : shells[t].conn # c /\ shells[t].to # c
  BY <1>2 DEF IInv, Places
<1>5. shells' = [shells EXCEPT ![s] = w]
  BY <1>1, <1>4 DEF Attach, AttachedTo
<1>6. conns' = [conns EXCEPT ![c] = z]
  BY <1>1 DEF Attach
<1> HIDE DEF s
<1>7. x \in ShellType /\ ShellOK(x) /\ x.conn # c /\ x.to # c /\ s \in Nat \ {0}
  BY <1>4, Facts
<1> HIDE DEF x
<1>8. /\ w \in ShellType /\ ShellOK(w) /\ w.conn = c /\ w.flushed = x.flushed
      /\ w.replay = <<0>> \o Reads(x.evicted, x.flushed)
      /\ w.to = x.to /\ w.frames = x.frames /\ w.alive = x.alive /\ w.killer = x.killer
  BY <1>7, AttachedIs
<1> HIDE DEF w
<1>9. /\ shells' \in Seq(ShellType) /\ Len(shells') = Len(shells)
      /\ shells'[s] = w /\ \A t \in Shells : t # s => shells'[t] = shells[t]
  BY <1>1, <1>4, <1>5, <1>8, ExceptSeq
<1>10. /\ z \in ConnType /\ z.at = "reading" /\ z.shell = s /\ z.got = <<>>
       /\ z.open = conns[c].open /\ (z.open => z.since = x.evicted)
  <2>1. since \in Nat /\ (conns[c].open => since = x.evicted)
    BY <1>7 DEF ShellType
  <2>2. ASSUME NEW y \in ConnType, NEW n \in Nat
        PROVE  LET v == [y EXCEPT !.at = "reading", !.since = n] IN
               /\ v \in ConnType /\ v.at = "reading" /\ v.shell = y.shell
               /\ v.got = y.got /\ v.open = y.open /\ v.since = n
    BY DEF ConnType
  <2> HIDE DEF since
  <2>3. /\ z \in ConnType /\ z.at = "reading" /\ z.shell = conns[c].shell
        /\ z.got = conns[c].got /\ z.open = conns[c].open /\ z.since = since
    BY <1>1, <2>1, <2>2
  <2> QED BY <1>4, <2>1, <2>3 DEF s
<1> HIDE DEF z
<1>11. /\ conns' \in Seq(ConnType) /\ Len(conns') = Len(conns)
       /\ conns'[c] = z /\ \A d \in Conns : d # c => conns'[d] = conns[d]
  BY <1>1, <1>6, <1>10, ExceptSeq
<1>12. Conns' = Conns /\ Shells' = Shells /\ Shape'
  BY <1>1, <1>9, <1>11 DEF Conns, Shells, Shape
<1>13. TypeOK'
  <2>1. ousted' \subseteq Conns
    BY <1>3, <1>7 DEF IInv, TypeOK, ShellOK
  <2>2. ASSUME NEW t \in Shells
        PROVE  LET v == shells'[t] IN
               /\ {v.alive, v.killer} \subseteq BOOLEAN
               /\ v.pump \in {"run", "write", "lastWrite", "tell", "done"}
               /\ v.evicted <= v.flushed /\ v.flushed <= v.read
               /\ v.flushed > 0 => v.evicted < v.flushed
               /\ {v.conn, v.to} \subseteq {Nobody} \cup Conns
               /\ (v.to # Nobody) = (v.pump \in {"write", "lastWrite"})
    <3>1. CASE t = s
      BY <1>8, <1>9, <3>1 DEF ShellType, ShellOK
    <3>2. CASE t # s
      BY <1>9, <3>2 DEF IInv, TypeOK
    <3> QED BY <3>1, <3>2
  <2>3. ASSUME NEW d \in Conns
        PROVE  /\ conns'[d].at \in {"spawning", "attaching", "reading", "gone"}
               /\ conns'[d].shell \in {Nobody} \cup Shells
               /\ conns'[d].open \in BOOLEAN
    <3>1. CASE d = c
      BY <1>4, <1>10, <1>11, <3>1 DEF ConnType
    <3>2. CASE d # c
      BY <1>11, <3>2 DEF IInv, TypeOK
    <3> QED BY <3>1, <3>2
  <2> QED BY <1>2, <1>12, <2>1, <2>2, <2>3 DEF TypeOK, IInv
<1>14. Places'
  <2>1. ASSUME NEW d \in Conns
        PROVE  /\ conns'[d].at \in {"attaching", "reading"} => conns'[d].shell \in Shells
               /\ conns'[d].at \in {"spawning", "attaching"} =>
                     /\ conns'[d].got = <<>> /\ d \notin ousted'
                     /\ \A t \in Shells : shells'[t].conn # d /\ shells'[t].to # d
    <3>1. CASE d = c
      BY <1>4, <1>10, <1>11, <3>1
    <3>2. CASE d # c
      <4>1. conns'[d] = conns[d]
        BY <1>11, <3>2
      <4>2. conns[d].at \in {"attaching", "reading"} => conns[d].shell \in Shells
        BY DEF IInv, Places
      <4>3. ASSUME conns[d].at \in {"spawning", "attaching"}
            PROVE  /\ conns[d].got = <<>> /\ d \notin ousted'
                   /\ \A t \in Shells : shells'[t].conn # d /\ shells'[t].to # d
        <5>1. /\ conns[d].got = <<>> /\ d \notin ousted
              /\ \A t \in Shells : shells[t].conn # d /\ shells[t].to # d
          BY <4>3 DEF IInv, Places
        <5>2. x.conn # d /\ x.to # d
          BY <1>4, <5>1 DEF x
        <5> QED BY <1>3, <1>8, <1>9, <3>2, <5>1, <5>2
      <4> QED BY <4>1, <4>2, <4>3
    <3> QED BY <3>1, <3>2
  <2>2. ASSUME NEW t \in Shells, NEW d \in Conns, shells'[t].conn = d \/ shells'[t].to = d,
               conns'[d].at = "reading"
        PROVE  conns'[d].shell = t
    <3>1. CASE d = c
      <4>1. t = s
        BY <1>4, <1>9, <2>2, <3>1
      <4> QED BY <1>10, <1>11, <3>1, <4>1
    <3>2. CASE d # c
      <4>1. shells[t].conn = d \/ shells[t].to = d
        BY <1>8, <1>9, <2>2, <3>2 DEF x
      <4> QED BY <1>11, <2>2, <3>2, <4>1 DEF IInv, Places
    <3> QED BY <3>1, <3>2
  <2> QED BY <1>12, <2>1, <2>2 DEF Places
<1>15. AllFed'
  <2>1. ASSUME NEW d \in Conns, Reading(d)'
        PROVE  Fed(d, conns'[d], shells'[conns'[d].shell], d \in ousted')
    <3>1. CASE d = c
      <4>1. c \notin ousted'
        BY <1>3, <1>4, <1>7
      <4>2. z.since = x.evicted
        BY <1>10, <1>11, <2>1, <3>1 DEF Reading
      <4>3. Fed(c, z, w, FALSE)
        BY <1>7, <1>8, <1>10, <4>2, FedAttached DEF ShellOK, StreamOf
      <4>4. (c \in ousted') = FALSE
        BY <4>1
      <4> QED BY <1>9, <1>10, <1>11, <3>1, <4>3, <4>4
    <3>2. CASE d # c
      <4> DEFINE t == conns[d].shell
      <4>1. conns'[d] = conns[d] /\ Reading(d) /\ conns[d] \in ConnType /\ d # Nobody
        BY <1>11, <2>1, <3>2, Facts DEF Reading, Nobody
      <4>2. t \in Shells /\ Fed(d, conns[d], shells[t], d \in ousted)
        BY <4>1 DEF IInv, AllFed, Places, Reading
      <4>3. CASE t # s
        <5>1. x.conn # d
          BY <1>4, <4>1, <4>3 DEF IInv, Places, Reading, x
        <5>2. (d \in ousted') = (d \in ousted)
          BY <1>3, <5>1
        <5> QED BY <1>9, <4>1, <4>2, <4>3, <5>2
      <4>4. CASE t = s
        <5>1. Fed(d, conns[d], x, d \in ousted)
          BY <4>2, <4>4 DEF x
        <5>2. d \in ousted \/ x.conn = d
          BY <5>1 DEF Fed
        <5>3. (d \in ousted') = TRUE
          BY <1>3, <4>1, <5>2
        <5>4. Fed(d, conns[d], w, TRUE)
          BY <1>7, <1>8, <3>2, <4>1, <5>1, FedReplaced
        <5> QED BY <1>9, <4>1, <4>4, <5>3, <5>4
      <4> QED BY <4>3, <4>4
    <3> QED BY <3>1, <3>2
  <2> QED BY <1>12, <2>1 DEF AllFed
<1>16. LiveIsRegistered'
  <2>1. ASSUME NEW t \in Shells, shells'[t].alive
        PROVE  registered = t \/ shells'[t].killer \/ t \in overwritten
    <3>1. shells'[t].alive = shells[t].alive /\ shells'[t].killer = shells[t].killer
      BY <1>8, <1>9 DEF x
    <3> QED BY <2>1, <3>1 DEF IInv, LiveIsRegistered
  <2> QED BY <1>2, <1>12, <2>1 DEF LiveIsRegistered
<1> QED BY <1>12, <1>13, <1>14, <1>15, <1>16 DEF IInv

-----------------------------------------------------------------------------
LEMMA InitIInv == Init => IInv
<1> SUFFICES ASSUME Init PROVE IInv
  OBVIOUS
<1>1. shells = <<>> /\ conns = <<>> /\ registered = Nobody /\ overwritten = {} /\ ousted = {}
  BY DEF Init
<1>2. Shells = {} /\ Conns = {}
  BY <1>1 DEF Shells, Conns
<1>3. Shape
  BY <1>1 DEF Shape
<1> QED BY <1>1, <1>2, <1>3 DEF IInv, TypeOK, Places, AllFed, LiveIsRegistered

LEMMA StepIInv == IInv /\ [Next]_vars => IInv'
<1> SUFFICES ASSUME IInv, [Next]_vars PROVE IInv'
  OBVIOUS
<1>1. ASSUME NEW s \in Shells, Exit(s) \/ Read(s) \/ PumpStep(s) \/ Terminate(s) \/ Discard(s)
      PROVE  IInv'
  BY <1>1, ExitKeeps, ReadKeeps, FlushKeeps, LastFlushKeeps, WriteKeeps, NotifyExitKeeps,
     TerminateKeeps, DiscardKeeps DEF PumpStep
<1>2. CASE Kill \/ Connect
  BY <1>2, KillKeeps, ConnectKeeps
<1>3. ASSUME NEW c \in Conns, HandlerStep(c) \/ Drop(c) PROVE IInv'
  BY <1>3, SpawnKeeps, SpawnFailsKeeps, AttachKeeps, DetachKeeps, DropKeeps DEF HandlerStep
<1>4. CASE UNCHANGED vars
  BY <1>4 DEF vars, IInv, Shape, TypeOK, Shells, Conns, Places, AllFed, Reading, LiveIsRegistered
<1> QED BY <1>1, <1>2, <1>3, <1>4 DEF Next

\* What holds of the shells, their pumps and their sockets between any two steps.
THEOREM TerminalsInvariant == Spec => []IInv
BY InitIInv, StepIInv, PTL DEF Spec

\* Shells, sockets and the registry have their types.
THEOREM TerminalsTyped == Spec => []TypeOK
<1>1. IInv => TypeOK
  BY DEF IInv
<1> QED BY <1>1, TerminalsInvariant, PTL

\* Every byte is delivered once and in order, for every ring buffer and however
\* many sockets come, go, break and take each other's place: what an open socket was
\* sent is a prefix of its stream, and all of it once its pump has nothing left for
\* it, unless another socket took its place.
THEOREM OutputIsExact == Spec => []StreamIsExact
<1>1. IInv => StreamIsExact
  <2> SUFFICES ASSUME IInv, NEW c \in Conns, Reading(c)
               PROVE  LET x == shells[conns[c].shell] IN
                      /\ IsPrefix(conns[c].got, Stream(c))
                      /\ c \notin ousted =>
                            /\ x.conn = c
                            /\ x.replay = <<>> /\ x.to # c => conns[c].got = Stream(c)
    BY DEF StreamIsExact, Reading
  <2> DEFINE y == conns[c]
             x == shells[y.shell]
  <2>1. Fed(c, y, x, c \in ousted) /\ y \in ConnType /\ x \in ShellType
    BY Facts DEF IInv, AllFed, Places, Reading
  <2>2. StreamOf(y, x) = Stream(c)
    BY DEF StreamOf, Stream
  <2> HIDE DEF x, y
  <2>3. /\ y.got \in Seq(Nat) /\ x.frames \in Seq(Nat) /\ y.since \in Nat /\ x.flushed \in Nat
        /\ y.since <= x.flushed
    BY <2>1 DEF ConnType, ShellType, Fed
  <2>4. StreamOf(y, x) \in Seq(Nat)
    BY <2>3, StreamType DEF StreamOf
  <2>5. y.got \o <<>> = y.got /\ <<>> \o StreamOf(y, x) = StreamOf(y, x)
    BY <2>3, <2>4, ConcatEmptySeq
  <2>6. <<>> \in Seq(Nat)
    OBVIOUS
  <2>7. Sent(c, y, x) = y.got \o (IF x.to = c THEN x.frames ELSE <<>>)
    BY DEF Sent
  <2>8. IsPrefix(y.got, StreamOf(y, x))
    <3>1. ASSUME IsPrefix(Sent(c, y, x), StreamOf(y, x)) PROVE IsPrefix(y.got, StreamOf(y, x))
      <4>1. PICK q \in Seq(Nat) : Sent(c, y, x) = y.got \o q
        BY <2>3, <2>6, <2>7
      <4>2. IsPrefix(y.got \o q, StreamOf(y, x))
        BY <3>1, <4>1
      <4> QED BY <2>3, <2>4, <4>2, PrefixShrinks
    <3>2. CASE c \in ousted
      BY <2>1, <3>1, <3>2 DEF Fed
    <3>3. CASE c \notin ousted /\ x.replay = <<>>
      <4>1. Sent(c, y, x) = StreamOf(y, x)
        BY <2>1, <3>3 DEF Fed
      <4>2. \E q \in Seq(Nat) : y.got \o q = StreamOf(y, x)
        BY <2>3, <2>6, <2>7, <4>1
      <4> QED BY <2>3, <2>4, <4>2, PrefixIs
    <3>4. CASE c \notin ousted /\ x.replay # <<>>
      <4>1. y.got = <<>>
        BY <2>1, <3>4 DEF Fed
      <4> QED BY <2>4, <2>5, <2>6, <4>1, PrefixIs
    <3> QED BY <3>2, <3>3, <3>4
  <2>9. ASSUME c \notin ousted
        PROVE  x.conn = c /\ (x.replay = <<>> /\ x.to # c => y.got = StreamOf(y, x))
    BY <2>1, <2>5, <2>7, <2>9 DEF Fed
  <2> QED BY <2>2, <2>8, <2>9 DEF x, y
<1> QED BY <1>1, TerminalsInvariant, PTL

\* A shell that runs can be found again, to reattach or to kill: no late discard by
\* an earlier shell of the same id hides it.
THEOREM LiveShellsAreFound == Spec => []LiveIsRegistered
<1>1. IInv => LiveIsRegistered
  BY DEF IInv
<1> QED BY <1>1, TerminalsInvariant, PTL
=============================================================================
