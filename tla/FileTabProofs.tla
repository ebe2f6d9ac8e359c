----------------------------- MODULE FileTabProofs -----------------------------
(***************************************************************************)
(* Proofs about FileTab's safety, for any texts and any number of acts,    *)
(* troubles and writes.                                                    *)
(***************************************************************************)
EXTENDS FileTab, TLAPS

USE TextsAssumption, BufferAssumption, WritesAssumption

-----------------------------------------------------------------------------
(* The rule of the buffer (fileBuffer.ts).                                 *)

\* Folding content in gives a buffer.
LEMMA SyncIsBuffer ==
    ASSUME NEW b \in Buffers \cup {NoBuffer}, NEW c \in Texts
    PROVE  SyncBuffer(b, c) \in Buffers
BY DEF SyncBuffer, SeedBuffer, Buffers

\* Whatever content comes, an unsaved edit other than it stays, and only that.
LEMMA SyncKeepsEdits ==
    ASSUME NEW b \in Buffers \cup {NoBuffer}, NEW c \in Texts, NEW t \in Texts, t # c
    PROVE  /\ SyncBuffer(b, c).draft = t
                <=> b # NoBuffer /\ b.draft = t /\ b.baseline # t
           /\ SyncBuffer(b, c).draft = t => SyncBuffer(b, c) = b
BY DEF SyncBuffer, SeedBuffer, Holds, Buffers

-----------------------------------------------------------------------------
(* Types.                                                                  *)

LEMMA DraftIsText ==
    ASSUME TypeOK, CanFlush
    PROVE  Draft \in Texts
BY SyncIsBuffer
   DEF TypeOK, CanFlush, Dirty, DirtyOf, Ready, Draft, Synced, Buffers

LEMMA SentIsWrite ==
    ASSUME NEW t \in Texts
    PROVE  Sent(t) \in Writes /\ Sent(t) # None
BY DEF Sent, Writes, Stages

Puts == [Writers -> Writes \cup {None}]

LEMMA ReleasedPuts ==
    ASSUME NEW p \in Puts
    PROVE  Released(p) \in Puts
BY DEF Released, Puts, Writes, Stages

LEMMA FlushTypes ==
    ASSUME TypeOK, NEW p \in Puts, NEW q \in BOOLEAN, Flush(p, q)
    PROVE  put' \in Puts /\ queued' \in BOOLEAN /\ last' \in Writers \cup {None}
<1>1. CASE ~CanFlush
  BY <1>1 DEF Flush, TypeOK
<1>2. CASE CanFlush /\ p["auto"] # None
  BY <1>2 DEF Flush, TypeOK
<1>3. CASE CanFlush /\ p["auto"] = None
  BY <1>3, DraftIsText, SentIsWrite DEF Flush, Send, Puts, Writers
<1> QED BY <1>1, <1>2, <1>3

LEMMA FoldTypes ==
    ASSUME TypeOK, NEW c \in Texts, Fold(c)
    PROVE  /\ cache' \in Texts \cup {NoText}
           /\ buffer' \in Buffers \cup {NoBuffer}
           /\ timer' \in BOOLEAN
           /\ owed' \in Texts \cup {None} /\ refused' \in BOOLEAN
<1>1. CASE Mounted
  <2>1. buffer' \in Buffers
    BY <1>1, SyncIsBuffer DEF Fold, TypeOK
  <2>2. timer' \in BOOLEAN
    BY <1>1 DEF Fold, Armed, TypeOK, DirtyOf, ConflictedOf, HasExternalChange, Ready
  <2>3. owed' \in Texts \cup {None} /\ refused' \in BOOLEAN
    BY <1>1 DEF Fold, Owes, TypeOK
  <2> QED BY <2>1, <2>2, <2>3 DEF Fold
<1>2. CASE ~Mounted
  BY <1>2 DEF Fold, TypeOK
<1> QED BY <1>1, <1>2

LEMMA UnmountTypes ==
    ASSUME TypeOK, NEW p \in Puts, NEW t \in Texts \cup {None}, Unmount(p, t)
    PROVE  /\ tab' = "closed" /\ buffer' = NoBuffer /\ timer' = FALSE /\ queued' = FALSE
           /\ last' = None /\ ask' = "no"
           /\ put' \in Puts /\ left' \in Texts \cup {None}
           /\ UNCHANGED <<cache, read>>
<1>1. CASE p["auto"] = None /\ t # None
  BY <1>1, SentIsWrite DEF Unmount, Puts, Writers
<1>2. CASE ~(p["auto"] = None /\ t # None)
  BY <1>2 DEF Unmount, Puts, Writers
<1> QED BY <1>1, <1>2 DEF Unmount

LEMMA StageMoves ==
    ASSUME NEW p \in Puts, NEW w \in Writers, p[w] # None, NEW s \in Stages
    PROVE  [p EXCEPT ![w].stage = s] \in Puts
<1> DEFINE r == [p[w] EXCEPT !.stage = s]
<1>1. p[w] \in Writes
  BY DEF Puts
<1>2. r \in Writes
  BY <1>1 DEF Writes
<1>3. [p EXCEPT ![w].stage = s] = [p EXCEPT ![w] = r]
  BY DEF Puts
<1> QED BY <1>2, <1>3 DEF Puts

LEMMA AfterTypes ==
    ASSUME TypeOK, NEW w \in Writers, NEW p \in Puts, After(w, p)
    PROVE  /\ put' \in Puts /\ queued' \in BOOLEAN /\ last' \in Writers \cup {None}
           /\ left' \in Texts \cup {None}
           /\ UNCHANGED <<cache, read, tab, buffer, timer, ask>>
<1>1. CASE w = "auto"
  <2>1. After("auto", p)
    BY <1>1
  <2>2. UNCHANGED <<cache, read, tab, buffer, timer, left, ask>>
    BY <2>1 DEF After
  <2>3. queued => Flush(p, FALSE)
    BY <2>1 DEF After
  <2>4. ~queued => put' = p /\ UNCHANGED <<queued, last>>
    BY <2>1 DEF After
  <2> QED BY <2>2, <2>3, <2>4, FlushTypes DEF TypeOK
<1>2. CASE w = "left"
  <2>1. After("left", p)
    BY <1>2
  <2>2. UNCHANGED <<cache, read, tab, buffer, timer, queued, last, ask>> /\ left' = None
    BY <2>1 DEF After
  <2>3. put' = IF left = None THEN p ELSE [p EXCEPT !["left"] = Sent(left)]
    BY <2>1 DEF After
  <2> QED BY <2>2, <2>3, SentIsWrite DEF TypeOK, Puts, Writers
<1>3. CASE w \notin {"auto", "left"}
  BY <1>3 DEF After, TypeOK
<1> QED BY <1>1, <1>2, <1>3

LEMMA ActTypes ==
    ASSUME TypeOK, Act \/ Trouble \/ UNCHANGED bounds
    PROVE  acts' \in 0..MaxActs /\ troubles' \in 0..MaxTroubles
BY DEF TypeOK, Act, Trouble, bounds

LEMMA StepTypeOK == TypeOK /\ [Next]_vars => TypeOK'
<1> SUFFICES ASSUME TypeOK, [Next]_vars PROVE TypeOK'
  OBVIOUS
<1> USE DEF ghosts
<1>0. put \in Puts
  BY DEF TypeOK, Puts
<1>1. ASSUME NEW t \in Mine \cup {Original}, Type(t) PROVE TypeOK'
  <2>1. t \in Texts
    BY DEF Texts
  <2>2. buffer' \in Buffers
    BY <1>1, <2>1 DEF Type, TypeOK, EditBuffer, Buffers
  <2>3. timer' \in BOOLEAN
    BY <1>1 DEF Type, TypeOK, Armed, DirtyOf, ConflictedOf, HasExternalChange, Ready
  <2>4. owed' \in Texts \cup {None} /\ refused' \in BOOLEAN
    BY <1>1, <2>1 DEF Type
  <2> QED BY <1>1, <2>2, <2>3, <2>4, ActTypes DEF Type, TypeOK
<1>2. CASE LookAway
  BY <1>0, <1>2, ActTypes, FlushTypes DEF LookAway, TypeOK, Puts
<1>3. CASE ToBack
  BY <1>0, <1>3, ActTypes, FlushTypes DEF ToBack, TypeOK, Puts
<1>4. CASE ToFront
  BY <1>0, <1>4, ActTypes, ReleasedPuts DEF ToFront, TypeOK, Puts, Refetched
<1>5. CASE KeySave
  <2>1. Draft \in Texts
    BY <1>5, SyncIsBuffer DEF KeySave, TypeOK, Dirty, DirtyOf, Ready, Draft, Synced, Buffers
  <2>2. put' \in Puts /\ last' \in Writers
    BY <1>0, <1>5, <2>1, SentIsWrite DEF KeySave, Send, Puts, Writers
  <2> QED BY <1>5, <2>2, ActTypes DEF KeySave, TypeOK, Puts
<1>6. CASE Revert
  <2>1. cache \in Texts
    BY <1>6 DEF Revert, Dirty, DirtyOf, TypeOK
  <2>2. buffer' \in Buffers
    BY <1>6, <2>1 DEF Revert, SeedBuffer, Buffers
  <2>3. timer' \in BOOLEAN
    BY <1>6 DEF Revert, TypeOK, Armed, DirtyOf, ConflictedOf, HasExternalChange, Ready
  <2>4. owed' = None /\ refused' \in BOOLEAN
    BY <1>6 DEF Revert, Owes
  <2> QED BY <1>6, <2>2, <2>3, <2>4, ActTypes DEF Revert, TypeOK
<1>7. CASE CloseClean
  BY <1>0, <1>7, ActTypes, UnmountTypes DEF CloseClean, TypeOK, Puts
<1>8. CASE AskClose
  BY <1>8, ActTypes DEF AskClose, TypeOK
<1>9. CASE CancelClose
  BY <1>9, ActTypes DEF CancelClose, TypeOK
<1>10. CASE DontSave
  <2>1. owed' = None /\ refused' \in BOOLEAN
    BY <1>10 DEF DontSave, Owes
  <2> QED BY <1>0, <1>10, <2>1, ActTypes, UnmountTypes DEF DontSave, TypeOK, Puts
<1>11. CASE SaveAndClose
  <2>1. CASE Dirty
    <3>1. Draft \in Texts
      BY <2>1, SyncIsBuffer DEF TypeOK, Dirty, DirtyOf, Ready, Draft, Synced, Buffers
    <3>2. put' \in Puts /\ last' \in Writers
      BY <1>0, <1>11, <2>1, <3>1, SentIsWrite DEF SaveAndClose, Send, Puts, Writers
    <3> QED BY <1>11, <2>1, <3>2, ActTypes DEF SaveAndClose, TypeOK, Puts
  <2>2. CASE ~Dirty
    BY <1>0, <1>11, <2>2, ActTypes, UnmountTypes DEF SaveAndClose, TypeOK, Puts
  <2> QED BY <2>1, <2>2
<1>12. CASE Leave
  <2> DEFINE t == IF CanFlush THEN Draft ELSE None
  <2>1. t \in Texts \cup {None} /\ Unmount(put, t)
    BY <1>12, DraftIsText DEF Leave
  <2>2. owed' \in Texts \cup {None} /\ refused' \in BOOLEAN
    BY <1>12 DEF Leave, Owes, TypeOK
  <2> QED BY <1>0, <1>12, <2>1, <2>2, ActTypes, UnmountTypes DEF Leave, TypeOK, Puts
<1>13. CASE Reopen
  <2>1. buffer' \in Buffers \cup {NoBuffer}
    BY <1>13 DEF Reopen, TypeOK, SeedBuffer, Buffers
  <2>2. owed' \in Texts \cup {None} /\ refused' \in BOOLEAN
    BY <1>13 DEF Reopen, Owes, TypeOK
  <2> QED BY <1>13, <2>1, <2>2, ActTypes DEF Reopen, TypeOK
<1>14. CASE TimerFires
  <2>1. timer' \in BOOLEAN
    BY <1>14 DEF TimerFires
  <2> QED BY <1>0, <1>14, <2>1, ActTypes, FlushTypes DEF TimerFires, TypeOK, Puts
<1>15. CASE Poll
  BY <1>15, ActTypes DEF Poll, TypeOK
<1>16. CASE ServerReads
  <2>1. lost' \in BOOLEAN
    BY <1>16 DEF ServerReads
  <2> QED BY <1>16, <2>1, ActTypes DEF ServerReads, TypeOK
<1>17. CASE ReadAnswers
  BY <1>0, <1>17, ActTypes, FoldTypes, ReleasedPuts DEF ReadAnswers, TypeOK, Puts
<1>18. CASE ReadFails
  BY <1>0, <1>18, ActTypes, ReleasedPuts DEF ReadFails, TypeOK, Puts
<1>19. ASSUME NEW w \in Writers, Apply(w) PROVE TypeOK'
  <2>1. put[w] # None /\ put[w] \in Writes /\ put[w].text \in Texts
    BY <1>0, <1>19 DEF Apply, Puts, Writes
  <2>2. put' \in Puts
    BY <1>0, <1>19, <2>1, StageMoves DEF Apply, Stages
  <2>3. owed' \in Texts \cup {None} /\ refused' \in BOOLEAN
    BY <1>19 DEF Apply, Owes, TypeOK
  <2> QED BY <1>19, <2>1, <2>2, <2>3, ActTypes DEF Apply, TypeOK, Puts
<1>20. ASSUME NEW w \in Writers, Answer(w) PROVE TypeOK'
  <2> DEFINE p == Released(put)  s == IF Mounted THEN "landed" ELSE "done"
  <2>1. put[w] # None /\ put[w] \in Writes /\ put[w].text \in Texts /\ put[w].stage = "applied"
    BY <1>0, <1>20 DEF Answer, Puts, Writes
  <2>2. p \in Puts /\ p[w] = put[w]
    BY <1>0, <2>1, ReleasedPuts DEF Released
  <2>3. s \in Stages /\ put' = [p EXCEPT ![w].stage = s]
    BY <1>20 DEF Answer, Stages
  <2>4. put' \in Puts
    BY <2>1, <2>2, <2>3, StageMoves
  <2>5. Fold(put[w].text)
    BY <1>20 DEF Answer
  <2> QED BY <1>20, <2>1, <2>4, <2>5, ActTypes, FoldTypes DEF Answer, TypeOK, Puts
<1>21. ASSUME NEW w \in Writers, Settle(w) PROVE TypeOK'
  <2> DEFINE p == [put EXCEPT ![w] = None]
  <2>1. p \in Puts
    BY <1>0 DEF Puts
  <2>2. CASE w = "dialog"
    <3>1. Unmount(p, None)
      BY <1>21, <2>2 DEF Settle
    <3> QED BY <1>21, <2>1, <3>1, ActTypes, UnmountTypes DEF Settle, TypeOK, Puts
  <2>3. CASE w # "dialog"
    <3>1. After(w, p)
      BY <1>21, <2>3 DEF Settle
    <3> QED BY <1>21, <2>1, <3>1, ActTypes, AfterTypes DEF Settle, TypeOK, Puts
  <2> QED BY <2>2, <2>3
<1>22. ASSUME NEW w \in Writers, Refuse(w) PROVE TypeOK'
  <2> DEFINE p == [put EXCEPT ![w] = None]
  <2>1. p \in Puts
    BY <1>0 DEF Puts
  <2>2. /\ owed' \in Texts \cup {None} /\ refused' \in BOOLEAN /\ lost' \in BOOLEAN
        /\ disk' = disk
    BY <1>22 DEF Refuse, TypeOK
  <2>3. CASE w = "dialog"
    BY <1>22, <2>1, <2>2, <2>3, ActTypes DEF Refuse, TypeOK, Puts
  <2>4. CASE w # "dialog"
    <3>1. After(w, p)
      BY <1>22, <2>4 DEF Refuse
    <3> QED BY <1>22, <2>1, <2>2, <3>1, ActTypes, AfterTypes DEF Refuse, TypeOK, Puts
  <2> QED BY <2>3, <2>4
<1>23. ASSUME NEW t \in Theirs, Agent(t) PROVE TypeOK'
  BY <1>23, ActTypes DEF Agent, TypeOK, client, Texts
<1>24. CASE UNCHANGED vars
  BY <1>24 DEF vars, client, bounds, TypeOK
<1> QED
  BY <1>1, <1>2, <1>3, <1>4, <1>5, <1>6, <1>7, <1>8, <1>9, <1>10, <1>11, <1>12, <1>13, <1>14,
     <1>15, <1>16, <1>17, <1>18, <1>19, <1>20, <1>21, <1>22, <1>23, <1>24 DEF Next

\* Everything a tab keeps has its type, whatever is typed, written or refused.
THEOREM FileTabTypeOK == Spec => []TypeOK
<1>1. Init => TypeOK
  <2> SUFFICES ASSUME Init PROVE TypeOK
    OBVIOUS
  <2>1. timer \in BOOLEAN /\ queued \in BOOLEAN /\ refused \in BOOLEAN /\ lost \in BOOLEAN
    BY DEF Init
  <2>2. acts \in 0..MaxActs /\ troubles \in 0..MaxTroubles
    BY DEF Init
  <2>3. disk \in Texts
    BY DEF Init, Texts
  <2> QED BY <2>1, <2>2, <2>3 DEF Init, TypeOK
<1> QED BY <1>1, StepTypeOK, PTL DEF Spec

-----------------------------------------------------------------------------
(* The draft.                                                              *)

OnScreen == Mounted /\ buffer # NoBuffer /\ buffer.draft = owed /\ buffer.baseline # owed
IsSent(p, w) == p[w] # None /\ p[w].stage = "sent"
Carries(p, t) == \E w \in Writers : IsSent(p, w) /\ p[w].text = t

\* What a mounted tab owes is not what the query has, and a buffer has a file.
CacheInv == Mounted => (owed # None => cache # owed) /\ (buffer # NoBuffer => cache # NoText)
\* What is queued behind a departed hook's write has that write before it.
LeftInv == left # None => put["left"] # None
\* A prompt is a mounted tab's; its write is under way only while it waits for it.
PromptInv == (put["dialog"] # None => ask = "saving") /\ (ask # "no" => Mounted)
\* While it waits, nobody types: what is on screen and owed, the write carries.
SavingInv ==
    (ask = "saving" /\ owed # None /\ OnScreen)
        => IsSent(put, "dialog") /\ put["dialog"].text = owed
SafeInv == owed # None => OnScreen \/ Carries(put, owed) \/ left = owed

DraftInv == CacheInv /\ LeftInv /\ PromptInv /\ SavingInv /\ SafeInv

\* In a mounted tab whose cache is not what is owed, what the render shows is what
\* the buffer holds as an unsaved edit.
LEMMA ScreenShows ==
    ASSUME TypeOK, CacheInv, owed # None
    PROVE  (Mounted /\ Ready(buffer, cache) /\ Draft = owed) <=> OnScreen
<1>1. CASE ~Mounted
  BY <1>1 DEF OnScreen
<1>2. CASE Mounted /\ cache = NoText
  BY <1>2 DEF OnScreen, CacheInv, Ready, Synced
<1>3. CASE Mounted /\ cache # NoText
  <2>1. /\ cache \in Texts /\ owed \in Texts /\ owed # cache
        /\ buffer \in Buffers \cup {NoBuffer}
    BY <1>3 DEF TypeOK, CacheInv
  <2>2. Draft = SyncBuffer(buffer, cache).draft /\ Ready(buffer, cache)
    BY <1>3, <2>1, SyncIsBuffer DEF Draft, Synced, Ready
  <2> QED BY <1>3, <2>1, <2>2, SyncKeepsEdits DEF OnScreen
<1> QED BY <1>1, <1>2, <1>3

\* From p to p2 no write on its way to the server is lost.
KeepsSent(p, p2) == \A w \in Writers : IsSent(p, w) => p2[w] = p[w]
SameKnown(p, p2) ==
    /\ p2["dialog"] # None => p["dialog"] # None
    /\ p["left"] # None => p2["left"] # None
    /\ KeepsSent(p, p2)

LEMMA KeptCarries ==
    ASSUME NEW p, NEW p2, KeepsSent(p, p2), NEW t, Carries(p, t)
    PROVE  Carries(p2, t)
BY DEF KeepsSent, Carries, IsSent

\* A step that leaves the editor alone.
LEMMA QuietStep ==
    ASSUME TypeOK, DraftInv,
           UNCHANGED <<cache, buffer, owed, left>>, Mounted' = Mounted,
           SameKnown(put, put'),
           ask' = ask \/ (ask' # "saving" /\ put["dialog"] = None /\ Mounted)
    PROVE  DraftInv'
<1>1. OnScreen' = OnScreen
  BY DEF OnScreen
<1>2. CacheInv' /\ LeftInv'
  BY DEF DraftInv, CacheInv, LeftInv, SameKnown
<1>3. PromptInv'
  BY DEF DraftInv, PromptInv, SameKnown
<1>4. SavingInv'
  <2> SUFFICES ASSUME ask' = "saving", owed' # None, OnScreen'
               PROVE  IsSent(put', "dialog") /\ put'["dialog"].text = owed'
    BY DEF SavingInv, IsSent
  <2>1. IsSent(put, "dialog") /\ put["dialog"].text = owed
    BY <1>1 DEF DraftInv, SavingInv
  <2>2. put'["dialog"] = put["dialog"]
    BY <2>1 DEF SameKnown, KeepsSent, Writers
  <2> QED BY <2>1, <2>2 DEF IsSent
<1>5. SafeInv'
  <2> SUFFICES ASSUME owed # None PROVE OnScreen \/ Carries(put', owed) \/ left = owed
    BY <1>1 DEF SafeInv, Carries, IsSent
  <2> QED BY KeptCarries DEF DraftInv, SafeInv, SameKnown
<1> QED BY <1>2, <1>3, <1>4, <1>5 DEF DraftInv

\* A step that puts new content in the cache.
LEMMA FoldStep ==
    ASSUME TypeOK, DraftInv, NEW c \in Texts, Fold(c),
           UNCHANGED <<tab, left, ask>>, SameKnown(put, put')
    PROVE  DraftInv'
<1>1. CASE Mounted
  <2>1. /\ Mounted' /\ cache' = c
        /\ buffer' = SyncBuffer(buffer, c) /\ buffer' \in Buffers
        /\ owed' = IF owed = c THEN None ELSE owed
        /\ buffer \in Buffers \cup {NoBuffer} /\ owed \in Texts \cup {None}
    BY <1>1, SyncIsBuffer DEF Fold, Owes, Mounted, TypeOK
  <2>2. owed' # None => owed' = owed /\ owed # c /\ owed \in Texts
    BY <2>1
  <2>3. owed' # None => OnScreen' = OnScreen
    <3> SUFFICES ASSUME owed' # None PROVE OnScreen' = OnScreen
      OBVIOUS
    <3>1. SyncBuffer(buffer, c).draft = owed
            <=> buffer # NoBuffer /\ buffer.draft = owed /\ buffer.baseline # owed
      BY <2>1, <2>2, SyncKeepsEdits
    <3>2. SyncBuffer(buffer, c).draft = owed => SyncBuffer(buffer, c) = buffer
      BY <2>1, <2>2, SyncKeepsEdits
    <3>3. buffer' # NoBuffer
      BY <2>1
    <3> QED BY <1>1, <2>1, <2>2, <3>1, <3>2, <3>3 DEF OnScreen
  <2>4. CacheInv'
    BY <2>1, <2>2 DEF CacheInv
  <2>5. LeftInv' /\ PromptInv'
    BY <2>1 DEF DraftInv, LeftInv, PromptInv, SameKnown
  <2>6. SavingInv'
    <3> SUFFICES ASSUME ask' = "saving", owed' # None, OnScreen'
                 PROVE  IsSent(put', "dialog") /\ put'["dialog"].text = owed'
      BY DEF SavingInv, IsSent
    <3>1. IsSent(put, "dialog") /\ put["dialog"].text = owed
      BY <2>2, <2>3 DEF DraftInv, SavingInv
    <3>2. put'["dialog"] = put["dialog"]
      BY <3>1 DEF SameKnown, KeepsSent, Writers
    <3> QED BY <2>2, <3>1, <3>2 DEF IsSent
  <2>7. SafeInv'
    <3> SUFFICES ASSUME owed' # None PROVE OnScreen' \/ Carries(put', owed) \/ left = owed
      BY <2>2 DEF SafeInv, Carries, IsSent
    <3> QED BY <2>2, <2>3, KeptCarries DEF DraftInv, SafeInv, SameKnown
  <2> QED BY <2>4, <2>5, <2>6, <2>7 DEF DraftInv
<1>2. CASE ~Mounted
  <2>1. UNCHANGED <<buffer, owed>> /\ ~Mounted'
    BY <1>2 DEF Fold, Mounted
  <2>2. CacheInv' /\ LeftInv' /\ PromptInv'
    BY <1>2, <2>1 DEF DraftInv, CacheInv, LeftInv, PromptInv, SameKnown
  <2>3. SavingInv'
    BY <2>1 DEF SavingInv, OnScreen
  <2>4. SafeInv'
    <3> SUFFICES ASSUME owed # None PROVE Carries(put', owed) \/ left = owed
      BY <2>1 DEF SafeInv, Carries, IsSent
    <3> QED BY <1>2, KeptCarries DEF DraftInv, SafeInv, SameKnown, OnScreen
  <2> QED BY <2>2, <2>3, <2>4 DEF DraftInv
<1> QED BY <1>1, <1>2

\* The tab goes, with what its hook leaves behind.
LEMMA UnmountStep ==
    ASSUME TypeOK, DraftInv, NEW p \in Puts, NEW t \in Texts \cup {None}, Unmount(p, t),
           KeepsSent(put, p), p["dialog"] = None, p["left"] = put["left"],
           owed' = owed \/ owed' = None,
           owed' # None /\ OnScreen => t = owed
    PROVE  DraftInv'
<1>1. tab' = "closed" /\ ask' = "no" /\ p["left"] = None /\ left = None
  BY DEF Unmount, DraftInv, LeftInv
<1>2. ~Mounted' /\ ~OnScreen'
  BY <1>1 DEF Mounted, OnScreen
<1>3. CASE p["auto"] = None /\ t # None
  <2>1. put' = [p EXCEPT !["left"] = Sent(t)] /\ left' = None /\ t \in Texts
    BY <1>3 DEF Unmount
  <2>2. /\ put'["left"] = Sent(t) /\ put'["left"] # None
        /\ \A w \in Writers \ {"left"} : put'[w] = p[w]
    BY <2>1, SentIsWrite DEF Puts, Writers
  <2>3. put'["dialog"] = None
    BY <2>2 DEF Writers
  <2>4. SafeInv'
    <3> SUFFICES ASSUME owed' # None, ~(t = owed) PROVE Carries(put', owed')
      BY <2>2 DEF SafeInv, Carries, IsSent, Sent, Writers
    <3>1. PICK w \in Writers : IsSent(put, w) /\ put[w].text = owed
      BY <1>1 DEF DraftInv, SafeInv, Carries
    <3>2. p[w] = put[w] /\ w # "left"
      BY <1>1, <3>1 DEF KeepsSent, IsSent
    <3> QED BY <2>2, <3>1, <3>2 DEF Carries, IsSent
  <2> QED BY <1>1, <1>2, <2>1, <2>3, <2>4
        DEF DraftInv, CacheInv, LeftInv, PromptInv, SavingInv
<1>4. CASE ~(p["auto"] = None /\ t # None)
  <2>1. put' = [p EXCEPT !["left"] = p["auto"], !["auto"] = None] /\ left' = t
    BY <1>4 DEF Unmount
  <2>2. /\ put'["left"] = p["auto"]
        /\ \A w \in Writers \ {"left", "auto"} : put'[w] = p[w]
    BY <2>1 DEF Puts, Writers
  <2>3. put'["dialog"] = None /\ LeftInv'
    BY <1>4, <2>1, <2>2 DEF Writers, LeftInv
  <2>4. SafeInv'
    <3> SUFFICES ASSUME owed' # None, ~(t = owed) PROVE Carries(put', owed')
      BY <2>1 DEF SafeInv
    <3>1. PICK w \in Writers : IsSent(put, w) /\ put[w].text = owed
      BY <1>1 DEF DraftInv, SafeInv, Carries
    <3>2. p[w] = put[w] /\ w # "left"
      BY <1>1, <3>1 DEF KeepsSent, IsSent
    <3>3. CASE w = "auto"
      <4>1. IsSent(put', "left") /\ put'["left"].text = owed
        BY <2>2, <3>1, <3>2, <3>3 DEF IsSent
      <4> QED BY <4>1 DEF Carries, Writers
    <3>4. CASE w # "auto"
      BY <2>2, <3>1, <3>2, <3>4 DEF Carries, IsSent
    <3> QED BY <3>3, <3>4
  <2> QED BY <1>1, <1>2, <2>3, <2>4
        DEF DraftInv, CacheInv, PromptInv, SavingInv
<1> QED BY <1>3, <1>4

\* A flush sends over nothing.
LEMMA FlushKeeps ==
    ASSUME NEW p \in Puts, NEW q, Flush(p, q)
    PROVE  /\ \A w \in Writers : p[w] # None => put'[w] = p[w]
           /\ put'["dialog"] = p["dialog"] /\ put'["left"] = p["left"]
BY DEF Flush, Send, Puts, Writers

LEMMA FlushKnown ==
    ASSUME NEW q, put \in Puts, Flush(put, q)
    PROVE  SameKnown(put, put')
BY FlushKeeps DEF SameKnown, KeepsSent, IsSent

LEMMA ReleasedKnown ==
    ASSUME NEW p \in Puts
    PROVE  /\ SameKnown(p, Released(p))
           /\ \A w \in Writers : p[w] # None => Released(p)[w] # None
<1>1. \A w \in Writers :
        Released(p)[w] = IF p[w] # None /\ p[w].stage = "landed"
                         THEN [p[w] EXCEPT !.stage = "done"] ELSE p[w]
  BY DEF Released
<1>2. ASSUME NEW w \in Writers, p[w] # None, p[w].stage = "landed"
      PROVE  [p[w] EXCEPT !.stage = "done"] # None
  <2>1. p[w] \in Writes
    BY <1>2 DEF Puts
  <2>2. [p[w] EXCEPT !.stage = "done"] \in Writes
    BY <2>1 DEF Writes, Stages
  <2> QED BY <2>2
<1> QED BY <1>1, <1>2 DEF SameKnown, KeepsSent, IsSent, Writers

\* The write of the prompt is not under way unless it waits.
LEMMA PromptIdle ==
    ASSUME DraftInv, ask # "saving"
    PROVE  put["dialog"] = None /\ (ask = "asked" => Mounted)
BY DEF DraftInv, PromptInv

\* What follows a write loses nothing that was queued.
LEMMA AfterStep ==
    ASSUME TypeOK, DraftInv, NEW w \in Writers, w # "dialog", put[w] # None,
           After(w, [put EXCEPT ![w] = None]),
           owed' = None \/ (owed' = owed /\ (OnScreen \/ left = owed
                                \/ Carries([put EXCEPT ![w] = None], owed)))
    PROVE  DraftInv'
<1> DEFINE p == [put EXCEPT ![w] = None]
<1>1. p \in Puts /\ p[w] = None /\ \A v \in Writers \ {w} : p[v] = put[v]
  BY DEF TypeOK, Puts
<1>2. UNCHANGED <<cache, tab, buffer, ask>>
  BY <1>1, AfterTypes
<1>3. OnScreen' => (owed' = owed => OnScreen)
  BY <1>2 DEF OnScreen, Mounted
<1>4. /\ \A v \in Writers : p[v] # None => put'[v] = p[v]
      /\ put'["dialog"] = put["dialog"]
      /\ LeftInv'
      /\ owed # None /\ left = owed => left' = owed \/ Carries(put', owed)
  <2>1. CASE w = "auto"
    <3>1. After("auto", p)
      BY <2>1
    <3>2. left' = left
      BY <3>1 DEF After
    <3>3. (queued => Flush(p, FALSE)) /\ (~queued => put' = p)
      BY <3>1 DEF After
    <3>4. /\ \A v \in Writers : p[v] # None => put'[v] = p[v]
          /\ put'["dialog"] = p["dialog"] /\ put'["left"] = p["left"]
      BY <1>1, <3>3, FlushKeeps
    <3>5. p["dialog"] = put["dialog"] /\ p["left"] = put["left"]
      BY <1>1, <2>1 DEF Writers
    <3> QED BY <3>2, <3>4, <3>5 DEF DraftInv, LeftInv
  <2>2. CASE w = "left"
    <3>1. After("left", p)
      BY <2>2
    <3>2. left' = None /\ put' = IF left = None THEN p ELSE [p EXCEPT !["left"] = Sent(left)]
      BY <3>1 DEF After
    <3>3. put'["dialog"] = put["dialog"] /\ \A v \in Writers : p[v] # None => put'[v] = p[v]
      BY <1>1, <2>2, <3>2 DEF Writers, Puts
    <3>4. ASSUME owed # None, left = owed PROVE Carries(put', owed)
      <4>1. put'["left"] = Sent(owed) /\ Sent(owed) # None
        BY <1>1, <3>2, <3>4, SentIsWrite DEF Puts, Writers, TypeOK
      <4> QED BY <4>1 DEF Carries, IsSent, Sent, Writers
    <3> QED BY <3>2, <3>3, <3>4 DEF LeftInv
  <2>3. CASE w = "key"
    <3>1. After("key", p)
      BY <2>3
    <3>2. put' = p /\ left' = left
      BY <3>1 DEF After
    <3>3. p["dialog"] = put["dialog"] /\ p["left"] = put["left"]
      BY <1>1, <2>3 DEF Writers
    <3> QED BY <3>2, <3>3 DEF DraftInv, LeftInv
  <2> QED BY <2>1, <2>2, <2>3 DEF Writers
<1>5. CacheInv' /\ PromptInv'
  BY <1>2, <1>4 DEF DraftInv, CacheInv, PromptInv, Mounted
<1>6. SavingInv'
  BY <1>2, <1>3, <1>4 DEF DraftInv, SavingInv, IsSent
<1>7. SafeInv'
  <2> SUFFICES ASSUME owed' # None, ~OnScreen', left' # owed PROVE Carries(put', owed)
    BY DEF SafeInv, Carries, IsSent
  <2>1. owed' = owed /\ ~OnScreen
    BY <1>2 DEF OnScreen, Mounted
  <2>2. CASE left = owed
    BY <1>4, <2>1, <2>2
  <2>3. CASE Carries(p, owed)
    BY <1>4, <2>3 DEF Carries, IsSent
  <2> QED BY <2>1, <2>2, <2>3
<1> QED BY <1>4, <1>5, <1>6, <1>7 DEF DraftInv

LEMMA StepDraftInv == TypeOK /\ DraftInv /\ [Next]_vars => DraftInv'
<1> SUFFICES ASSUME TypeOK, DraftInv, [Next]_vars PROVE DraftInv'
  OBVIOUS
<1> USE DEF ghosts
<1>0. /\ put \in Puts
      /\ SameKnown(put, put) /\ KeepsSent(put, put)
  BY DEF TypeOK, Puts, SameKnown, KeepsSent
<1>a. ASSUME UNCHANGED <<cache, tab, buffer, owed, left, ask, put>>
      PROVE  DraftInv'
  BY <1>0, <1>a, QuietStep DEF Mounted
<1>1. ASSUME NEW t \in Mine \cup {Original}, Type(t) PROVE DraftInv'
  <2>1. /\ t \in Texts /\ tab = "front" /\ ask = "no" /\ buffer \in Buffers
        /\ cache # NoText
    BY <1>1 DEF Type, Texts, TypeOK, DraftInv, CacheInv, Mounted
  <2>2. /\ buffer' \in Buffers /\ buffer' # NoBuffer
        /\ buffer'.draft = t /\ buffer'.baseline = buffer.baseline
    BY <1>1, <2>1 DEF Type, EditBuffer, Buffers
  <2>3. owed' # None => owed' = t /\ t # cache /\ t # buffer.baseline
    BY <1>1 DEF Type
  <2>4. UNCHANGED <<cache, tab, left, put, ask>>
    BY <1>1 DEF Type
  <2>5. owed' # None => OnScreen'
    BY <2>1, <2>2, <2>3, <2>4 DEF OnScreen, Mounted
  <2> QED BY <2>1, <2>2, <2>3, <2>4, <2>5
          DEF DraftInv, CacheInv, LeftInv, PromptInv, SavingInv, SafeInv, Mounted
<1>2. CASE LookAway
  BY <1>0, <1>2, FlushKnown, QuietStep DEF LookAway, Mounted
<1>3. CASE ToBack
  BY <1>0, <1>3, FlushKnown, QuietStep DEF ToBack, Mounted
<1>4. CASE ToFront
  BY <1>0, <1>4, ReleasedKnown, QuietStep DEF ToFront, Mounted
<1>5. CASE KeySave
  <2>1. put' = [put EXCEPT !["key"] = Sent(Draft)] /\ put["key"] = None
    BY <1>5 DEF KeySave, Send
  <2>2. SameKnown(put, put')
    BY <1>0, <2>1 DEF SameKnown, KeepsSent, IsSent, Puts, Writers
  <2> QED BY <1>5, <2>2, QuietStep DEF KeySave, Mounted
<1>6. CASE Revert
  <2>1. owed' = None /\ cache # NoText /\ UNCHANGED <<cache, tab, left, put, ask>>
    BY <1>6 DEF Revert, Owes, Dirty, DirtyOf
  <2> QED BY <2>1 DEF DraftInv, CacheInv, LeftInv, PromptInv, SavingInv, SafeInv, Mounted
<1>b. ASSUME ~Dirty, owed # None PROVE ~OnScreen
  BY <1>b, ScreenShows DEF DraftInv, CacheInv, OnScreen, Dirty, DirtyOf, Draft, Ready
<1>7. CASE CloseClean
  <2>1. Unmount(put, None) /\ ~Dirty /\ owed' = owed /\ put["dialog"] = None
    BY <1>7, PromptIdle DEF CloseClean
  <2> QED BY <1>0, <1>b, <2>1, UnmountStep
<1>8. CASE AskClose
  BY <1>0, <1>8, PromptIdle, QuietStep DEF AskClose, Mounted
<1>9. CASE CancelClose
  BY <1>0, <1>9, PromptIdle, QuietStep DEF CancelClose, Mounted
<1>10. CASE DontSave
  <2>1. Unmount(put, None) /\ owed' = None /\ put["dialog"] = None
    BY <1>10, PromptIdle DEF DontSave, Owes
  <2> QED BY <1>0, <2>1, UnmountStep
<1>11. CASE SaveAndClose
  <2>0. put["dialog"] = None /\ owed' = owed
    BY <1>11, PromptIdle DEF SaveAndClose
  <2>1. CASE Dirty
    <3>1. Draft \in Texts
      BY <2>1, SyncIsBuffer DEF TypeOK, Dirty, DirtyOf, Ready, Draft, Synced, Buffers
    <3>2. /\ put' = [put EXCEPT !["dialog"] = Sent(Draft)] /\ ask' = "saving"
          /\ UNCHANGED <<cache, tab, buffer, left>>
      BY <1>11, <2>1 DEF SaveAndClose, Send
    <3>3. /\ put'["dialog"] = Sent(Draft) /\ put'["dialog"] # None
          /\ \A w \in Writers \ {"dialog"} : put'[w] = put[w]
      BY <1>0, <3>1, <3>2, SentIsWrite DEF Puts, Writers
    <3>4. Mounted
      BY <1>11, PromptIdle DEF SaveAndClose
    <3>5. /\ OnScreen' = OnScreen
          /\ OnScreen /\ owed # None => Draft = owed
      BY <2>0, <3>2, ScreenShows DEF OnScreen, Mounted, DraftInv
    <3>6. SavingInv'
      BY <2>0, <3>3, <3>5 DEF SavingInv, IsSent, Sent
    <3>7. SafeInv'
      <4> SUFFICES ASSUME owed # None, ~OnScreen, left # owed PROVE Carries(put', owed)
        BY <2>0, <3>2, <3>5 DEF SafeInv, Carries, IsSent
      <4>1. PICK w \in Writers : IsSent(put, w) /\ put[w].text = owed
        BY DEF DraftInv, SafeInv, Carries
      <4> QED BY <2>0, <3>3, <4>1 DEF Carries, IsSent
    <3>8. LeftInv' /\ CacheInv' /\ PromptInv'
      BY <2>0, <3>2, <3>3, <3>4 DEF DraftInv, LeftInv, CacheInv, PromptInv, Mounted, Writers
    <3> QED BY <3>6, <3>7, <3>8 DEF DraftInv
  <2>2. CASE ~Dirty
    <3>1. Unmount(put, None)
      BY <1>11, <2>2 DEF SaveAndClose
    <3> QED BY <1>0, <1>b, <2>0, <2>2, <3>1, UnmountStep
  <2> QED BY <2>1, <2>2
<1>12. CASE Leave
  <2> DEFINE t == IF CanFlush THEN Draft ELSE None
  <2>1. /\ t \in Texts \cup {None} /\ Unmount(put, t) /\ put["dialog"] = None
        /\ owed' = IF Conflicted THEN None ELSE owed
    BY <1>12, DraftIsText, PromptIdle DEF Leave, Owes
  <2>2. owed' # None /\ OnScreen => t = owed
    <3> SUFFICES ASSUME owed' # None, OnScreen PROVE t = owed
      OBVIOUS
    <3>1. ~Conflicted /\ owed # None
      BY <2>1
    <3>2. Dirty /\ Draft = owed
      BY <1>b, <3>1, ScreenShows DEF DraftInv
    <3> QED BY <3>1, <3>2 DEF CanFlush
  <2> QED BY <1>0, <2>1, <2>2, UnmountStep
<1>13. CASE Reopen
  <2>1. /\ ~Mounted /\ Mounted' /\ UNCHANGED <<cache, left, put, ask>>
        /\ buffer' = IF cache = NoText THEN NoBuffer ELSE SeedBuffer(cache)
        /\ owed' = IF owed = cache THEN None ELSE owed
    BY <1>13 DEF Reopen, Owes, Mounted
  <2>2. ask = "no" /\ put["dialog"] = None
    BY <2>1 DEF DraftInv, PromptInv
  <2>3. owed' # None => Carries(put, owed) \/ left = owed
    BY <2>1 DEF DraftInv, SafeInv, OnScreen
  <2>4. SafeInv'
    BY <2>1, <2>3 DEF SafeInv, Carries, IsSent
  <2> QED BY <2>1, <2>2, <2>4 DEF DraftInv, CacheInv, LeftInv, PromptInv, SavingInv
<1>14. CASE TimerFires
  BY <1>0, <1>14, FlushKnown, QuietStep DEF TimerFires, Mounted
<1>15. CASE Poll
  BY <1>15, <1>a DEF Poll
<1>16. CASE ServerReads
  BY <1>16, <1>a DEF ServerReads
<1>17. CASE ReadAnswers
  <2>1. read \in Texts /\ Fold(read) /\ put' = Released(put) /\ UNCHANGED <<tab, left, ask>>
    BY <1>17 DEF ReadAnswers
  <2> QED BY <1>0, <2>1, ReleasedKnown, FoldStep
<1>18. CASE ReadFails
  BY <1>0, <1>18, ReleasedKnown, QuietStep DEF ReadFails, Mounted
<1>19. ASSUME NEW w \in Writers, Apply(w) PROVE DraftInv'
  <2>1. /\ IsSent(put, w) /\ UNCHANGED <<cache, tab, buffer, left, ask>>
        /\ put' = [put EXCEPT ![w].stage = "applied"]
        /\ owed' = IF owed = put[w].text THEN None ELSE owed
    BY <1>19 DEF Apply, Owes, IsSent
  <2>2. put[w] \in Writes /\ put' \in Puts
    BY <1>0, <2>1, StageMoves DEF IsSent, Puts, Stages
  <2>3. put'[w] # None /\ \A v \in Writers \ {w} : put'[v] = put[v]
    <3>1. put'[w] = [put[w] EXCEPT !.stage = "applied"]
      BY <1>0, <2>1 DEF Puts
    <3>2. put'[w] \in Writes
      BY <2>2, <3>1 DEF Writes, Stages
    <3> QED BY <1>0, <2>1, <3>2 DEF Puts
  <2>4. owed' # None => owed' = owed /\ owed # put[w].text /\ OnScreen' = OnScreen
    BY <2>1 DEF OnScreen, Mounted
  <2>5. CacheInv' /\ LeftInv' /\ PromptInv'
    BY <2>1, <2>3, <2>4 DEF DraftInv, CacheInv, LeftInv, PromptInv, Mounted, IsSent, Writers
  <2>6. SavingInv'
    <3> SUFFICES ASSUME ask' = "saving", owed' # None, OnScreen'
                 PROVE  IsSent(put', "dialog") /\ put'["dialog"].text = owed'
      BY DEF SavingInv, IsSent
    <3>1. IsSent(put, "dialog") /\ put["dialog"].text = owed
      BY <2>1, <2>4 DEF DraftInv, SavingInv
    <3>2. w # "dialog"
      BY <2>4, <3>1
    <3> QED BY <2>3, <2>4, <3>1, <3>2 DEF IsSent, Writers
  <2>7. SafeInv'
    <3> SUFFICES ASSUME owed' # None, ~OnScreen', left' # owed' PROVE Carries(put', owed')
      BY DEF SafeInv, Carries, IsSent
    <3>1. PICK v \in Writers : IsSent(put, v) /\ put[v].text = owed
      BY <2>1, <2>4 DEF DraftInv, SafeInv, Carries
    <3>2. put'[v] = put[v]
      BY <2>3, <2>4, <3>1
    <3> QED BY <2>4, <3>1, <3>2 DEF Carries, IsSent
  <2> QED BY <2>5, <2>6, <2>7 DEF DraftInv
<1>20. ASSUME NEW w \in Writers, Answer(w) PROVE DraftInv'
  <2> DEFINE p == Released(put)  s == IF Mounted THEN "landed" ELSE "done"
  <2>1. /\ put[w] # None /\ put[w] \in Writes /\ put[w].text \in Texts
        /\ put[w].stage = "applied"
    BY <1>0, <1>20 DEF Answer, Puts, Writes
  <2>2. p \in Puts /\ p[w] = put[w]
    BY <1>0, <2>1, ReleasedPuts DEF Released
  <2>3. s \in Stages /\ put' = [p EXCEPT ![w].stage = s]
    BY <1>20 DEF Answer, Stages
  <2>4. put'[w] # None /\ \A v \in Writers \ {w} : put'[v] = p[v]
    <3>1. put'[w] = [p[w] EXCEPT !.stage = s] /\ \A v \in Writers \ {w} : put'[v] = p[v]
      BY <2>2, <2>3 DEF Puts
    <3>2. put'[w] \in Writes
      BY <2>1, <2>2, <2>3, <3>1 DEF Writes
    <3> QED BY <3>1, <3>2
  <2>5. SameKnown(put, put')
    BY <1>0, <2>1, <2>4, ReleasedKnown DEF SameKnown, KeepsSent, IsSent, Writers
  <2>6. Fold(put[w].text) /\ UNCHANGED <<tab, left, ask>>
    BY <1>20 DEF Answer
  <2> QED BY <2>1, <2>5, <2>6, FoldStep
<1>21. ASSUME NEW w \in Writers, Settle(w) PROVE DraftInv'
  <2> DEFINE p == [put EXCEPT ![w] = None]
  <2>1. /\ p \in Puts /\ p[w] = None /\ \A v \in Writers \ {w} : p[v] = put[v]
        /\ put[w] # None /\ put[w].stage = "done" /\ owed' = owed
    BY <1>0, <1>21 DEF Settle, Puts
  <2>2. KeepsSent(put, p)
    BY <2>1 DEF KeepsSent, IsSent
  <2>3. CASE w = "dialog"
    <3>1. Unmount(p, None)
      BY <1>21, <2>3 DEF Settle
    <3>2. owed # None => ~OnScreen
      BY <2>1, <2>3 DEF DraftInv, PromptInv, SavingInv, IsSent
    <3>3. p["dialog"] = None /\ p["left"] = put["left"]
      BY <2>1, <2>3 DEF Writers
    <3> QED BY <2>1, <2>2, <3>1, <3>2, <3>3, UnmountStep
  <2>4. CASE w # "dialog"
    <3>1. After(w, p)
      BY <1>21, <2>4 DEF Settle
    <3>2. Carries(put, owed) => Carries(p, owed)
      BY <2>2, KeptCarries
    <3> QED BY <2>1, <2>4, <3>1, <3>2, AfterStep DEF DraftInv, SafeInv
  <2> QED BY <2>3, <2>4
<1>22. ASSUME NEW w \in Writers, Refuse(w) PROVE DraftInv'
  <2> DEFINE p == [put EXCEPT ![w] = None]
  <2>1. /\ p \in Puts /\ p[w] = None /\ \A v \in Writers \ {w} : p[v] = put[v]
        /\ put[w] # None /\ owed' = IF Carried(p) THEN owed ELSE None
    BY <1>0, <1>22 DEF Refuse, Puts
  <2>2. owed' # None => owed' = owed /\ (OnScreen \/ left = owed \/ Carries(p, owed))
    BY <2>1, ScreenShows DEF Carried, Carries, IsSent, DraftInv
  <2>3. CASE w = "dialog"
    <3>1. /\ put' = p /\ ask' = "asked" /\ UNCHANGED <<cache, tab, buffer, left>>
      BY <1>22, <2>3 DEF Refuse
    <3>2. Mounted /\ p["dialog"] = None /\ p["left"] = put["left"]
      BY <2>1, <2>3 DEF DraftInv, PromptInv, Writers
    <3>3. owed' # None => OnScreen' = OnScreen
      BY <2>2, <3>1 DEF OnScreen, Mounted
    <3>4. SafeInv'
      BY <2>2, <3>1, <3>3 DEF SafeInv, Carries, IsSent
    <3> QED BY <2>2, <3>1, <3>2, <3>4
            DEF DraftInv, CacheInv, LeftInv, PromptInv, SavingInv, Mounted
  <2>4. CASE w # "dialog"
    <3>1. After(w, p)
      BY <1>22, <2>4 DEF Refuse
    <3> QED BY <2>1, <2>2, <2>4, <3>1, AfterStep
  <2> QED BY <2>3, <2>4
<1>23. ASSUME NEW t \in Theirs, Agent(t) PROVE DraftInv'
  BY <1>23, <1>a DEF Agent, client
<1>24. CASE UNCHANGED vars
  BY <1>24, <1>a DEF vars, client
<1> QED
  BY <1>1, <1>2, <1>3, <1>4, <1>5, <1>6, <1>7, <1>8, <1>9, <1>10, <1>11, <1>12, <1>13, <1>14,
     <1>15, <1>16, <1>17, <1>18, <1>19, <1>20, <1>21, <1>22, <1>23, <1>24 DEF Next

\* Typing is never nowhere: until it has been on disk or was given up, it is in the
\* editor, or a write carries it, or one is queued to (useFileAutoSave.ts).
THEOREM DraftsAreSafe == Spec => []DraftIsSafe
<1>1. Init => DraftInv
  BY DEF Init, DraftInv, CacheInv, LeftInv, PromptInv, SavingInv, SafeInv, Writers
<1>2. TypeOK /\ DraftInv => DraftIsSafe
  BY ScreenShows DEF DraftInv, SafeInv, DraftIsSafe, Carried, Carries, IsSent
<1> QED BY <1>1, <1>2, StepDraftInv, FileTabTypeOK, PTL DEF Spec

-----------------------------------------------------------------------------
(* The fetch.                                                              *)

\* NoStaleRead, strengthened: a write the server has not got to yet may still be
\* refused, so it is no excuse either.
Applied(p) == {w \in Writers : p[w] # None /\ p[w].stage = "applied"}
FreshRead == (read \in Texts /\ disk \in Mine /\ Applied(put) = {} /\ ~lost) => read = disk

LEMMA SentNotApplied ==
    ASSUME NEW p \in Puts, NEW w \in Writers, NEW t \in Texts
    PROVE  Applied([p EXCEPT ![w] = Sent(t)]) = Applied(p) \ {w}
BY DEF Applied, Sent, Puts

LEMMA FlushApplies ==
    ASSUME TypeOK, NEW p \in Puts, NEW q \in BOOLEAN, Flush(p, q)
    PROVE  Applied(put') = Applied(p)
<1>1. CASE CanFlush /\ p["auto"] = None
  <2>1. put' = [p EXCEPT !["auto"] = Sent(Draft)]
    BY <1>1 DEF Flush, Send
  <2>2. "auto" \notin Applied(p) /\ "auto" \in Writers
    BY <1>1 DEF Applied, Writers
  <2>3. Applied(put') = Applied(p) \ {"auto"}
    BY <1>1, <2>1, <2>2, SentNotApplied, DraftIsText
  <2> QED BY <2>2, <2>3
<1>2. CASE ~(CanFlush /\ p["auto"] = None)
  BY <1>2 DEF Flush
<1> QED BY <1>1, <1>2

LEMMA ReleasedApplies ==
    ASSUME NEW p \in Puts
    PROVE  Applied(Released(p)) = Applied(p)
BY DEF Applied, Released, Puts, Writes

LEMMA AfterApplies ==
    ASSUME TypeOK, NEW w \in Writers, NEW p \in Puts, p[w] = None, After(w, p)
    PROVE  Applied(put') = Applied(p)
<1>1. CASE w = "auto"
  <2>1. After("auto", p)
    BY <1>1
  <2>2. queued => Flush(p, FALSE)
    BY <2>1 DEF After
  <2>3. ~queued => put' = p
    BY <2>1 DEF After
  <2> QED BY <2>2, <2>3, FlushApplies DEF TypeOK
<1>2. CASE w = "left"
  <2>1. After("left", p) /\ "left" \in Writers
    BY <1>2
  <2>2. put' = IF left = None THEN p ELSE [p EXCEPT !["left"] = Sent(left)]
    BY <2>1 DEF After
  <2>3. "left" \notin Applied(p)
    BY <1>2 DEF Applied
  <2> QED BY <2>1, <2>2, <2>3, SentNotApplied DEF TypeOK
<1>3. CASE w \notin {"auto", "left"}
  BY <1>3 DEF After
<1> QED BY <1>1, <1>2, <1>3

\* The write of the hook changes its name when the tab goes, nothing else.
LEMMA UnmountApplies ==
    ASSUME TypeOK, NEW p \in Puts, NEW t \in Texts \cup {None}, Unmount(p, t), Applied(put') = {}
    PROVE  Applied(p) = {}
<1>1. CASE p["auto"] = None /\ t # None
  <2>1. put' = [p EXCEPT !["left"] = Sent(t)] /\ p["left"] = None
    BY <1>1 DEF Unmount
  <2>2. "left" \notin Applied(p) /\ "left" \in Writers
    BY <2>1 DEF Applied, Writers
  <2>3. t \in Texts
    BY <1>1
  <2>4. Applied(put') = Applied(p) \ {"left"}
    BY <2>1, <2>2, <2>3, SentNotApplied
  <2> QED BY <2>2, <2>4
<1>2. CASE ~(p["auto"] = None /\ t # None)
  <2>1. put' = [p EXCEPT !["left"] = p["auto"], !["auto"] = None] /\ p["left"] = None
    BY <1>2 DEF Unmount
  <2>2. put'["left"] = p["auto"] /\ \A w \in Writers \ {"left", "auto"} : put'[w] = p[w]
    BY <2>1 DEF Puts, Writers
  <2>3. ASSUME NEW w \in Applied(p) PROVE FALSE
    <3>1. w \in Writers /\ p[w] # None /\ p[w].stage = "applied" /\ w # "left"
      BY <2>1 DEF Applied
    <3>2. CASE w = "auto"
      <4>1. "left" \in Applied(put')
        BY <2>2, <3>1, <3>2 DEF Applied, Writers
      <4> QED BY <4>1
    <3>3. CASE w # "auto"
      <4>1. w \in Applied(put')
        BY <2>2, <3>1, <3>3 DEF Applied
      <4> QED BY <4>1
    <3> QED BY <3>2, <3>3
  <2> QED BY <2>3
<1> QED BY <1>1, <1>2

LEMMA StepFreshRead == TypeOK /\ DraftInv /\ FreshRead /\ [Next]_vars => FreshRead'
<1> SUFFICES ASSUME TypeOK, DraftInv, FreshRead, [Next]_vars,
                    read' \in Texts, disk' \in Mine, Applied(put') = {}, ~lost'
             PROVE  read' = disk'
  BY DEF FreshRead, Applied
<1>0. put \in Puts /\ None \notin Texts /\ "asked" \notin Texts
  BY DEF TypeOK, Puts
<1>a. ASSUME Applied(put) = {}, read' = read, disk' = disk, lost' = lost
      PROVE  read' = disk'
  BY <1>a DEF FreshRead
<1>1. ASSUME NEW t \in Mine \cup {Original}, Type(t) PROVE read' = disk'
  BY <1>1, <1>a DEF Type
<1>2. CASE LookAway
  BY <1>0, <1>2, <1>a, FlushApplies DEF LookAway, ghosts, TypeOK
<1>3. CASE ToBack
  BY <1>0, <1>3, <1>a, FlushApplies DEF ToBack, ghosts, TypeOK
<1>4. CASE ToFront
  <2>1. read' = read \/ read' = "asked"
    BY <1>4 DEF ToFront, Refetched
  <2>2. Applied(put) = {}
    BY <1>0, <1>4, ReleasedApplies DEF ToFront
  <2> QED BY <1>0, <1>4, <1>a, <2>1, <2>2 DEF ToFront, ghosts
<1>5. CASE KeySave
  <2>1. Draft \in Texts
    BY <1>5, SyncIsBuffer DEF KeySave, TypeOK, Dirty, DirtyOf, Ready, Draft, Synced, Buffers
  <2>2. put' = [put EXCEPT !["key"] = Sent(Draft)] /\ put["key"] = None
    BY <1>5 DEF KeySave, Send
  <2>3. Applied(put) = {}
    BY <1>0, <2>1, <2>2, SentNotApplied DEF Applied, Writers
  <2> QED BY <1>5, <1>a, <2>3 DEF KeySave, ghosts
<1>6. CASE Revert
  BY <1>6, <1>a DEF Revert
<1>7. CASE CloseClean
  BY <1>0, <1>7, <1>a, UnmountApplies, UnmountTypes DEF CloseClean, ghosts
<1>8. CASE AskClose
  BY <1>8, <1>a DEF AskClose, ghosts
<1>9. CASE CancelClose
  BY <1>9, <1>a DEF CancelClose, ghosts
<1>10. CASE DontSave
  BY <1>0, <1>10, <1>a, UnmountApplies, UnmountTypes DEF DontSave
<1>11. CASE SaveAndClose
  <2>1. CASE Dirty
    <3>1. Draft \in Texts
      BY <2>1, SyncIsBuffer DEF TypeOK, Dirty, DirtyOf, Ready, Draft, Synced, Buffers
    <3>2. put' = [put EXCEPT !["dialog"] = Sent(Draft)] /\ "dialog" \in Writers
      BY <1>11, <2>1 DEF SaveAndClose, Send, Writers
    <3>3. Applied(put) \subseteq {"dialog"}
      <4>1. Applied(put') = Applied(put) \ {"dialog"}
        BY <1>0, <3>1, <3>2, SentNotApplied
      <4> QED BY <4>1
    <3>4. put["dialog"] = None
      BY <1>11, PromptIdle DEF SaveAndClose
    <3> QED BY <1>11, <1>a, <2>1, <3>3, <3>4 DEF SaveAndClose, ghosts, Applied
  <2>2. CASE ~Dirty
    BY <1>0, <1>11, <2>2, <1>a, UnmountApplies, UnmountTypes DEF SaveAndClose, ghosts
  <2> QED BY <2>1, <2>2
<1>12. CASE Leave
  <2> DEFINE t == IF CanFlush THEN Draft ELSE None
  <2>1. t \in Texts \cup {None} /\ Unmount(put, t)
    BY <1>12, DraftIsText DEF Leave
  <2> QED BY <1>0, <1>12, <1>a, <2>1, UnmountApplies, UnmountTypes DEF Leave
<1>13. CASE Reopen
  <2>1. (read' = read \/ read' = "asked") /\ UNCHANGED <<disk, put, lost>>
    BY <1>13 DEF Reopen
  <2> QED BY <1>0, <1>a, <2>1
<1>14. CASE TimerFires
  <2>1. Applied(put') = Applied(put)
    BY <1>0, <1>14, FlushApplies DEF TimerFires, TypeOK
  <2> QED BY <1>14, <1>a, <2>1 DEF TimerFires, ghosts
<1>15. CASE Poll
  BY <1>0, <1>15 DEF Poll
<1>16. CASE ServerReads
  BY <1>16 DEF ServerReads
<1>17. CASE ReadAnswers
  BY <1>0, <1>17 DEF ReadAnswers
<1>18. CASE ReadFails
  BY <1>0, <1>18 DEF ReadFails
<1>19. ASSUME NEW w \in Writers, Apply(w) PROVE read' = disk'
  <2>1. put[w] \in Writes /\ put' = [put EXCEPT ![w].stage = "applied"]
    BY <1>0, <1>19 DEF Apply, Puts
  <2>2. put'[w] = [put[w] EXCEPT !.stage = "applied"]
    BY <1>0, <2>1 DEF Puts
  <2>3. put'[w] \in Writes /\ put'[w].stage = "applied"
    BY <2>1, <2>2 DEF Writes, Stages
  <2>4. w \in Applied(put')
    BY <2>3 DEF Applied
  <2> QED BY <2>4
<1>20. ASSUME NEW w \in Writers, Answer(w) PROVE read' = disk'
  BY <1>0, <1>20 DEF Answer
<1>21. ASSUME NEW w \in Writers, Settle(w) PROVE read' = disk'
  <2> DEFINE p == [put EXCEPT ![w] = None]
  <2>1. /\ p \in Puts /\ p[w] = None
        /\ put[w] # None /\ put[w].stage = "done" /\ UNCHANGED <<disk, lost>>
    BY <1>0, <1>21 DEF Settle, Puts, ghosts
  <2>2. Applied(p) = Applied(put)
    BY <1>0, <2>1 DEF Applied, Puts
  <2>3. read' = read /\ Applied(p) = {}
    <3>1. CASE w = "dialog"
      <4>1. Unmount(p, None)
        BY <1>21, <3>1 DEF Settle
      <4> QED BY <2>1, <4>1, UnmountTypes, UnmountApplies
    <3>2. CASE w # "dialog"
      <4>1. After(w, p)
        BY <1>21, <3>2 DEF Settle
      <4> QED BY <2>1, <4>1, AfterTypes, AfterApplies
    <3> QED BY <3>1, <3>2
  <2> QED BY <1>a, <2>1, <2>2, <2>3
<1>22. ASSUME NEW w \in Writers, Refuse(w) PROVE read' = disk'
  <2> DEFINE p == [put EXCEPT ![w] = None]
  <2>1. /\ p \in Puts /\ p[w] = None /\ put[w] # None /\ put[w].stage \in {"sent", "applied"}
        /\ lost' = (lost \/ (put[w].stage = "applied" /\ read \in Texts))
        /\ disk' = disk
    BY <1>0, <1>22 DEF Refuse, Puts
  <2>2. read' = read /\ Applied(p) = {}
    <3>1. CASE w = "dialog"
      BY <1>22, <3>1 DEF Refuse
    <3>2. CASE w # "dialog"
      <4>1. After(w, p)
        BY <1>22, <3>2 DEF Refuse
      <4> QED BY <2>1, <4>1, AfterTypes, AfterApplies
    <3> QED BY <3>1, <3>2
  <2>3. put[w].stage = "sent" /\ ~lost
    BY <2>1, <2>2
  <2>4. Applied(put) = {}
    BY <1>0, <2>1, <2>2, <2>3 DEF Applied, Puts
  <2> QED BY <2>1, <2>2, <2>3, <2>4 DEF FreshRead
<1>23. ASSUME NEW t \in Theirs, Agent(t) PROVE read' = disk'
  BY <1>23 DEF Agent
<1>24. CASE UNCHANGED vars
  BY <1>24, <1>a DEF vars, client, ghosts
<1> QED
  BY <1>1, <1>2, <1>3, <1>4, <1>5, <1>6, <1>7, <1>8, <1>9, <1>10, <1>11, <1>12, <1>13, <1>14,
     <1>15, <1>16, <1>17, <1>18, <1>19, <1>20, <1>21, <1>22, <1>23, <1>24 DEF Next

\* A fetch from before a save never answers after it: the save's answer cancels it
\* (queries.ts, useWriteWorktreeFile).
THEOREM ReadsAreFresh == Spec => []NoStaleRead
<1>1. Init => FreshRead
  BY DEF Init, FreshRead, TypeOK
<1>2. TypeOK /\ FreshRead => NoStaleRead
  BY DEF FreshRead, NoStaleRead, Applied, Unanswered
<1>3. Init => DraftInv
  BY DEF Init, DraftInv, CacheInv, LeftInv, PromptInv, SavingInv, SafeInv, Writers
<1> QED BY <1>1, <1>2, <1>3, StepDraftInv, StepFreshRead, FileTabTypeOK, PTL DEF Spec
=============================================================================
