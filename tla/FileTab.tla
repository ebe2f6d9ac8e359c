------------------------------- MODULE FileTab -------------------------------
(***************************************************************************)
(* One file open in the workspace: the tab and its buffer (FileEditor.tsx, *)
(* SSHFileEditor.tsx), the hook that saves it unasked                      *)
(* (useFileAutoSave.ts), the query cache with its one fetch at a time and  *)
(* its writes (features/data/queries.ts), the close prompt                 *)
(* (ExpandedTerminal.tsx) and the file on disk, which an agent writes too. *)
(***************************************************************************)
EXTENDS Naturals

CONSTANTS Mine, Theirs, Original,   \* what the operator types, others write, and the file to begin with
          MaxActs, MaxTroubles,       \* bounds: what the operator does, and what befalls the tab
          None, NoText, NoBuffer

Texts == Mine \cup Theirs \cup {Original}

ASSUME TextsAssumption ==
    /\ Mine \cap Theirs = {} /\ Original \notin Mine \cup Theirs
    /\ MaxActs \in Nat /\ MaxTroubles \in Nat
    /\ None \notin Texts \cup {NoText, "asked"} /\ "asked" \notin Texts /\ NoText \notin Texts

INSTANCE FileBuffer

ASSUME BufferAssumption == NoBuffer \notin Buffers

(* Who sends a write: the auto-save hook, Ctrl+S, the close prompt, or the *)
(* hook of an instance that is gone.  One write each at a time: for the    *)
(* first that is the hook's own rule, for the others a bound.              *)
Writers == {"auto", "key", "dialog", "left"}

(* sent: the server has not written it.  applied: it has, unanswered.      *)
(* landed: answered, the refetch it asked for still out.  done: its        *)
(* promise is resolved.                                                    *)
Stages == {"sent", "applied", "landed", "done"}
Writes == [text : Texts, stage : Stages]

ASSUME WritesAssumption == None \notin Writes

VARIABLES
    disk,       \* the file
    cache,      \* the query's data, kept when the tab closes
    read,       \* the query's fetch: None, "asked", or the text the server read
    tab,        \* front, back or closed
    buffer,     \* the committed FileBuffer
    timer,      \* the debounce is armed
    queued,     \* a flush is queued behind the hook's write
    left,       \* the text queued behind the write of an instance that is gone
    put,        \* the writes under way
    last,       \* the writer the editor's isPending looks at
    ask,        \* the close prompt: no, asked, saving
    owed,       \* ghost: the newest typing, until it is on disk or given up
    refused,    \* ghost: a write of it failed
    acts, troubles, \* how much of the bounds is used
    lost        \* ghost: a write's answer was lost after the fetch in flight read the file

client == <<cache, read, tab, buffer, timer, queued, left, put, last, ask>>
ghosts == <<owed, refused, lost>>
bounds == <<acts, troubles>>
vars == <<disk, client, bounds, ghosts>>

-----------------------------------------------------------------------------
(* What a render derives from the buffer and the query's data.             *)

Mounted == tab # "closed"
Synced(b, c) == IF c = NoText THEN b ELSE SyncBuffer(b, c)
Ready(b, c) == Synced(b, c) # NoBuffer
DirtyOf(b, c) == Ready(b, c) /\ c # NoText /\ Synced(b, c).draft # c
ConflictedOf(b, c) == HasExternalChange(Synced(b, c), c)
Dirty == DirtyOf(buffer, cache)
Conflicted == ConflictedOf(buffer, cache)
Draft == Synced(buffer, cache).draft
CanFlush == Dirty /\ ~Conflicted
IsPending == last # None /\ put[last] # None

\* Mutant of Watched: the draft left out of the effect's dependencies.
WatchedButDraft(b, c) == <<Ready(b, c), DirtyOf(b, c), ConflictedOf(b, c)>>

\* The debounce's effect: it runs again only when one of these has moved.
Watched(b, c) ==
    <<Ready(b, c), DirtyOf(b, c), ConflictedOf(b, c),
      IF Ready(b, c) THEN Synced(b, c).draft ELSE NoText>>
Armed(b, c) ==
    IF Watched(b, c) = Watched(buffer, cache) THEN timer
    ELSE DirtyOf(b, c) /\ ~ConflictedOf(b, c)

-----------------------------------------------------------------------------
(* Pieces of a step.                                                       *)

Sent(text) == [text |-> text, stage |-> "sent"]
Unanswered(p) == {w \in Writers : p[w] # None /\ p[w].stage \in {"sent", "applied"}}

\* The fetch ended or was replaced: the writes that waited for it are done.
Released(p) ==
    [w \in Writers |->
        IF p[w] # None /\ p[w].stage = "landed" THEN [p[w] EXCEPT !.stage = "done"] ELSE p[w]]

\* A fetch that replaces the one in flight, unless that is the file's first.
Refetched == IF cache = NoText /\ read # None THEN read ELSE "asked"

\* Sending from p, the writes that are left of this step.
Send(p, w) == put' = [p EXCEPT ![w] = Sent(Draft)] /\ last' = w

\* The hook's flush, from the writes p and the mark q.
Flush(p, q) ==
    IF ~CanFlush THEN put' = p /\ queued' = q /\ UNCHANGED last
    ELSE IF p["auto"] # None THEN put' = p /\ queued' = TRUE /\ UNCHANGED last
    ELSE Send(p, "auto") /\ queued' = q

Act == acts < MaxActs /\ acts' = acts + 1 /\ UNCHANGED troubles
Trouble == troubles < MaxTroubles /\ troubles' = troubles + 1 /\ UNCHANGED acts

Owes(text) ==
    /\ owed' = text
    /\ refused' = (refused /\ text = owed /\ text # None)

\* New data in the cache: the tab folds it in, and the debounce looks again.
Fold(content) ==
    /\ cache' = content
    /\ IF Mounted
         THEN /\ buffer' = SyncBuffer(buffer, content)
              /\ timer' = Armed(buffer', content)
              /\ Owes(IF owed = content THEN None ELSE owed)
         ELSE UNCHANGED <<buffer, timer, owed, refused>>

\* The tab goes, leaving the hook's write and, behind it, the text `text`.
Unmount(p, text) ==
    /\ p["left"] = None
    /\ tab' = "closed" /\ buffer' = NoBuffer /\ timer' = FALSE /\ queued' = FALSE
    /\ last' = None /\ ask' = "no"
    /\ IF p["auto"] = None /\ text # None
         THEN /\ put' = [p EXCEPT !["left"] = Sent(text)]
              /\ left' = None
         ELSE /\ put' = [p EXCEPT !["left"] = p["auto"], !["auto"] = None]
              /\ left' = text
    /\ UNCHANGED <<cache, read>>

-----------------------------------------------------------------------------
(* The operator.                                                           *)

Type(t) ==
    /\ Act
    /\ tab = "front" /\ ask = "no" /\ buffer # NoBuffer /\ t # Draft
    /\ buffer' = EditBuffer(buffer, t)
    /\ timer' = Armed(buffer', cache)
    /\ owed' = IF t \in {cache, buffer.baseline} THEN None ELSE t
    /\ refused' = FALSE
    /\ UNCHANGED <<disk, cache, read, tab, queued, left, put, last, ask, lost>>

\* The window loses focus, or is hidden.
LookAway ==
    /\ UNCHANGED bounds
    /\ Mounted
    /\ Flush(put, queued)
    /\ UNCHANGED <<disk, cache, read, tab, buffer, timer, left, ask, ghosts>>

ToBack ==
    /\ Act
    /\ tab = "front" /\ ask = "no"
    /\ tab' = "back"
    /\ Flush(put, queued)
    /\ UNCHANGED <<disk, cache, read, buffer, timer, left, ask, ghosts>>

ToFront ==
    /\ Act
    /\ tab = "back" /\ ask = "no"
    /\ tab' = "front"
    /\ read' = Refetched
    /\ put' = Released(put)
    /\ UNCHANGED <<disk, cache, buffer, timer, queued, left, last, ask, ghosts>>

KeySave ==
    /\ Act
    /\ tab = "front" /\ Dirty /\ ~IsPending /\ put["key"] = None
    /\ Send(put, "key")
    /\ UNCHANGED <<disk, cache, read, tab, buffer, timer, queued, left, ask, ghosts>>

\* "Revert file", and the conflict bar's "Reload from disk".
Revert ==
    /\ Act
    /\ tab = "front" /\ ask = "no" /\ Dirty /\ ~IsPending
    /\ buffer' = SeedBuffer(cache)
    /\ timer' = Armed(buffer', cache)
    /\ Owes(None)
    /\ UNCHANGED <<disk, cache, read, tab, queued, left, put, last, ask, lost>>

\* Closing a clean tab: the hook's veto, then the unmount.
CloseClean ==
    /\ Act
    /\ Mounted /\ ask = "no" /\ ~Dirty
    /\ Unmount(put, None)
    /\ UNCHANGED <<disk, ghosts>>

AskClose ==
    /\ Act
    /\ Mounted /\ ask = "no" /\ Dirty
    /\ ask' = "asked"
    /\ UNCHANGED <<disk, cache, read, tab, buffer, timer, queued, left, put, last, ghosts>>

CancelClose ==
    /\ UNCHANGED bounds
    /\ ask = "asked"
    /\ ask' = "no"
    /\ UNCHANGED <<disk, cache, read, tab, buffer, timer, queued, left, put, last, ghosts>>

DontSave ==
    /\ UNCHANGED bounds
    /\ ask = "asked"
    /\ Unmount(put, None)
    /\ Owes(None)
    /\ UNCHANGED <<disk, lost>>

\* The prompt's Save.  A tab that has become clean meanwhile has nothing to
\* write and closes.
SaveAndClose ==
    /\ UNCHANGED bounds
    /\ ask = "asked"
    /\ IF Dirty
         THEN /\ Send(put, "dialog")
              /\ ask' = "saving"
              /\ UNCHANGED <<cache, read, tab, buffer, timer, queued, left>>
         ELSE Unmount(put, None)
    /\ UNCHANGED <<disk, ghosts>>

\* The workspace is navigated away from: the unmount flush, which writes no
\* conflicted draft.
Leave ==
    /\ Act
    /\ Mounted /\ ask = "no"
    /\ Unmount(put, IF CanFlush THEN Draft ELSE None)
    /\ Owes(IF Conflicted THEN None ELSE owed)
    /\ UNCHANGED <<disk, lost>>

\* Mutant of Reopen: the tab is seeded before the file has loaded.
ReopenSeeded ==
    /\ Act
    /\ tab = "closed"
    /\ tab' = "front"
    /\ buffer' = SeedBuffer(cache)
    /\ read' = IF read = None THEN "asked" ELSE read
    /\ Owes(IF owed = cache THEN None ELSE owed)
    /\ UNCHANGED <<disk, cache, timer, queued, left, put, last, ask, lost>>

Reopen ==
    /\ Act
    /\ tab = "closed"
    /\ tab' = "front"
    /\ buffer' = IF cache = NoText THEN NoBuffer ELSE SeedBuffer(cache)
    /\ read' = IF read = None THEN "asked" ELSE read
    /\ Owes(IF owed = cache THEN None ELSE owed)
    /\ UNCHANGED <<disk, cache, timer, queued, left, put, last, ask, lost>>

-----------------------------------------------------------------------------
(* The hook's timer, the query client, the server and everyone else.       *)

TimerFires ==
    /\ UNCHANGED bounds
    /\ timer
    /\ timer' = FALSE
    /\ Flush(put, queued)
    /\ UNCHANGED <<disk, cache, read, tab, buffer, left, ask, ghosts>>

\* The poll of the front tab, and the refetch of any tab when the window shows.
Poll ==
    /\ UNCHANGED bounds
    /\ Mounted /\ read = None
    /\ read' = "asked"
    /\ UNCHANGED <<disk, cache, tab, buffer, timer, queued, left, put, last, ask, ghosts>>

ServerReads ==
    /\ UNCHANGED bounds
    /\ read = "asked"
    /\ read' = disk
    /\ lost' = FALSE
    /\ UNCHANGED <<disk, cache, tab, buffer, timer, queued, left, put, last, ask, owed, refused>>

ReadAnswers ==
    /\ UNCHANGED bounds
    /\ read \in Texts
    /\ Fold(read)
    /\ read' = None
    /\ put' = Released(put)
    /\ UNCHANGED <<disk, tab, queued, left, last, ask, lost>>

ReadFails ==
    /\ Trouble
    /\ read # None
    /\ read' = None
    /\ put' = Released(put)
    /\ UNCHANGED <<disk, cache, tab, buffer, timer, queued, left, last, ask, ghosts>>

\* os.WriteFile, in the request's own goroutine.
Apply(w) ==
    /\ UNCHANGED bounds
    /\ put[w] # None /\ put[w].stage = "sent"
    /\ disk' = put[w].text
    /\ put' = [put EXCEPT ![w].stage = "applied"]
    /\ Owes(IF owed = put[w].text THEN None ELSE owed)
    /\ UNCHANGED <<cache, read, tab, buffer, timer, queued, left, last, ask, lost>>

\* Mutant of Answer: the fetch in flight is not cancelled.
AnswerUncancelled(w) ==
    /\ UNCHANGED bounds
    /\ put[w] # None /\ put[w].stage = "applied"
    /\ Fold(put[w].text)
    /\ read' = IF Mounted /\ read = None THEN "asked" ELSE read
    /\ put' = [put EXCEPT ![w].stage = IF Mounted THEN "landed" ELSE "done"]
    /\ UNCHANGED <<disk, tab, queued, left, last, ask, lost>>

\* The mutation's onSuccess: cancel the fetch, take the write's own answer,
\* and fetch again if a tab is looking.
Answer(w) ==
    LET others == Released(put) IN
    /\ UNCHANGED bounds
    /\ put[w] # None /\ put[w].stage = "applied"
    /\ Fold(put[w].text)
    /\ read' = IF Mounted THEN "asked" ELSE None
    /\ put' = [others EXCEPT ![w].stage = IF Mounted THEN "landed" ELSE "done"]
    /\ UNCHANGED <<disk, tab, queued, left, last, ask, lost>>

\* What follows a write, however it ended, from the writes that remain.
After(w, p) ==
    CASE w = "auto" -> /\ IF queued THEN Flush(p, FALSE)
                          ELSE put' = p /\ UNCHANGED <<queued, last>>
                       /\ UNCHANGED <<cache, read, tab, buffer, timer, left, ask>>
      [] w = "left" -> /\ put' = IF left = None THEN p ELSE [p EXCEPT !["left"] = Sent(left)]
                       /\ left' = None
                       /\ UNCHANGED <<cache, read, tab, buffer, timer, queued, last, ask>>
      [] OTHER      -> /\ put' = p
                       /\ UNCHANGED <<cache, read, tab, buffer, timer, queued, left, last, ask>>

\* The write's promise resolves; the close prompt's closes the tab.
Settle(w) ==
    /\ UNCHANGED bounds
    /\ put[w] # None /\ put[w].stage = "done"
    /\ LET p == [put EXCEPT ![w] = None] IN
       IF w = "dialog" THEN Unmount(p, None) ELSE After(w, p)
    /\ UNCHANGED <<disk, ghosts>>

\* The owed text is on screen, on its way, or queued to go.
Carried(p) ==
    \/ Mounted /\ Ready(buffer, cache) /\ Draft = owed
    \/ \E w \in Writers : p[w] # None /\ p[w].text = owed /\ p[w].stage = "sent"
    \/ left = owed

\* The write fails, before or after the server wrote the file; the prompt
\* stays up.  Nothing tries again until the next edit or flush.
Refuse(w) ==
    /\ Trouble
    /\ put[w] # None /\ put[w].stage \in {"sent", "applied"}
    /\ LET p == [put EXCEPT ![w] = None] IN
       /\ IF w = "dialog"
            THEN /\ put' = p /\ ask' = "asked"
                 /\ UNCHANGED <<cache, read, tab, buffer, timer, queued, left, last>>
            ELSE After(w, p)
       /\ owed' = IF Carried(p) THEN owed ELSE None
       /\ refused' = (owed' # None /\ (refused \/ put[w].text = owed))
    /\ lost' = (lost \/ (put[w].stage = "applied" /\ read \in Texts))
    /\ UNCHANGED disk

\* An agent, a shell, a checkout.
Agent(t) ==
    /\ Trouble
    /\ t # disk
    /\ disk' = t
    /\ UNCHANGED <<client, ghosts>>

-----------------------------------------------------------------------------
Init ==
    /\ disk = Original /\ cache = NoText /\ read = "asked"
    /\ tab = "front" /\ buffer = NoBuffer
    /\ timer = FALSE /\ queued = FALSE /\ left = None
    /\ put = [w \in Writers |-> None] /\ last = None /\ ask = "no"
    /\ acts = 0 /\ troubles = 0 /\ owed = None /\ refused = FALSE /\ lost = FALSE

Next ==
    \/ \E t \in Mine \cup {Original} : Type(t)
    \/ LookAway \/ ToBack \/ ToFront \/ KeySave \/ Revert
    \/ CloseClean \/ AskClose \/ CancelClose \/ DontSave \/ SaveAndClose \/ Leave \/ Reopen
    \/ TimerFires \/ Poll \/ ServerReads \/ ReadAnswers \/ ReadFails
    \/ \E w \in Writers : Apply(w) \/ Answer(w) \/ Settle(w) \/ Refuse(w)
    \/ \E t \in Theirs : Agent(t)

Spec == Init /\ [][Next]_vars

ReadStep == ServerReads \/ ReadAnswers
WriteStep == \E w \in Writers : Apply(w) \/ Answer(w) \/ Settle(w)

(* Timers fire, fetches and writes end: the browser and the server go on.  *)
(* Nothing is asked of the operator, of other writers, or of luck.  Each   *)
(* conjunct is WF of its step, with ENABLED written out, which TLC would   *)
(* otherwise work out at every state.                                      *)
Underway ==
    \E w \in Writers :
        /\ put[w] # None /\ put[w].stage # "landed"
        /\ (w = "dialog" /\ put[w].stage = "done") => put["left"] = None

Fairness ==
    /\ []<>~timer \/ []<><<TimerFires>>_vars
    /\ []<>(read = None) \/ []<><<ReadStep>>_vars
    /\ []<>~Underway \/ []<><<WriteStep>>_vars

FairSpec == Spec /\ Fairness

-----------------------------------------------------------------------------
(* Everything has its type.                                                *)
TypeOK ==
    /\ disk \in Texts
    /\ cache \in Texts \cup {NoText}
    /\ read \in Texts \cup {None, "asked"}
    /\ tab \in {"front", "back", "closed"}
    /\ buffer \in Buffers \cup {NoBuffer}
    /\ timer \in BOOLEAN /\ queued \in BOOLEAN
    /\ left \in Texts \cup {None}
    /\ put \in [Writers -> Writes \cup {None}]
    /\ last \in Writers \cup {None}
    /\ ask \in {"no", "asked", "saving"}
    /\ acts \in 0..MaxActs /\ troubles \in 0..MaxTroubles
    /\ owed \in Texts \cup {None}
    /\ refused \in BOOLEAN /\ lost \in BOOLEAN

(* What the operator typed last is never nowhere: until it has been on     *)
(* disk, or they gave it up (reverted, "Don't Save", left it conflicted,   *)
(* or its last write failed after the tab went), it is in the editor, or   *)
(* a write is carrying it, or one is queued to.                            *)
DraftIsSafe == owed # None => Carried(put)

(* A fetch that read the file before the operator's save never answers     *)
(* after the save has: once every write is answered, what is on its way to *)
(* the editor is what the operator's last write put on disk.  Excused is a *)
(* write whose answer was lost.                                            *)
NoStaleRead ==
    (read \in Texts /\ disk \in Mine /\ Unanswered(put) = {} /\ ~lost) => read = disk

(* Typing reaches the disk unasked: sooner or later it is there, or given  *)
(* up, or the file moved under it and the tab says so, or a write of it    *)
(* failed.                                                                 *)
EditsReachDisk ==
    \A m \in Mine : (owed = m) ~> (owed # m \/ Conflicted \/ refused)

(* fileBuffer.ts, of hasExternalChange: true "exactly when the tab is      *)
(* holding unsaved edits over a newer file", the one state "where saving   *)
(* overwrites someone else's work".  So a conflict is never with the       *)
(* operator's own writing.                                                 *)
ConflictIsExternal == Conflicted => cache \notin Mine
=============================================================================
