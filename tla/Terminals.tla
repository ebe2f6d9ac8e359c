------------------------------ MODULE Terminals ------------------------------
(***************************************************************************)
(* The terminals of one session id: the shells started for it, their pumps *)
(* and the registry that should know them (terminal/registry.go), and the  *)
(* sockets that Terminal components open (features/terminal/Terminal.tsx), *)
(* with the handlers that attach them to a shell (HandleWS, attachPTY).    *)
(*                                                                         *)
(* A shell's output is counted in reads of its PTY, 1, 2, ...; 0 stands    *)
(* for the banner.  Input, sizes, the notice kill writes and reaping,      *)
(* which NewServer leaves off, are not modelled.                           *)
(***************************************************************************)
EXTENDS Naturals, Sequences, SequencesExt

CONSTANTS RingSize,     \* reads that fit in the ring buffer
          MaxShells,    \* bound: shells started
          MaxConns,     \* bound: sockets opened
          MaxOutput     \* bound: reads of their output

ASSUME TerminalAssumption ==
    /\ RingSize \in Nat \ {0}
    /\ {MaxShells, MaxConns, MaxOutput} \subseteq Nat

VARIABLES
    shells,      \* every ptySession so far, in the order they were started
    registered,  \* registry.sessions[id]: the number of a shell, or Nobody
    conns,       \* every socket so far, with its handler
    overwritten, \* shells whose registration another shell's replaced
    ousted       \* sockets whose place at a shell another took

vars == <<shells, registered, conns, overwritten, ousted>>

Nobody == 0

Shells == DOMAIN shells
Conns == DOMAIN conns

\* The reads after a up to b.
Reads(a, b) == [i \in 1..(b - a) |-> a + i]

\* A session as spawn leaves it.  `flushed' reads have entered the ring buffer,
\* which still holds those after `evicted'; `killer' is a kill between taking
\* the session out of the registry and ending its process.
NewShell ==
    [alive |-> TRUE, killer |-> FALSE, read |-> 0, flushed |-> 0, evicted |-> 0,
     conn |-> Nobody, replay |-> <<>>, pump |-> "run", to |-> Nobody, frames |-> <<>>]

\* A socket whose handler found no session.  `since' is where the ring buffer
\* began when the socket was attached.
NewConn ==
    [at |-> "spawning", open |-> TRUE, shell |-> Nobody, got |-> <<>>, since |-> 0]

\* A socket that is closed, with its handler still to notice: what it was sent no
\* longer matters.
Closed(x) == [x EXCEPT !.open = FALSE, !.got = <<>>, !.since = 0]

\* One whose handler is through with it.
Gone == Closed([NewConn EXCEPT !.at = "gone"])

Init ==
    /\ shells = <<>> /\ registered = Nobody /\ conns = <<>>
    /\ overwritten = {} /\ ousted = {}

-----------------------------------------------------------------------------
(* The process, the reader of its PTY and the goroutine that waits for it. *)

\* The shell exits by itself.  The reader's end and the PTY's close follow; what
\* is read after the exit might as well have been read before it.
Exit(s) ==
    /\ shells[s].alive
    /\ shells' = [shells EXCEPT ![s].alive = FALSE]
    /\ UNCHANGED <<registered, conns, overwritten, ousted>>

\* The reader hands something the process wrote to `chunks'.
Read(s) ==
    /\ shells[s].alive
    /\ FoldLeft(LAMBDA n, x : n + x.read, 0, shells) < MaxOutput
    /\ shells' = [shells EXCEPT ![s].read = @ + 1]
    /\ UNCHANGED <<registered, conns, overwritten, ousted>>

\* Mutant of Discarded: whatever the id stands for by now is forgotten.
DiscardedById(s) == Nobody

\* discard: the registry forgets this very session, if it still holds it.
Discarded(s) == IF registered = s THEN Nobody ELSE registered

\* The waiter, and after its last words the pump, discard an ended session.
Discard(s) ==
    /\ ~shells[s].alive
    /\ registered' = Discarded(s)
    /\ UNCHANGED <<shells, conns, overwritten, ousted>>

-----------------------------------------------------------------------------
(* The pump.                                                               *)

\* Mutant of Begins: a chunk larger than the ring buffer does not stay either.
BeginsEmpty(x, n) == {e \in x.evicted..n : n - e <= RingSize}

\* Where the ring buffer may begin once it holds the reads up to n: it drops
\* its oldest chunks until the rest fits, but never the chunk just added.
Begins(x, n) ==
    IF n - x.evicted <= RingSize \/ n = x.flushed THEN {x.evicted}
    ELSE {e \in (x.evicted + 1)..x.flushed : n - e <= RingSize \/ e = x.flushed}

\* Mutant of Due: no nudge, a replay waits for the next output.
DueOutput(x, n) == n > x.flushed

\* What flush is called for: output, or a replay an attach has queued.
Due(x, n) == n > x.flushed \/ x.replay # <<>>

\* Mutant of Flushed: the replay stays queued.
FlushedReplayKept(x, n, e, last) ==
    LET out == IF x.conn = Nobody THEN <<>> ELSE x.replay \o Reads(x.flushed, n) IN
    [x EXCEPT !.flushed = n, !.evicted = e,
              !.to = IF out = <<>> THEN Nobody ELSE x.conn, !.frames = out,
              !.pump = IF out # <<>> THEN (IF last THEN "lastWrite" ELSE "write")
                       ELSE IF last THEN "tell" ELSE "run"]

\* Under the lock: the reads up to n enter the ring buffer, the queued replay
\* and the socket they go to are taken.
Flushed(x, n, e, last) ==
    LET out == IF x.conn = Nobody THEN <<>> ELSE x.replay \o Reads(x.flushed, n) IN
    [x EXCEPT !.flushed = n, !.evicted = e, !.replay = <<>>,
              !.to = IF out = <<>> THEN Nobody ELSE x.conn, !.frames = out,
              !.pump = IF out # <<>> THEN (IF last THEN "lastWrite" ELSE "write")
                       ELSE IF last THEN "tell" ELSE "run"]

\* flush as the timer, a full batch or a nudge calls it: with what the pump has
\* taken from `chunks' by now.
Flush(s) ==
    /\ shells[s].pump = "run"
    /\ \E n \in shells[s].flushed..shells[s].read :
          /\ Due(shells[s], n)
          /\ \E e \in Begins(shells[s], n) :
                shells' = [shells EXCEPT ![s] = Flushed(@, n, e, FALSE)]
    /\ UNCHANGED <<registered, conns, overwritten, ousted>>

\* `chunks' is closed and empty: flush for the last time.
LastFlush(s) ==
    /\ shells[s].pump = "run" /\ ~shells[s].alive
    /\ \E e \in Begins(shells[s], shells[s].read) :
          shells' = [shells EXCEPT ![s] = Flushed(@, shells[s].read, e, TRUE)]
    /\ UNCHANGED <<registered, conns, overwritten, ousted>>

\* Outside the lock: writeChunked gets through, or fails on the way and the
\* socket is closed.  No write takes longer than connWriteTimeout.
Write(s) ==
    LET x == shells[s] IN
    /\ x.pump \in {"write", "lastWrite"}
    /\ conns' \in {[conns EXCEPT ![x.to] = Closed(@)]} \cup
          IF conns[x.to].open THEN {[conns EXCEPT ![x.to].got = @ \o x.frames]} ELSE {}
    /\ shells' = [shells EXCEPT ![s].pump = IF x.pump = "write" THEN "run" ELSE "tell",
                                ![s].to = Nobody, ![s].frames = <<>>]
    /\ UNCHANGED <<registered, overwritten, ousted>>

\* notifyExit: whoever is attached is told, as far as the network lets it, and
\* the socket is closed.
NotifyExit(s) ==
    /\ shells[s].pump = "tell"
    /\ shells' = [shells EXCEPT ![s].pump = "done"]
    /\ conns' = [c \in Conns |->
                   IF c = shells[s].conn THEN Closed(conns[c]) ELSE conns[c]]
    /\ UNCHANGED <<registered, overwritten, ousted>>

-----------------------------------------------------------------------------
(* kill, for a closed tab, a deleted worktree or a shutdown.               *)

Kill ==
    /\ registered # Nobody
    /\ shells' = [shells EXCEPT ![registered].killer = shells[registered].alive]
    /\ registered' = Nobody
    /\ UNCHANGED <<conns, overwritten, ousted>>

\* The PTY is closed and the process group ended.
Terminate(s) ==
    /\ shells[s].killer
    /\ shells' = [shells EXCEPT ![s].killer = FALSE, ![s].alive = FALSE]
    /\ UNCHANGED <<registered, conns, overwritten, ousted>>

-----------------------------------------------------------------------------
(* The socket's handler.                                                   *)

\* A Terminal component connects, in whatever window: it mounts, its retry timer
\* fires, or its page comes back into view, and its earlier socket may still look
\* alive here.  attachPTY looks the session up ...
Connect ==
    /\ Len(conns) < MaxConns
    /\ conns' = Append(conns, [NewConn EXCEPT
                    !.at = IF registered = Nobody THEN "spawning" ELSE "attaching",
                    !.shell = registered])
    /\ UNCHANGED <<shells, registered, overwritten, ousted>>

\* ... starts a shell if there was none, whoever has started one since ...
Spawn(c) ==
    /\ conns[c].at = "spawning" /\ Len(shells) < MaxShells
    /\ shells' = Append(shells, NewShell)
    /\ registered' = Len(shells')
    /\ overwritten' = overwritten \cup ({registered} \ {Nobody})
    /\ conns' = [conns EXCEPT ![c].at = "attaching", ![c].shell = Len(shells')]
    /\ UNCHANGED ousted

\* ... or says that it could not, and hangs up ...
SpawnFails(c) ==
    /\ conns[c].at = "spawning"
    /\ conns' = [conns EXCEPT ![c] = Gone]
    /\ UNCHANGED <<shells, registered, overwritten, ousted>>

\* ... and attachConn binds the socket to it, with a replay for the pump.
Attach(c) ==
    LET s == conns[c].shell IN
    /\ conns[c].at = "attaching"
    /\ shells' = [shells EXCEPT ![s].conn = c,
                                ![s].replay = <<0>> \o Reads(shells[s].evicted, shells[s].flushed)]
    /\ ousted' = ousted \cup ({shells[s].conn} \ {Nobody})
    /\ conns' = [conns EXCEPT ![c].at = "reading",
                              ![c].since = IF conns[c].open THEN shells[s].evicted ELSE 0]
    /\ UNCHANGED <<registered, overwritten>>

\* A component goes and closes its socket, the network fails, or keepalive gives
\* the peer up.
Drop(c) ==
    /\ conns[c].open
    /\ conns' = [conns EXCEPT ![c] = Closed(@)]
    /\ UNCHANGED <<shells, registered, overwritten, ousted>>

\* The read loop ends and detach clears the socket's place, at the session the
\* registry knows by then.
Detach(c) ==
    /\ conns[c].at = "reading" /\ ~conns[c].open
    /\ conns' = [conns EXCEPT ![c] = Gone]
    /\ ousted' = ousted \ {c}
    /\ shells' = [s \in Shells |->
                    IF s = registered /\ shells[s].conn = c
                    THEN [shells[s] EXCEPT !.conn = Nobody] ELSE shells[s]]
    /\ UNCHANGED <<registered, overwritten>>

-----------------------------------------------------------------------------
PumpStep(s) ==
    \/ Flush(s) \/ LastFlush(s) \/ Write(s) \/ NotifyExit(s)

HandlerStep(c) == Spawn(c) \/ SpawnFails(c) \/ Attach(c) \/ Detach(c)

Next ==
    \/ \E s \in Shells :
          Exit(s) \/ Read(s) \/ PumpStep(s) \/ Terminate(s) \/ Discard(s)
    \/ Kill \/ Connect
    \/ \E c \in Conns : HandlerStep(c) \/ Drop(c)

\* When PumpStep(s) is possible.
Pumps(s) ==
    /\ s \in Shells
    /\ shells[s].pump = "run" => ~shells[s].alive \/ Due(shells[s], shells[s].read)
    /\ shells[s].pump # "done"

\* A pump runs, and no write of its takes for ever; nothing else is assumed.
Fairness ==
    \A s \in 1..MaxShells : []<>~Pumps(s) \/ []<><<s \in Shells /\ PumpStep(s)>>_vars

Spec == Init /\ [][Next]_vars /\ Fairness

-----------------------------------------------------------------------------
TypeOK ==
    /\ registered \in {Nobody} \cup Shells
    /\ overwritten \subseteq Shells /\ ousted \subseteq Conns
    /\ \A s \in Shells :
          LET x == shells[s] IN
          /\ {x.alive, x.killer} \subseteq BOOLEAN
          /\ x.pump \in {"run", "write", "lastWrite", "tell", "done"}
          /\ x.evicted <= x.flushed /\ x.flushed <= x.read
          /\ x.flushed > 0 => x.evicted < x.flushed
          /\ {x.conn, x.to} \subseteq {Nobody} \cup Conns
          /\ (x.to # Nobody) = (x.pump \in {"write", "lastWrite"})
    /\ \A c \in Conns :
          /\ conns[c].at \in {"spawning", "attaching", "reading", "gone"}
          /\ conns[c].shell \in {Nobody} \cup Shells
          /\ conns[c].open \in BOOLEAN

\* What a socket should have been sent by now: the banner, what the ring buffer
\* held when it was attached, and all that was flushed since.
Stream(c) == <<0>> \o Reads(conns[c].since, shells[conns[c].shell].flushed)

Attached(c) == conns[c].at = "reading" /\ conns[c].open /\ c \notin ousted

\* pump's promise: `every byte is delivered once, in order'.  Whatever attaches,
\* detaches and breaks, a socket is sent a prefix of its stream; one that is up
\* and that no other replaced keeps its place, and is sent all of the stream
\* once nothing is queued for it or being written.
StreamIsExact ==
    \A c \in Conns : conns[c].at = "reading" /\ conns[c].open =>
        LET x == shells[conns[c].shell] IN
        /\ IsPrefix(conns[c].got, Stream(c))
        /\ c \notin ousted =>
              /\ x.conn = c
              /\ x.replay = <<>> /\ x.to # c => conns[c].got = Stream(c)

\* A shell that runs can be found again, to reattach or to kill, unless it is
\* being killed or a second spawn took its place: no late discard by an earlier
\* shell of the same id hides it.
LiveIsRegistered ==
    \A s \in Shells : shells[s].alive =>
        registered = s \/ shells[s].killer \/ s \in overwritten

\* A socket waits when it lacks output the pump has flushed, or the end.
Waits(c) ==
    Attached(c) /\ (conns[c].got # Stream(c) \/ ~shells[conns[c].shell].alive)

\* A socket that waits while the pump still runs does not wait for ever: it gets
\* what it lacks and the news of the end, or it is closed and reconnects, also
\* behind a peer that takes no more frames.  (One attached after the pump's last
\* step gets nothing.)
WaitsEnd ==
    \A c \in 1..MaxConns :
        (c \in Conns /\ Waits(c) /\ shells[conns[c].shell].pump # "done")
        ~> ~(c \in Conns /\ Waits(c))
=============================================================================
