-------------------------- MODULE ApprovalPromise --------------------------
(***************************************************************************)
(* What the approval gate promises its callers, without locks, channels,   *)
(* tombstones or goroutines: a registered request receives at most one     *)
(* answer, that answer never changes, and the goroutine that asked either  *)
(* leaves with exactly that answer or gives up because its own context     *)
(* ended.  Gate implements this.                                           *)
(***************************************************************************)
EXTENDS Permission

CONSTANTS Requests,    \* approval request ids
          Askers,      \* those somebody asks for, and waits on
          NoDecision   \* "not answered (yet)"; no decision, and not "gaveUp"

VARIABLES registered,  \* the requests that can be answered, or have been
          answer,      \* answer[r]: the decision on record, or NoDecision
          asker        \* asker[r]: where the goroutine that asked stands

vars == <<registered, answer, asker>>

\* An asker has not asked, is blocked, or has left with its result.
AskerState == {"absent", "blocked", "gaveUp"} \cup Decision

Init ==
    /\ registered = {}
    /\ answer = [r \in Requests |-> NoDecision]
    /\ asker = [r \in Requests |-> "absent"]

\* A request is raised; whoever raised it may or may not block on it later.
Register(r) ==
    /\ asker[r] = "absent"
    /\ registered' = registered \cup {r}
    /\ UNCHANGED <<answer, asker>>

\* The asking goroutine blocks on a request nobody has answered, raising it if
\* nobody had.
Block(r) ==
    /\ asker[r] = "absent"
    /\ answer[r] = NoDecision
    /\ registered' = registered \cup {r}
    /\ asker' = [asker EXCEPT ![r] = "blocked"]
    /\ UNCHANGED answer

\* One call answers every request of S that has no answer, all with d.
Answer(S, d) ==
    /\ S \subseteq registered
    /\ \A r \in S : answer[r] = NoDecision
    /\ answer' = [r \in Requests |-> IF r \in S THEN d ELSE answer[r]]
    /\ UNCHANGED <<registered, asker>>

\* The asker leaves with the recorded answer, whether or not it had to block,
\* taking the request with it at once or a moment later (Withdraw).
Serve(r) ==
    /\ asker[r] \in {"absent", "blocked"}
    /\ answer[r] # NoDecision
    /\ asker' = [asker EXCEPT ![r] = answer[r]]
    /\ registered' \in {registered, registered \ {r}}
    /\ UNCHANGED answer

\* The asker's context ended first.
GiveUp(r) ==
    /\ asker[r] = "blocked"
    /\ asker' = [asker EXCEPT ![r] = "gaveUp"]
    /\ UNCHANGED <<registered, answer>>

\* Once its asker has left, a request is gone: nothing can answer it any more.
Withdraw(r) ==
    /\ asker[r] \notin {"absent", "blocked"}
    /\ registered' = registered \ {r}
    /\ UNCHANGED <<answer, asker>>

Next ==
    \/ \E r \in Requests :
          Register(r) \/ Block(r) \/ Serve(r) \/ GiveUp(r) \/ Withdraw(r)
    \/ \E S \in SUBSET Requests, d \in Decision : Answer(S, d)

\* An answered request releases its asker.
Fairness == \A r \in Askers : WF_vars((Serve(r) \/ GiveUp(r)) /\ answer[r] # NoDecision)

SafeSpec == Init /\ [][Next]_vars
Spec == SafeSpec /\ Fairness
=============================================================================
