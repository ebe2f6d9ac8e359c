----------------------------- MODULE Permission -----------------------------
(***************************************************************************)
(* The permission vocabulary of the agent core: the runtime modes of a     *)
(* thread, the answers a human can give to an approval card, and the one   *)
(* matrix that says which actions run without asking                       *)
(* (backend/internal/agentcore/provider/provider.go).                      *)
(***************************************************************************)

\* provider.RuntimeMode: the four modes RuntimeMode.Valid accepts.
RuntimeMode == {"approval-required", "auto-accept-edits", "auto", "full-access"}

\* event.Decision: the answers Decision.Valid accepts.
Decision == {"accept", "acceptForSession", "decline", "cancel"}

\* The decisions under which an asking tool call proceeds (ssh_tool.go rejects
\* decline and cancel, and only those).
Approvals == Decision \ {"decline", "cancel"}

\* RuntimeMode.AllowsUnprompted: may an action run under `mode' without a card?
AllowsUnprompted(mode, mutating) ==
    \/ mode = "full-access"
    \/ mode \in {"auto", "auto-accept-edits"} /\ ~mutating

\* sessionShortcutApplies: the modes in which a standing "accept for session"
\* answers a later mutation.
SessionShortcutApplies(mode) == mode \in {"auto", "auto-accept-edits"}
=============================================================================
