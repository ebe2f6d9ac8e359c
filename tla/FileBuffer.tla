------------------------------ MODULE FileBuffer ------------------------------
(***************************************************************************)
(* The rule by which a file tab adopts, or refuses to adopt, what the      *)
(* server says the file contains (features/terminal/fileBuffer.ts).  A     *)
(* buffer is the draft on screen and the content it was last reconciled    *)
(* with; NoBuffer is the tab that has not loaded its file.                 *)
(***************************************************************************)
CONSTANTS Texts, NoText, NoBuffer

Buffers == [draft : Texts, baseline : Texts]

SeedBuffer(content) == [draft |-> content, baseline |-> content]

\* An unsaved edit is held only if the file moved under it to something else.
Holds(buffer, incoming) ==
    buffer.draft # buffer.baseline /\ buffer.draft # incoming

\* Mutant of SyncBuffer: what the server says always wins.
SyncAlways(buffer, incoming) == SeedBuffer(incoming)

SyncBuffer(buffer, incoming) ==
    IF buffer = NoBuffer THEN SeedBuffer(incoming)
    ELSE IF incoming = buffer.baseline \/ Holds(buffer, incoming) THEN buffer
    ELSE SeedBuffer(incoming)

EditBuffer(buffer, draft) ==
    IF buffer = NoBuffer THEN buffer ELSE [buffer EXCEPT !.draft = draft]

HasExternalChange(buffer, incoming) ==
    /\ buffer # NoBuffer /\ incoming # NoText
    /\ incoming # buffer.baseline /\ SyncBuffer(buffer, incoming) = buffer
=============================================================================
