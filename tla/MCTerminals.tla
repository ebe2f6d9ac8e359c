----------------------------- MODULE MCTerminals -----------------------------
(***************************************************************************)
(* One session id: two shells, two sockets, two reads of output, and a     *)
(* ring buffer that overflows at once.                                     *)
(***************************************************************************)
EXTENDS Terminals
=============================================================================
