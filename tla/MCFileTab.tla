------------------------------ MODULE MCFileTab ------------------------------
(***************************************************************************)
(* One file, as many texts as the cfg says.                                *)
(***************************************************************************)
EXTENDS FileTab
=============================================================================
