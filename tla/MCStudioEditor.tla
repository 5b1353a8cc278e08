--------------------------- MODULE MCStudioEditor ---------------------------
(***************************************************************************)
(* TLC instances of StudioEditor: the bounds are in the .cfg files.        *)
(***************************************************************************)
EXTENDS StudioEditor

=============================================================================
