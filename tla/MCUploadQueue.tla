--------------------------- MODULE MCUploadQueue ---------------------------
(***************************************************************************)
(* TLC instances of UploadQueue.                                           *)
(***************************************************************************)
EXTENDS UploadQueue, TLC

Symmetry == Permutations(File)

=============================================================================
