--------------------------- MODULE MCGroupReview ---------------------------
(***************************************************************************)
(* TLC instances of GroupReview.                                           *)
(***************************************************************************)
EXTENDS GroupReview, TLC

\* Every processing run yields bytes of its own.
OwnOutput == Group \X (1..MaxRuns)
OwnDigests == [g \in Group |-> [v \in 1..MaxRuns |-> {<<g, v>>}]]

\* Every run may yield any of the digests: unchanged settings reproduce the
\* bytes of an earlier version, changed settings give others.
AnyDigests == [g \in Group |-> [v \in 1..MaxRuns |-> Output]]

Symmetry == Permutations(Group) \cup Permutations(File)

=============================================================================
