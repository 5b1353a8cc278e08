-------------------------- MODULE MCArchiveImport --------------------------
(***************************************************************************)
(* TLC instances of ArchiveImport.                                         *)
(***************************************************************************)
EXTENDS ArchiveImport, TLC

CONSTANTS p1, p2, w1, f1, f2, m1, m2

MCIdOf == [p \in Process |-> w1]

\* Everything in one manifest, or one file in each of two.
OneManifest == [m \in Manifest |-> File]
TwoManifests == (m1 :> {f1}) @@ (m2 :> {f2})

Symmetry == Permutations(Token) \cup Permutations(Content) \cup Permutations(ArchiveJob)
              \cup Permutations(Process)

=============================================================================
