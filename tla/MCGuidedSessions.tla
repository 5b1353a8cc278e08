-------------------------- MODULE MCGuidedSessions --------------------------
(***************************************************************************)
(* TLC instances of GuidedSessions.                                        *)
(***************************************************************************)
EXTENDS GuidedSessions, TLC

CONSTANTS x, y, z

\* Two catalogues, whose recommendations have one design in common.
TwoTrios == {{x, y}, {x, z}}

Symmetry ==
  Permutations(Client) \cup Permutations(Operation) \cup Permutations(Position)
    \cup Permutations({y, z}) \cup Permutations(Fingerprint) \cup Permutations(Question)

=============================================================================
