-------------------------- MODULE MCAssetJobLease --------------------------
(***************************************************************************)
(* TLC instance of AssetJobLease.  Both processes run under one configured *)
(* worker id: the case the lease token exists for.                         *)
(***************************************************************************)
EXTENDS AssetJobLease, TLC

CONSTANTS p1, p2, w1

MCIdOf == (p1 :> w1) @@ (p2 :> w1)

\* One session state per way completeJob and failJob can answer: the failure
\* becomes PARTIALLY_FAILED, becomes FAILED, is refused, or the session ended.
EveryKindOfState == {"ARCHIVING", "NEEDS_REVIEW", "READY_TO_PUBLISH", "PUBLISHED"}

Symmetry == Permutations(Token) \cup Permutations(Job) \cup Permutations(Process)

=============================================================================
