--------------------------- MODULE MCPendingClaims ---------------------------
(* Instances of PendingClaims for TLC.                                     *)
EXTENDS PendingClaims, TLC

CONSTANTS p1, p2, w1, t1, t2, a1, a2, r1

\* Two proposals and an auto-commit on one branch.
OneRef == [x \in {p1, p2, w1} |-> r1]

\* A second path on the same branch, so that one proposal's rebase meets the
\* other's claim; the auto-commit races the first proposal.
TwoPaths == (p1 :> a1) @@ (p2 :> a2) @@ (w1 :> a1)

\* A proposal and an auto-commit on one path, for the liveness run.
OneEach == [x \in {p1, w1} |-> a1]
OneEachRef == [x \in {p1, w1} |-> r1]

Symmetry == Permutations({t1, t2})
=============================================================================
