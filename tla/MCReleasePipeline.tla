-------------------------- MODULE MCReleasePipeline --------------------------
(* Two commits of equal impact, two builds of a head, one release on main. *)
EXTENDS ReleasePipeline, TLC

CONSTANTS c1, c2

MCImpact == [c \in {c1, c2} |-> 1]

MCSymmetry == Permutations({c1, c2})
=============================================================================
