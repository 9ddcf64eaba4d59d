-------------------------- MODULE MCWriteAdmission --------------------------
(* Two sessions, two paths and two ids that stand for one another, and an inbox. *)
EXTENDS WriteAdmission, TLC

MCSymmetry == Permutations(Sessions) \cup Permutations(Paths \ Inbox) \cup Permutations(Ids)
=============================================================================
