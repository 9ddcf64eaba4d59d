-------------------------- MODULE MCSessionWorktrees --------------------------
(* Instances of SessionWorktrees for TLC.                                     *)
EXTENDS SessionWorktrees
=============================================================================
