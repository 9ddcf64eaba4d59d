----------------------------- MODULE MCPushQueue -----------------------------
(* Two writes of one session, their approvals, and the change another clone *)
(* makes to the file of the first one (a1).                                 *)
EXTENDS PushQueue

CONSTANTS w1, w2, x1, x2, f1, s1, sc, a1, a2

Approve12 == (w1 :> x1) @@ (w2 :> x2)
Together == (w1 :> s1) @@ (w2 :> s1)

FilesTwoWrites == (w1 :> a1) @@ (x1 :> a1) @@ (f1 :> a1) @@ (w2 :> a2) @@ (x2 :> a2)
=============================================================================
