-------------------------------- MODULE Recut --------------------------------
(* The recut of release/new at the promoted squash (scripts/               *)
(* sdlc_recut.py): back the old head up, delete the branch under a lease   *)
(* on that head, create it at the new base, each as one push between two   *)
(* reads of the remote, and push the old head back when that fails.        *)
EXTENDS Promotion

Heads == [cut : Nat, commits : Seq(Commits)]
Versions == [cut : Nat, impact : Nat, number : Nat]
Tags == [v : Versions, at : Heads, binds : SUBSET (Files \X Heads \X Builds)]

\* The runs of a recut, and what they read of the remote.
RecutRuns ==
    [flow : {"recut"}, op : {"backup", "delete", "create"},
     at : {"read", "push", "confirm", "stale", "error", "recover"},
     expected : [main : Seq(Heads), branch : Heads \cup {Nil}, preserved : SUBSET Heads,
                 tags : SUBSET Tags],
     old : Heads, base : Heads]

ASSUME NilAssumption == Nil \notin Heads \cup RecutRuns

VARIABLES outcome       \* what the last recut ended with, and told the operator

\* remote_snapshot: what a read of the remote compares with the plan.
Remote == [main |-> mainline, branch |-> branch, preserved |-> preserved, tags |-> tags]

Unmoved == UNCHANGED <<mainline, merged, surfaces, failed, publicationVars>>

\* validate_evidence and prepare_plan: the tag is main's latest release, wholly
\* published, and the reviewed head is on the branch.
Recuttable ==
    /\ mainline # <<>> /\ branch # Nil
    /\ LET h == Last(mainline)
       IN  /\ \E t \in TagOf(Target(h)) : t.at = h
           /\ Visible(Target(h), FALSE) # {}
           /\ branch.cut = h.cut /\ IsPrefix(h.commits, branch.commits)

\* apply_plan under the lock; the operator acknowledged the pending commits.
StartRecut ==
    /\ lock = Nil
    /\ Recuttable
    /\ lock' = [flow |-> "recut", op |-> "backup", at |-> "read", expected |-> Remote,
                old |-> branch, base |-> HeadAt(Len(mainline), <<>>)]
    /\ UNCHANGED <<branch, preserved, faults, outcome>> /\ Unmoved

\* The recut ends, and this is what it tells.
End(how) == lock' = Nil /\ outcome' = how

-----------------------------------------------------------------------------
(* One operation of the plan.                                              *)

\* The refs as the operation leaves them.
AfterOperation(r, refsNow) ==
    CASE r.op = "backup" -> [refsNow EXCEPT !.preserved = @ \cup {r.old}]
      [] r.op = "delete" -> [refsNow EXCEPT !.branch = Nil]
      [] r.op = "create" -> [refsNow EXCEPT !.branch = r.base]

\* Mutant of AcceptedPush: the deletion carries no lease.
AcceptedUnleased(r) ==
    \/ r.op = "backup"
    \/ r.op = "delete" /\ branch # Nil
    \/ r.op = "create" /\ branch = Nil

\* The server deletes only the planned head, and creates only an absent branch:
\* the branch rules refuse what Git would take as a fast-forward.
AcceptedPush(r) ==
    \/ r.op = "backup"
    \/ r.op = "delete" /\ branch = r.old
    \/ r.op = "create" /\ branch = Nil

\* The read before the push; a ref that moved, or cannot be read, stops the run.
ReadBefore ==
    /\ At("recut", "read")
    /\ \/ Remote = lock.expected /\ Goto("push") /\ UNCHANGED faults
       \/ Remote # lock.expected /\ Goto("stale") /\ UNCHANGED faults
       \/ Fault /\ Goto("stale")
    /\ UNCHANGED <<branch, preserved, outcome>> /\ Unmoved

\* The push is applied or not, and may report a failure either way.
Push ==
    /\ At("recut", "push")
    /\ \/ /\ AcceptedPush(lock)
          /\ branch' = AfterOperation(lock, Remote).branch
          /\ preserved' = AfterOperation(lock, Remote).preserved
          /\ \/ Goto("confirm") /\ UNCHANGED faults
             \/ Fault /\ Goto("error")
       \/ /\ UNCHANGED <<branch, preserved>>
          /\ \/ ~AcceptedPush(lock) /\ UNCHANGED faults
             \/ Fault
          /\ Goto("error")
    /\ UNCHANGED outcome /\ Unmoved

\* The read after it, and the next operation.
Confirm ==
    /\ At("recut", "confirm")
    /\ \/ /\ Remote = AfterOperation(lock, lock.expected)
          /\ IF lock.op = "create" THEN End("done")
             ELSE /\ lock' = [lock EXCEPT !.op = IF @ = "backup" THEN "delete" ELSE "create",
                                          !.at = "read", !.expected = Remote]
                  /\ UNCHANGED outcome
          /\ UNCHANGED faults
       \/ /\ \/ Remote # AfterOperation(lock, lock.expected) /\ UNCHANGED faults
             \/ Fault
          /\ Goto("error") /\ UNCHANGED outcome
    /\ UNCHANGED <<branch, preserved>> /\ Unmoved

-----------------------------------------------------------------------------
(* Errors.                                                                 *)

\* Mutant of MustRecover: only a deletion that was confirmed.
MustRecoverConfirmed(r) == r.op = "create"

\* A branch this run deleted, or may have deleted, is not left absent.
MustRecover(r) ==
    \/ r.op = "create"
    \/ r.op = "delete" /\ r.at = "error"

\* The error path; a read that fails counts as absent.
RecutError ==
    /\ Running("recut") /\ lock.at \in {"stale", "error"}
    /\ \/ /\ MustRecover(lock)
          /\ \/ branch = Nil /\ UNCHANGED faults
             \/ Fault
          /\ Goto("recover") /\ UNCHANGED outcome
       \/ /\ branch # Nil \/ ~MustRecover(lock)
          /\ End("refused") /\ UNCHANGED faults
    /\ UNCHANGED <<branch, preserved>> /\ Unmoved

\* _recover: one plain push of the old head.
Recover ==
    /\ At("recut", "recover")
    /\ \/ /\ branch = Nil /\ branch' = lock.old
          /\ End("restored") /\ UNCHANGED faults
       \/ /\ branch # Nil \/ Fault
          /\ branch = Nil \/ UNCHANGED faults
          /\ End("told") /\ UNCHANGED branch
    /\ UNCHANGED preserved /\ Unmoved

\* The runner dies: nothing is recovered and nothing is told.
RunnerDies ==
    /\ Running("recut")
    /\ Fault
    /\ End("died")
    /\ UNCHANGED <<branch, preserved>> /\ Unmoved

\* The operator runs the command the error or the runbook names.
RestoreByHand ==
    /\ branch = Nil /\ lock = Nil
    /\ \E h \in preserved : branch' = h
    /\ UNCHANGED <<preserved, lock, faults, outcome>> /\ Unmoved

RecutNext ==
    \/ StartRecut \/ ReadBefore \/ Push \/ Confirm \/ RecutError \/ Recover
    \/ RunnerDies \/ RestoreByHand
=============================================================================
