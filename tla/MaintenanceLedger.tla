--------------------------- MODULE MaintenanceLedger ---------------------------
(* The maintenance ledger: after every tick of the pull loop the state the     *)
(* index computed of its corpus is committed, when it is news, in the worktree *)
(* of the system session; the push loop publishes the commit, a later tick     *)
(* indexes it. src/data_olympus/maintenance.py, on top of Index.               *)
EXTENDS Index

VARIABLES
    memo,           \* Index.maintenance_last_committed_state
    copy,           \* the ledger at the system worktree's HEAD
    unpushed,       \* its commits not on the trunk: [ledger, queued]
    overlooked      \* history: the index's copy was believed over the worktree's

ledgerVars == <<memo, copy, unpushed, overlooked>>
maintenanceVars == <<indexVars, ledgerVars>>

LedgerInit ==
    /\ Init
    /\ memo = Nil /\ copy = Nil /\ unpushed = <<>>
    /\ overlooked = FALSE

LedgerDone == rpc' = "idle"

indexed == trunk[db].ledger

----------------------------------------------------------------------------
(* maybe_update_ledger, the last thing a tick does.                          *)

\* Guard 1: the process committed this state, or knows it committed.
Remembered ==
    /\ up /\ rpc = "ledger" /\ memo = maint
    /\ LedgerDone
    /\ UNCHANGED <<trunk, checkout, day, up, db, buildStatus, maint, cacheVars, missed, faults,
                   ledgerVars>>

\* Guard 2: the index has this state. (The worktree is not looked at.)
Indexed ==
    /\ up /\ rpc = "ledger" /\ memo # maint /\ indexed = maint
    /\ memo' = maint
    /\ overlooked' = (overlooked \/ copy # maint)
    /\ LedgerDone
    /\ UNCHANGED <<trunk, checkout, day, up, db, buildStatus, maint, cacheVars, missed, faults,
                   copy, unpushed>>

\* Guard 3: the worktree has it, indexed or not.
InWorktree ==
    /\ up /\ rpc = "ledger" /\ maint \notin {memo, indexed} /\ copy = maint
    /\ memo' = maint
    /\ LedgerDone
    /\ UNCHANGED <<trunk, checkout, day, up, db, buildStatus, maint, cacheVars, missed, faults,
                   copy, unpushed, overlooked>>

NewState == up /\ rpc = "ledger" /\ maint \notin {memo, indexed, copy}

Committed(queued) ==
    /\ copy' = maint /\ overlooked' = FALSE
    /\ unpushed' = Append(unpushed, [ledger |-> maint, queued |-> queued])
    /\ LedgerDone

\* The commit, through the machinery of every other write.
CommitLedger ==
    /\ NewState
    /\ Committed(TRUE) /\ memo' = maint
    /\ UNCHANGED <<trunk, checkout, day, up, db, buildStatus, maint, cacheVars, missed, faults>>

\* Mutant of CommitLedgerFails: the memo is armed before the commit.
CommitLedgerFailsArmed ==
    /\ NewState /\ Fault
    /\ memo' = maint
    /\ LedgerDone
    /\ UNCHANGED <<trunk, checkout, day, up, db, buildStatus, maint, cacheVars, missed,
                   copy, unpushed, overlooked>>

\* A gate, a busy lock, git: the next tick tries again.
CommitLedgerFails ==
    /\ NewState /\ Fault
    /\ LedgerDone
    /\ UNCHANGED <<trunk, checkout, day, up, db, buildStatus, maint, cacheVars, missed,
                   ledgerVars>>

\* The commit is made and what follows it fails: nobody queues the push, and the
\* next tick finds the state in the worktree.
CommitLedgerCutOff ==
    /\ NewState /\ Fault
    /\ Committed(FALSE)
    /\ UNCHANGED <<trunk, checkout, day, up, db, buildStatus, maint, cacheVars, missed,
                   memo>>

----------------------------------------------------------------------------
(* The push loop, as far as it concerns the ledger.                          *)

\* A queued commit reaches the trunk with those below it on the branch.
PushLedger ==
    /\ up
    /\ \E n \in DOMAIN unpushed :
        /\ unpushed[n].queued /\ \A m \in 1..(n - 1) : ~unpushed[m].queued
        /\ trunk' = Append(trunk, [trunk[Len(trunk)] EXCEPT !.ledger = unpushed[n].ledger])
        /\ unpushed' = SubSeq(unpushed, n + 1, Len(unpushed))
    /\ UNCHANGED <<checkout, day, up, rpc, db, buildStatus, maint, cacheVars, missed, faults,
                   memo, copy, overlooked>>

\* Start-up queues what the worktrees have and the trunk has not.
Reconciled == [n \in DOMAIN unpushed |-> [unpushed[n] EXCEPT !.queued = TRUE]]

RefreshIndex ==
    /\ IndexNext
    /\ memo' = IF up' THEN memo ELSE Nil
    /\ unpushed' = IF up' /\ ~up THEN Reconciled ELSE unpushed
    /\ overlooked' = (overlooked /\ up')
    /\ UNCHANGED copy

LedgerNext ==
    \/ RefreshIndex
    \/ Remembered \/ Indexed \/ InWorktree
    \/ CommitLedger \/ CommitLedgerFails \/ CommitLedgerCutOff
    \/ PushLedger

LedgerSpec == LedgerInit /\ [][LedgerNext]_maintenanceVars

CheckLedger == Remembered \/ Indexed \/ InWorktree \/ CommitLedger

\* The loops repeat and the process is restarted; what is not made to fail comes
\* to its end.
LoopGoesOn == RefreshIndex /\ rpc' # rpc /\ up' /\ UNCHANGED faults
FairSpec ==
    /\ LedgerSpec
    /\ WF_maintenanceVars(LoopGoesOn) /\ WF_maintenanceVars(RefreshIndex /\ ~up /\ up')
    /\ WF_maintenanceVars(CheckLedger) /\ WF_maintenanceVars(PushLedger)

----------------------------------------------------------------------------
(* Properties.                                                               *)

LedgerTypeOK ==
    /\ IndexTypeOK
    /\ {memo, copy} \subseteq LedgerState \cup {Nil}
    /\ unpushed \in Seq([ledger : LedgerState, queued : BOOLEAN])
    /\ overlooked \in BOOLEAN

\* The ledger the trunk has when all is published.
Tip == IF unpushed = <<>> THEN trunk[Len(trunk)].ledger ELSE unpushed[Len(unpushed)].ledger

\* What the server remembers as committed, and so never commits again, is what the
\* trunk is going to have; unless the tick believed the index's copy, or the last
\* commit is one that nobody queued.
RememberedLands ==
    memo # Nil /\ ~overlooked =>
        memo = Tip \/ (unpushed # <<>> /\ ~unpushed[Len(unpushed)].queued)

\* The ledger the trunk serves comes to be the state of the corpus as last built,
\* through any number of changes there and back, lost commits and restarts;
\* unless the tick believed the index's copy while a commit of another state was
\* on its way (guard 2 arms the memo, so that ledger is never written again), or
\* a commit nobody queued waits for a restart, or the index itself is stale.
LedgerAccurate ==
    <>[](\/ indexed = maint
         \/ overlooked
         \/ \E n \in DOMAIN unpushed : ~unpushed[n].queued
         \/ ~up \/ db # Len(trunk))
=============================================================================
