--------------------------- MODULE SessionWorktrees ---------------------------
(* The worktree of every session: created by the write that needs it, its      *)
(* branch pushed from it, collected when idle. Writers and the collector hold  *)
(* the write serializer; the maintenance ledger looks into the worktree of the *)
(* system session without it. A rebase cut short leaves the HEAD of a worktree *)
(* detached; the collector and the push look at HEAD, the deletion takes the   *)
(* branch. src/data_olympus/worktrees.py, the worktree operations of           *)
(* git_ops.py, worktree_gc_loop of refresh.py. That a rebase may find a commit *)
(* upstream already is left out: a branch is ahead until it is pushed.         *)
EXTENDS Naturals

CONSTANTS
    Sessions,
    System,         \* the session of the maintenance ledger
    Nil,
    MaxWrites,      \* bounds the writes
    MaxFaults       \* bounds crashes and failing git commands

ASSUME WorktreesAssumption ==
    /\ System \in Sessions /\ Nil # "gc" /\ Sessions \cap {Nil, "gc"} = {}
    /\ {MaxWrites, MaxFaults} \subseteq Nat

VARIABLES
    dir,            \* the worktree: "none", "there", or "cut": its directory is
                    \* gone and git still has it registered
    branch,         \* kb-session/<id>: "none", "even", or "ahead" of the trunk
    head,           \* HEAD of the worktree: on its "branch", or detached by a
                    \* rebase cut short, "even" with or "ahead" of the trunk
    meta,           \* <id>.meta.json: "none", last_activity "fresh" or "old"
    claim,          \* the claims whose write began here and that have no outcome
                    \* yet, by the ref they record: the "branch", or "HEAD"
    lock,           \* who has the write serializer: a session, "gc" or Nil
    writer,         \* where the session's write is
    reader,         \* where the ledger's look into its worktree is
    gc, target,     \* where the collector is, and with which session
    parked,         \* sessions with a commit the push loop has given up
    writes, faults

tree == <<dir, branch, head>>
disk == <<tree, meta, claim, parked>>
actors == <<lock, writer, reader, gc, target>>
vars == <<disk, actors, writes, faults>>

Init ==
    /\ dir = [s \in Sessions |-> "none"] /\ branch = [s \in Sessions |-> "none"]
    /\ head = [s \in Sessions |-> "branch"] /\ parked = {}
    /\ meta = [s \in Sessions |-> "none"] /\ claim = [s \in Sessions |-> {}]
    /\ lock = Nil /\ writer = [s \in Sessions |-> "idle"]
    /\ reader = "idle" /\ gc = "idle" /\ target = Nil
    /\ writes = 0 /\ faults = 0

Fault == faults < MaxFaults /\ faults' = faults + 1

Detached(s) == head[s] # "branch"

\* _has_unpushed_commits: rev-list of HEAD, whatever the branch holds.
Unpushed(s) == IF Detached(s) THEN head[s] = "ahead" ELSE branch[s] = "ahead"

\* claims_at_risk for the ref HEAD names in a worktree: a detached one names
\* "HEAD", whatever session the claim was made in.
Deferred(s) ==
    IF Detached(s) THEN \E r \in Sessions : "HEAD" \in claim[r] ELSE "branch" \in claim[s]

\* A rebase killed at its timeout, or by the end of the process, is not aborted.
CutShort(s) ==
    /\ ~Detached(s) /\ ~Deferred(s)
    /\ \E h \in {"even", "ahead"} : head' = [head EXCEPT ![s] = h]

\* refresh_base: deferred, failed or done; killed; or begun where one was cut
\* short, which fails at once and is aborted: back to the branch.
Refresh(s) ==
    \/ UNCHANGED <<head, faults>>
    \/ CutShort(s) /\ Fault
    \/ /\ Detached(s) /\ ~Deferred(s)
       /\ head' = [head EXCEPT ![s] = "branch"] /\ UNCHANGED faults

----------------------------------------------------------------------------
(* get_or_create.                                                            *)

Known(s) == dir[s] = "there" /\ meta[s] # "none"

\* git worktree add: nothing to do where there is a worktree, on the branch left
\* behind where there is one, refused where git still has the path registered.
WorktreeAdd(s) ==
    /\ dir[s] # "cut"
    /\ dir' = [dir EXCEPT ![s] = "there"]
    /\ branch' = [branch EXCEPT ![s] = IF @ = "none" THEN "even" ELSE @]
    /\ head' = IF dir[s] = "there" THEN head ELSE [head EXCEPT ![s] = "branch"]

Stamp(s) == meta' = [meta EXCEPT ![s] = "fresh"]

WriteBegin(s) ==
    /\ lock = Nil /\ writer[s] = "idle" /\ writes < MaxWrites
    /\ writes' = writes + 1 /\ lock' = s
    /\ writer' = [writer EXCEPT ![s] = IF Known(s) THEN "ready" ELSE "create"]
    /\ IF Known(s) THEN Stamp(s) ELSE UNCHANGED meta
    /\ UNCHANGED <<tree, claim, parked, reader, gc, target, faults>>

WriteCreate(s) ==
    /\ writer[s] = "create" /\ WorktreeAdd(s)
    /\ writer' = [writer EXCEPT ![s] = "meta"]
    /\ UNCHANGED <<meta, claim, parked, lock, reader, gc, target, writes, faults>>

WriteRefused(s) ==
    /\ writer[s] = "create" /\ dir[s] = "cut"
    /\ writer' = [writer EXCEPT ![s] = "idle"] /\ lock' = Nil
    /\ UNCHANGED <<disk, reader, gc, target, writes, faults>>

WriteMeta(s) ==
    /\ writer[s] = "meta" /\ Stamp(s)
    /\ writer' = [writer EXCEPT ![s] = "ready"]
    /\ UNCHANGED <<tree, claim, parked, lock, reader, gc, target, writes, faults>>

\* refresh_base, whose failure need not end the write.
WriteRefresh(s) ==
    /\ writer[s] = "ready" /\ Refresh(s)
    /\ writer' = [writer EXCEPT ![s] = "refreshed"]
    /\ UNCHANGED <<dir, branch, meta, claim, parked, lock, reader, gc, target, writes>>

\* The write commits on HEAD or is refused; a decision's may end without a known
\* outcome, and its claim records what HEAD names.
WriteEnd(s) ==
    /\ writer[s] = "refreshed"
    /\ \/ UNCHANGED <<branch, head>>
       \/ Detached(s) /\ head' = [head EXCEPT ![s] = "ahead"] /\ UNCHANGED branch
       \/ ~Detached(s) /\ branch' = [branch EXCEPT ![s] = "ahead"] /\ UNCHANGED head
    /\ \E unknown \in SUBSET {IF Detached(s) THEN "HEAD" ELSE "branch"} :
        claim' = [claim EXCEPT ![s] = @ \cup unknown]
    /\ writer' = [writer EXCEPT ![s] = "idle"] /\ lock' = Nil
    /\ UNCHANGED <<dir, meta, parked, reader, gc, target, writes, faults>>

\* The ledger's look, from the pull loop's thread: no serializer.
LookBegin ==
    /\ reader = "idle"
    /\ reader' = IF Known(System) THEN "touch" ELSE "create"
    /\ UNCHANGED <<disk, lock, writer, gc, target, writes, faults>>

\* touch reads the metadata, and writes it back in a step of its own.
LookTouch ==
    /\ reader = "touch"
    /\ reader' = IF meta[System] = "none" THEN "idle" ELSE "meta"
    /\ UNCHANGED <<disk, lock, writer, gc, target, writes, faults>>

LookCreate ==
    /\ reader = "create"
    /\ IF dir[System] = "cut" THEN reader' = "idle" /\ UNCHANGED tree
       ELSE WorktreeAdd(System) /\ reader' = "meta"
    /\ UNCHANGED <<meta, claim, parked, lock, writer, gc, target, writes, faults>>

LookMeta ==
    /\ reader = "meta" /\ Stamp(System) /\ reader' = "idle"
    /\ UNCHANGED <<tree, claim, parked, lock, writer, gc, target, writes, faults>>

----------------------------------------------------------------------------
(* The other loops.                                                          *)

\* The push loop gets HEAD onto the trunk, and with a detached one not the branch.
Push(s) ==
    /\ dir[s] = "there" /\ Unpushed(s) /\ s \notin parked
    /\ IF Detached(s) THEN head' = [head EXCEPT ![s] = "even"] /\ UNCHANGED branch
       ELSE branch' = [branch EXCEPT ![s] = "even"] /\ UNCHANGED head
    /\ UNCHANGED <<dir, meta, claim, parked, actors, writes, faults>>

\* A push that is not a fast-forward: refresh_base, with the serializer.
PushRefresh(s) ==
    /\ lock = Nil /\ dir[s] = "there" /\ Unpushed(s) /\ s \notin parked
    /\ Refresh(s)
    /\ UNCHANGED <<dir, branch, meta, claim, parked, actors, writes>>

\* A commit is demoted, frozen or abandoned: it stays where it is, and the queue
\* does not try it again.
Park(s) ==
    /\ dir[s] = "there" /\ Unpushed(s) /\ parked' = parked \cup {s}
    /\ UNCHANGED <<tree, meta, claim, actors, writes, faults>>

\* An operator requeues it, or a later commit's push takes it along.
Unpark(s) ==
    /\ s \in parked /\ parked' = parked \ {s}
    /\ UNCHANGED <<tree, meta, claim, actors, writes, faults>>

\* A claim's outcome is found. One whose commit is not stays uncertain, for ever.
Reconcile(s) ==
    /\ \E ref \in claim[s] : claim' = [claim EXCEPT ![s] = @ \ {ref}]
    /\ UNCHANGED <<tree, meta, parked, actors, writes, faults>>

Age(s) ==
    /\ meta[s] = "fresh" /\ meta' = [meta EXCEPT ![s] = "old"]
    /\ UNCHANGED <<tree, claim, parked, actors, writes, faults>>

----------------------------------------------------------------------------
(* gc.                                                                       *)

GcTo(stage) == gc' = stage
GcLeave == gc' = "idle" /\ target' = Nil /\ lock' = Nil

\* Idle and pushed, without the serializer. A worktree without metadata is not
\* considered.
GcPick(s) ==
    /\ gc = "idle" /\ dir[s] = "there" /\ meta[s] = "old" /\ ~Unpushed(s)
    /\ GcTo("picked") /\ target' = s
    /\ UNCHANGED <<disk, lock, writer, reader, writes, faults>>

\* Mutant of GcLock: what was found before the serializer was taken still holds.
GcLockUnchecked ==
    /\ gc = "picked" /\ lock = Nil
    /\ IF "branch" \in claim[target] THEN GcLeave
       ELSE lock' = "gc" /\ GcTo("remove") /\ UNCHANGED target
    /\ UNCHANGED <<disk, writer, reader, writes, faults>>

\* With the serializer: HEAD is pushed still, and no claim on the branch is at
\* risk. That the session is idle still is not asked again.
GcLock ==
    /\ gc = "picked" /\ lock = Nil
    /\ IF Unpushed(target) \/ "branch" \in claim[target] THEN GcLeave
       ELSE lock' = "gc" /\ GcTo("remove") /\ UNCHANGED target
    /\ UNCHANGED <<disk, writer, reader, writes, faults>>

\* The worktree goes. What its HEAD was is kept here until there is another.
GcRemove ==
    /\ gc = "remove"
    /\ dir' = [dir EXCEPT ![target] = "none"]
    /\ GcTo("branch")
    /\ UNCHANGED <<branch, head, meta, claim, parked, lock, target, writer, reader, writes,
                   faults>>

\* Mutant of GcRemoveFails: the exception leaves the serializer taken.
GcRemoveFailsLocked ==
    /\ gc = "remove" /\ Fault
    /\ gc' = "idle" /\ target' = Nil
    /\ UNCHANGED <<disk, lock, writer, reader, writes>>

\* git refuses: deferred to a later pass.
GcRemoveFails ==
    /\ gc = "remove" /\ Fault
    /\ GcLeave
    /\ UNCHANGED <<disk, writer, reader, writes>>

\* git branch -D, whose failure is not looked at: a branch checked out again in a
\* worktree stays.
GcBranch ==
    /\ gc = "branch"
    /\ IF dir[target] = "there" THEN UNCHANGED branch
       ELSE branch' = [branch EXCEPT ![target] = "none"]
    /\ GcTo("unlink")
    /\ UNCHANGED <<dir, head, meta, claim, parked, lock, target, writer, reader, writes,
                   faults>>

GcUnlink ==
    /\ gc = "unlink"
    /\ meta' = [meta EXCEPT ![target] = "none"]
    /\ GcLeave
    /\ UNCHANGED <<tree, claim, parked, writer, reader, writes, faults>>

\* Where a rebase may be under way.
Rebasing(s) ==
    /\ dir[s] = "there"
    /\ writer[s] = "ready" \/ (lock = Nil /\ Unpushed(s) /\ s \notin parked)

\* The process dies and is started again; a removal may be cut off in git, which
\* deletes the directory before it forgets the worktree, and so may a rebase.
Crash ==
    /\ Fault
    /\ lock' = Nil /\ writer' = [s \in Sessions |-> "idle"] /\ reader' = "idle"
    /\ gc' = "idle" /\ target' = Nil
    /\ \/ UNCHANGED <<dir, head>>
       \/ /\ gc = "remove" /\ dir[target] = "there"
          /\ dir' = [dir EXCEPT ![target] = "cut"] /\ UNCHANGED head
       \/ /\ \E s \in Sessions : Rebasing(s) /\ CutShort(s)
          /\ UNCHANGED dir
    /\ UNCHANGED <<branch, meta, claim, parked, writes>>

Look == LookBegin \/ LookTouch \/ LookCreate \/ LookMeta
Write(s) == WriteCreate(s) \/ WriteRefused(s) \/ WriteMeta(s) \/ WriteRefresh(s) \/ WriteEnd(s)
Publish(s) == Push(s) \/ PushRefresh(s) \/ Park(s) \/ Unpark(s)
Collect == (\E s \in Sessions : GcPick(s)) \/ GcLock \/ GcRemove \/ GcBranch \/ GcUnlink

Next ==
    \/ \E s \in Sessions : WriteBegin(s) \/ Write(s) \/ Publish(s) \/ Reconcile(s) \/ Age(s)
    \/ Look \/ Collect \/ GcRemoveFails \/ Crash

Spec == Init /\ [][Next]_vars

\* Threads go on, and the loops repeat. A session need not write again, the
\* ledger need not look again, no operator need act, and no claim need find its
\* outcome; a push that may have to rebase succeeds in the end only where no
\* claim defers that. Every pass of the collector considers every session, so
\* one that keeps being eligible between passes has its turn.
FairSpec ==
    /\ Spec
    /\ \A s \in Sessions :
        WF_vars(Write(s)) /\ WF_vars(~Deferred(s) /\ Push(s)) /\ WF_vars(Age(s))
    /\ WF_vars(LookTouch \/ LookCreate \/ LookMeta)
    /\ \A s \in Sessions : SF_vars(GcPick(s))
    /\ WF_vars(GcLock) /\ WF_vars(GcRemove \/ GcBranch \/ GcUnlink)

----------------------------------------------------------------------------
(* Properties.                                                               *)

\* What is not on the trunk stays where the push loop and the claim search look
\* for it: no collection takes the worktree of an unpushed commit, or worktree or
\* branch of a claim without an outcome that names the branch. Of a worktree that
\* a rebase cut short left detached this holds of what HEAD has, and not of what
\* only the branch has: the collector asks about HEAD and deletes the branch.
UnpushedKept ==
    \A s \in Sessions :
        /\ head[s] = "ahead" => dir[s] = "there"
        /\ branch[s] = "ahead" /\ ~Detached(s) => dir[s] = "there"
        /\ "branch" \in claim[s] => dir[s] = "there" /\ branch[s] # "none"

\* The push of the session's commits has been given up (demoted, frozen or
\* abandoned), or a claim that has no outcome defers its rebase: such a worktree
\* is kept, for ever if no operator acts.
HeldUp(s) == s \in parked \/ Deferred(s)

\* The worktree of a session that stops writing is collected, whatever failed and
\* whoever looked meanwhile; unless its commits are held up, or its metadata is
\* missing, for which a crash, or the ledger's look in the middle of a collection,
\* is the reason, and which only the session's next write repairs.
IdleCollected ==
    \A s \in Sessions : (<>[](s # System \/ reader = "idle")) =>
        []<>(dir[s] # "there" \/ meta[s] = "none" \/ HeldUp(s))
=============================================================================
