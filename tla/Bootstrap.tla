------------------------------ MODULE Bootstrap ------------------------------
(***************************************************************************)
(* Onboarding bootstrap (src/src/data_olympus/tools_onboarding.py), its    *)
(* in-flight guard (onboarding_inflight.py) and the multi-file commit it   *)
(* goes through (tools_write.py): a call looks at the index, claims the    *)
(* slot of its workspace or component, and then either commits its files   *)
(* in one commit or parks them as one bundle of pending entries.           *)
(*                                                                         *)
(* The index knows of a commit only once it was pushed and pulled back.    *)
(* Until then the marker of the slot is all that stands between a second   *)
(* call and a second commit; it expires by itself.                         *)
(*                                                                         *)
(* Abstracted: what a file says (two writes of one path always differ),    *)
(* clocks (a marker may expire at any moment), the order of a bundle, and  *)
(* the pending queue, the push queue and the operator as far as a bundle   *)
(* meets them (modules PendingClaims and PushQueue).  Worktrees are not    *)
(* collected here.                                                         *)
(***************************************************************************)
EXTENDS Naturals, FiniteSets

CONSTANTS
    Calls,      \* calls of kb_bootstrap_project_fn; each has one claim token
    Keys,       \* slots: a workspace, or a component of it
    Sessions,   \* source sessions, each with a worktree of its own
    Files,      \* target paths
    RootOf,     \* the slot a file's canonical place belongs to
    Below,      \* the slots whose files lie under the root of a slot
    Canonical,  \* CANONICAL_T3_FILES and CANONICAL_T4_FILES under each root
    NameOf,     \* the base name of a file
    Requests,   \* what a call may ask for
    ForeignFiles, \* bound: the files other clones push
    None,
    Cap,        \* KB_PENDING_QUEUE_CAP
    MaxFaults   \* bound: crashes and I/O errors in a behaviour

Request == [key : Keys, session : Sessions, files : SUBSET Files]

ASSUME ConstantsAssumption ==
    /\ None \notin Calls
    /\ RootOf \in [Files -> Keys]
    /\ Below \in [Keys -> SUBSET Keys]
    /\ Canonical \in [Keys -> SUBSET Files]
    /\ \A k \in Keys : k \in Below[k] /\ \A f \in Canonical[k] : RootOf[f] = k
    /\ DOMAIN NameOf = Files
    /\ Requests \subseteq Request
    /\ ForeignFiles \subseteq Files
    /\ None \notin Requests
    /\ Cap \in Nat
    /\ MaxFaults \in Nat

VARIABLES
    marker,     \* the claim token in each slot's .inflight file, or None
    expired,    \* the claims whose recorded expiry has passed
    index,      \* the files the index lists, those of the clone's trunk
    trunk,      \* the files on origin
    opened,     \* the sessions that have a worktree
    base,       \* the trunk files under each session branch
    branch,     \* the files of its commits that were not published
    staged,     \* files left in the worktree's git index by `git add`
    untracked,  \* files written to the worktree and not added
    pending,    \* pending bootstrap entries: the file and the bundle
    locked,     \* files under a path lock of the commit path
    serializer, \* the call inside the write serializer, or None
    pc,         \* where each call is
    req,        \* what it was asked
    kept,       \* the files it may write, by the status it saw
    todo,       \* those it still has to enqueue, or to write and add
    outcome,    \* how it ended
    landed,     \* history: the files in its commit
    decided,    \* history: bundles an operator decided an entry of
    replaced,   \* history: bundles of which an entry replaced a file
    dirty,      \* history: sessions a crash or a failed reset left files staged in
    faults      \* crashes and I/O errors so far

guard == <<marker, expired>>
remote == <<index, trunk>>
worktree == <<opened, base, branch, staged, untracked>>
queue == <<pending, locked>>
calls == <<pc, req, kept, todo, outcome>>
history == <<landed, decided, replaced, dirty>>
vars == <<guard, remote, worktree, queue, serializer, calls, history, faults>>

Entry == [file : Files, bundle : Calls]

\* From "admit" to "release" a call holds a claim.
Holding == {"admit", "enqueue", "rollback", "commit", "refresh", "check",
            "write", "add", "record", "release"}

Locations == {"new", "claim", "done"} \cup Holding

\* "raised": an exception other than the ones turned into a response.
\* "lost": raised although the commit is on the branch.
Outcomes == {"none", "refused", "already_onboarded", "parked", "committed",
             "raised", "lost", "crashed"}

-----------------------------------------------------------------------------
(* Helpers.                                                                *)

\* The files under `base`, the root a bootstrap is confined to.
Under(k) == {f \in Files : RootOf[f] \in Below[k]}

\* What the index has directly under a root (exclude_under="components/").
Listed(k) == {f \in index : RootOf[f] = k}

\* compute_status: the canonical files none of the listed ones is named like.
\* A slot is absent, partial or onboarded.
Missing(k) == {c \in Canonical[k] : \A f \in Listed(k) : NameOf[f] # NameOf[c]}
Onboarded(k) == Listed(k) # {} /\ Missing(k) = {}

\* What is left of a bundle: on `absent` all of it, if it lies under the
\* root; on `partial` the missing canonical files.
Admissible(r) ==
    IF Listed(r.key) = {}
    THEN {f \in r.files : r.files \subseteq Under(r.key)}
    ELSE r.files \cap Missing(r.key)

\* What the session branch and the trunk below it have.
Tree(s) == base[s] \cup branch[s]

\* os.path.lexists in the worktree.
OnDisk(s) == Tree(s) \cup staged[s] \cup untracked[s]

Parked == {e.file : e \in pending}
PendingOf(n) == {e \in pending : e.bundle = n}

\* The entries of bundle n are those of the files fs.
Parks(n, fs) == \A f \in Files : [file |-> f, bundle |-> n] \in pending <=> f \in fs

\* A lock file exists for f: an entry's, or a commit's.
Gated(f) == f \in Parked \cup locked

\* git can rebase the session branch onto the trunk: nothing staged, no
\* untracked file in the way and no file added on both sides.
Rebasable(s) ==
    /\ staged[s] = {}
    /\ (untracked[s] \cup branch[s]) \cap (trunk \ base[s]) = {}

Session(n) == req[n].session
Slot(n) == req[n].key

Goto(n, l) == pc' = [pc EXCEPT ![n] = l]
Ends(n, o) == outcome' = [outcome EXCEPT ![n] = o]

Fault == faults < MaxFaults /\ faults' = faults + 1

\* The commit section is left: ExitStack drops the locks, then the serializer.
LeaveCommit(n) ==
    /\ locked' = locked \ kept[n]
    /\ serializer' = None

-----------------------------------------------------------------------------
(* kb_bootstrap_project_fn: the status check, the claim and the release.   *)

\* Any rejection before the claim changes nothing and is not modelled.
Begin(n, r) ==
    /\ pc[n] = "new"
    /\ r.files # {}
    /\ ~Onboarded(r.key)
    /\ req' = [req EXCEPT ![n] = r]
    /\ kept' = [kept EXCEPT ![n] = Admissible(r)]
    /\ Goto(n, "claim")
    /\ UNCHANGED <<guard, remote, worktree, queue, serializer, todo, outcome, history, faults>>

\* _is_expired: the marker is missing or its expiry has passed.
Free(k) == marker[k] \in expired \cup {None}

\* BootstrapInFlight.claim, single-winner under the slot's OS lock.
Claim(n) ==
    /\ pc[n] = "claim"
    /\ IF Free(Slot(n))
       THEN /\ marker' = [marker EXCEPT ![Slot(n)] = n]
            /\ Goto(n, "admit")
            /\ UNCHANGED outcome
       ELSE /\ Goto(n, "done")                  \* rejected_already_in_progress
            /\ Ends(n, "refused")
            /\ UNCHANGED marker
    /\ UNCHANGED <<expired, remote, worktree, queue, serializer, req, kept, todo, history,
                   faults>>

\* The TTL of a claim has passed, whatever its holder is doing.
Expire(k) ==
    /\ marker[k] \notin expired \cup {None}
    /\ expired' = expired \cup {marker[k]}
    /\ UNCHANGED <<marker, remote, worktree, queue, serializer, calls, history, faults>>

\* Mutant of Unmarked: release does not compare the token.
UnmarkedUnfenced(n) == [marker EXCEPT ![Slot(n)] = None]

\* The marker files once n has released its claim, if the marker is still its.
Unmarked(n) == [k \in Keys |-> IF k = Slot(n) /\ marker[k] = n THEN None ELSE marker[k]]

\* Mutant of Release: every outcome releases.
ReleaseAlways(n) ==
    /\ pc[n] = "release"
    /\ marker' = Unmarked(n)
    /\ Goto(n, "done")
    /\ UNCHANGED <<expired, remote, worktree, queue, serializer, req, kept, todo, outcome,
                   history, faults>>

\* The `finally` of the call: only a committed outcome keeps its claim.
Release(n) ==
    /\ pc[n] = "release"
    /\ marker' = IF outcome[n] = "committed" THEN marker ELSE Unmarked(n)
    /\ Goto(n, "done")
    /\ UNCHANGED <<expired, remote, worktree, queue, serializer, req, kept, todo, outcome,
                   history, faults>>

-----------------------------------------------------------------------------
(* _bootstrap_admitted up to the choice between commit and bundle          *)

\* Nothing admissible, or one of the checks of paths, secrets, sizes and
\* rates refuses the call.
Refuse(n) ==
    /\ pc[n] = "admit"
    /\ Ends(n, "refused")
    /\ Goto(n, "release")
    /\ UNCHANGED <<guard, remote, worktree, queue, serializer, req, kept, todo, history,
                   faults>>

\* Confidence, the caller's authority and the governed lane decide whether
\* the bundle is committed at once or parked.
AdmitCommit(n) ==
    /\ pc[n] = "admit"
    /\ kept[n] # {}
    /\ Goto(n, "commit")
    /\ UNCHANGED <<guard, remote, worktree, queue, serializer, req, kept, todo, outcome,
                   history, faults>>

\* It is parked if the queue has room for all of it now.
AdmitBundle(n) ==
    /\ pc[n] = "admit"
    /\ kept[n] # {}
    /\ Cardinality(pending) + Cardinality(kept[n]) <= Cap
    /\ todo' = [todo EXCEPT ![n] = kept[n]]
    /\ Goto(n, "enqueue")
    /\ UNCHANGED <<guard, remote, worktree, queue, serializer, req, kept, outcome, history,
                   faults>>

-----------------------------------------------------------------------------
(* The bundle: one PendingQueue.enqueue per file, undone as a whole when   *)
(* one is refused.                                                         *)

Enqueue(n, f) ==
    /\ pc[n] = "enqueue"
    /\ f \in todo[n]
    /\ serializer = None
    /\ ~Gated(f)
    /\ Cardinality(pending) < Cap
    /\ pending' = pending \cup {[file |-> f, bundle |-> n]}
    /\ todo' = [todo EXCEPT ![n] = @ \ {f}]
    /\ IF todo[n] = {f}
       THEN Ends(n, "parked") /\ Goto(n, "release")
       ELSE UNCHANGED <<outcome, pc>>
    /\ UNCHANGED <<guard, remote, worktree, locked, serializer, req, kept, history, faults>>

\* Mutant of EnqueueRefused: the files that did fit stay.
EnqueueRefusedKept(n, f) ==
    /\ pc[n] = "enqueue"
    /\ f \in todo[n]
    /\ serializer = None
    /\ Gated(f) \/ Cardinality(pending) >= Cap
    /\ Ends(n, "refused")
    /\ Goto(n, "release")
    /\ UNCHANGED <<guard, remote, worktree, queue, serializer, req, kept, todo, history,
                   faults>>

\* PathLockBusyError or PendingQueueFullError.
EnqueueRefused(n, f) ==
    /\ pc[n] = "enqueue"
    /\ f \in todo[n]
    /\ serializer = None
    /\ Gated(f) \/ Cardinality(pending) >= Cap
    /\ Ends(n, "refused")
    /\ Goto(n, "rollback")
    /\ UNCHANGED <<guard, remote, worktree, queue, serializer, req, kept, todo, history,
                   faults>>

\* Any other error is not rolled back; the entry may have been published.
EnqueueRaises(n, f) ==
    /\ pc[n] = "enqueue"
    /\ f \in todo[n]
    /\ serializer = None
    /\ Fault
    /\ \/ UNCHANGED pending
       \/ ~Gated(f) /\ pending' = pending \cup {[file |-> f, bundle |-> n]}
    /\ Ends(n, "raised")
    /\ Goto(n, "release")
    /\ UNCHANGED <<guard, remote, worktree, locked, serializer, req, kept, todo, history>>

\* pending.reject of one entry of the bundle; one that an operator decided
\* meanwhile is passed over.
Rollback(n) ==
    /\ pc[n] = "rollback"
    /\ serializer = None
    /\ \E e \in PendingOf(n) : pending' = pending \ {e}
    /\ UNCHANGED <<guard, remote, worktree, locked, serializer, calls, history, faults>>

\* A reject that fails is suppressed and its entry stays.
RollbackFails(n) ==
    /\ pc[n] = "rollback"
    /\ Fault
    /\ Ends(n, "raised")
    /\ Goto(n, "release")
    /\ UNCHANGED <<guard, remote, worktree, queue, serializer, req, kept, todo, history>>

RolledBack(n) ==
    /\ pc[n] = "rollback"
    /\ PendingOf(n) = {}
    /\ Goto(n, "release")
    /\ UNCHANGED <<guard, remote, worktree, queue, serializer, req, kept, todo, outcome,
                   history, faults>>

-----------------------------------------------------------------------------
(* commit_multifile_in_worktree, in the write serializer                   *)

\* Every path lock or none of them.
CommitBegin(n) ==
    /\ pc[n] = "commit"
    /\ serializer = None
    /\ IF \E f \in kept[n] : Gated(f)
       THEN /\ Ends(n, "refused")               \* rejected_path_lock_busy
            /\ Goto(n, "release")
            /\ UNCHANGED <<locked, serializer>>
       ELSE /\ serializer' = n
            /\ locked' = locked \cup kept[n]
            /\ Goto(n, "refresh")
            /\ UNCHANGED outcome
    /\ UNCHANGED <<guard, remote, worktree, pending, req, kept, todo, history, faults>>

\* get_or_create and refresh_base, whose failures are suppressed.
Refreshed(s) ==
    /\ opened' = opened \cup {s}
    /\ \/ base' = [base EXCEPT ![s] = IF s \in opened THEN @ ELSE index]
       \/ /\ s \in opened => Rebasable(s)
          /\ base' = [base EXCEPT ![s] = trunk]

Refresh(n) ==
    /\ pc[n] = "refresh"
    /\ Refreshed(Session(n))
    /\ Goto(n, "check")
    /\ UNCHANGED <<guard, remote, branch, staged, untracked, queue, serializer, req, kept,
                   todo, outcome, history, faults>>

\* new_files_only: a target that exists in the worktree refuses the bundle.
CheckExists(n) ==
    /\ pc[n] = "check"
    /\ kept[n] \cap OnDisk(Session(n)) # {}
    /\ Ends(n, "already_onboarded")
    /\ LeaveCommit(n)
    /\ Goto(n, "release")
    /\ UNCHANGED <<guard, remote, worktree, pending, req, kept, todo, history, faults>>

\* The other gates: secrets, writing rules, duplicate ids, validation; or the
\* worktree or the commit message could not be made.
CheckRefuses(n) ==
    /\ pc[n] \in {"refresh", "check"}
    /\ Ends(n, IF pc[n] = "check" THEN "refused" ELSE "raised")
    /\ LeaveCommit(n)
    /\ Goto(n, "release")
    /\ UNCHANGED <<guard, remote, worktree, pending, req, kept, todo, history, faults>>

\* Mutant of CheckPasses: without new_files_only.
CheckPassesAnyway(n) ==
    /\ pc[n] = "check"
    /\ todo' = [todo EXCEPT ![n] = kept[n]]
    /\ Goto(n, "write")
    /\ UNCHANGED <<guard, remote, worktree, queue, serializer, req, kept, outcome, history,
                   faults>>

CheckPasses(n) ==
    /\ pc[n] = "check"
    /\ kept[n] \cap OnDisk(Session(n)) = {}
    /\ todo' = [todo EXCEPT ![n] = kept[n]]
    /\ Goto(n, "write")
    /\ UNCHANGED <<guard, remote, worktree, queue, serializer, req, kept, outcome, history,
                   faults>>

WriteFile(n, f) ==
    /\ pc[n] = "write"
    /\ f \in todo[n]
    /\ untracked' = [untracked EXCEPT ![Session(n)] = @ \cup {f}]
    /\ Goto(n, "add")
    /\ UNCHANGED <<guard, remote, opened, base, branch, staged, queue, serializer, req, kept, todo,
                   outcome, history, faults>>

\* `git add` of the file just written.
AddFile(n, f) ==
    /\ pc[n] = "add"
    /\ f \in todo[n] \cap untracked[Session(n)]
    /\ untracked' = [untracked EXCEPT ![Session(n)] = @ \ {f}]
    /\ staged' = [staged EXCEPT ![Session(n)] = @ \cup {f}]
    /\ todo' = [todo EXCEPT ![n] = @ \ {f}]
    /\ Goto(n, IF todo[n] = {f} THEN "record" ELSE "write")
    /\ UNCHANGED <<guard, remote, opened, base, branch, queue, serializer, req, kept, outcome,
                   history, faults>>

\* `git commit` takes whatever is staged.
Committed(n) ==
    /\ branch' = [branch EXCEPT ![Session(n)] = @ \cup staged[Session(n)]]
    /\ staged' = [staged EXCEPT ![Session(n)] = {}]
    /\ landed' = [landed EXCEPT ![n] = staged[Session(n)]]

\* The commit, its sha and its queue entry (_enqueue_after_commit).
GitCommit(n) ==
    /\ pc[n] = "record"
    /\ Committed(n)
    /\ Ends(n, "committed")
    /\ LeaveCommit(n)
    /\ Goto(n, "release")
    /\ UNCHANGED <<guard, remote, opened, base, untracked, pending, req, kept, todo, decided,
                   replaced, dirty, faults>>

\* Mutant of Reset: nothing is reset.
ResetNothing(s) == UNCHANGED <<staged, dirty>>

\* reset_worktree: `git reset --hard HEAD` removes what is staged and leaves
\* untracked files alone.  Its own failure is suppressed.
Reset(s) ==
    \/ staged' = [staged EXCEPT ![s] = {}] /\ UNCHANGED dirty
    \/ UNCHANGED staged /\ dirty' = dirty \cup {s}

\* Writing or adding a file fails; a file that could not be written may exist.
WriteFails(n) ==
    /\ pc[n] \in {"write", "add"}
    /\ Fault
    /\ \/ UNCHANGED untracked
       \/ /\ pc[n] = "write"
          /\ \E f \in todo[n] :
                untracked' = [untracked EXCEPT ![Session(n)] = @ \cup {f}]
    /\ Reset(Session(n))
    /\ Ends(n, "raised")
    /\ LeaveCommit(n)
    /\ Goto(n, "release")
    /\ UNCHANGED <<guard, remote, opened, base, branch, pending, req, kept, todo, landed, decided,
                   replaced>>

CommitFails(n) ==
    /\ pc[n] = "record"
    /\ Fault
    /\ Reset(Session(n))
    /\ Ends(n, "raised")
    /\ LeaveCommit(n)
    /\ Goto(n, "release")
    /\ UNCHANGED <<guard, remote, opened, base, branch, untracked, pending, req, kept, todo, landed,
                   decided, replaced>>

\* git made the commit and was killed, or rev-parse failed: the reset does
\* not take the commit back.
CommitLost(n) ==
    /\ pc[n] = "record"
    /\ Fault
    /\ Committed(n)
    /\ Ends(n, "lost")
    /\ LeaveCommit(n)
    /\ Goto(n, "release")
    /\ UNCHANGED <<guard, remote, opened, base, untracked, pending, req, kept, todo, decided,
                   replaced, dirty>>

-----------------------------------------------------------------------------
(* Around the call                                                         *)

\* An operator approves one entry: it is committed on the session branch of
\* its proposer.  Its base is "HEAD", for which check_cas compares nothing.
Approve(e) ==
    LET s == Session(e.bundle)
    IN  /\ e \in pending
        /\ serializer = None
        /\ Refreshed(s)
        /\ replaced' = IF e.file \in base'[s] \cup branch[s]
                       THEN replaced \cup {e.bundle} ELSE replaced
        /\ branch' = [branch EXCEPT ![s] = @ \cup staged[s] \cup {e.file}]
        /\ staged' = [staged EXCEPT ![s] = {}]
        /\ untracked' = [untracked EXCEPT ![s] = @ \ {e.file}]
        /\ pending' = pending \ {e}
        /\ decided' = decided \cup {e.bundle}
        /\ UNCHANGED <<guard, remote, locked, serializer, calls, landed, dirty, faults>>

\* An operator or the expiry rejects one entry.
Reject(e) ==
    /\ e \in pending
    /\ serializer = None
    /\ pending' = pending \ {e}
    /\ decided' = decided \cup {e.bundle}
    /\ UNCHANGED <<guard, remote, worktree, locked, serializer, calls, landed, replaced,
                   dirty, faults>>

\* The push queue publishes a session's commits; one that conflicts with the
\* trunk stays on the branch.
Publish(s) ==
    /\ serializer = None
    /\ s \in opened /\ branch[s] # {}
    /\ base[s] = trunk \/ Rebasable(s)
    /\ trunk' = trunk \cup branch[s]
    /\ base' = [base EXCEPT ![s] = trunk \cup branch[s]]
    /\ branch' = [branch EXCEPT ![s] = {}]
    /\ UNCHANGED <<guard, index, opened, staged, untracked, queue, serializer, calls, history, faults>>

\* Another clone pushes a file.
ForeignPush(f) ==
    /\ f \in ForeignFiles \ trunk
    /\ trunk' = trunk \cup {f}
    /\ UNCHANGED <<guard, index, worktree, queue, serializer, calls, history, faults>>

\* git_pull_loop: fast-forward the clone and rebuild the index.
Pull ==
    /\ index # trunk
    /\ index' = trunk
    /\ UNCHANGED <<guard, trunk, worktree, queue, serializer, calls, history, faults>>

\* The process dies and starts again: markers, locks, entries and worktrees
\* are on disk, the calls and the serializer are not.
Crash ==
    /\ Fault
    /\ \E n \in Calls : pc[n] \notin {"new", "done"}
    /\ pc' = [n \in Calls |-> IF pc[n] = "new" THEN "new" ELSE "done"]
    /\ outcome' = [n \in Calls |-> IF pc[n] \in {"new", "done"} THEN outcome[n]
                                   ELSE "crashed"]
    /\ dirty' = dirty \cup {s \in Sessions : staged[s] # {}}
    /\ serializer' = None
    /\ UNCHANGED <<guard, remote, worktree, queue, req, kept, todo, landed, decided, replaced>>

\* reclaim_stale_auto_commit_locks: nobody who took these locks still runs.
ReclaimLocks ==
    /\ serializer = None
    /\ locked # {}
    /\ locked' = {}
    /\ UNCHANGED <<guard, remote, worktree, pending, serializer, calls, history, faults>>

-----------------------------------------------------------------------------

Init ==
    /\ marker = [k \in Keys |-> None]
    /\ expired = {}
    /\ index = {}
    /\ trunk = {}
    /\ opened = {}
    /\ base = [s \in Sessions |-> {}]
    /\ branch = [s \in Sessions |-> {}]
    /\ staged = [s \in Sessions |-> {}]
    /\ untracked = [s \in Sessions |-> {}]
    /\ pending = {}
    /\ locked = {}
    /\ serializer = None
    /\ pc = [n \in Calls |-> "new"]
    /\ req = [n \in Calls |-> None]
    /\ kept = [n \in Calls |-> {}]
    /\ todo = [n \in Calls |-> {}]
    /\ outcome = [n \in Calls |-> "none"]
    /\ landed = [n \in Calls |-> {}]
    /\ decided = {}
    /\ replaced = {}
    /\ dirty = {}
    /\ faults = 0

Guarded(n) ==
    \/ \E r \in Requests : Begin(n, r)
    \/ Claim(n) \/ Release(n)
    \/ Refuse(n) \/ AdmitCommit(n) \/ AdmitBundle(n)

Bundle(n) ==
    \/ \E f \in Files : Enqueue(n, f) \/ EnqueueRefused(n, f) \/ EnqueueRaises(n, f)
    \/ Rollback(n) \/ RollbackFails(n) \/ RolledBack(n)

MultiCommit(n) ==
    \/ CommitBegin(n) \/ Refresh(n)
    \/ CheckExists(n) \/ CheckRefuses(n) \/ CheckPasses(n)
    \/ \E f \in Files : WriteFile(n, f) \/ AddFile(n, f)
    \/ GitCommit(n) \/ WriteFails(n) \/ CommitFails(n) \/ CommitLost(n)

Next ==
    \/ \E n \in Calls : Guarded(n) \/ Bundle(n) \/ MultiCommit(n)
    \/ \E k \in Keys : Expire(k)
    \/ \E e \in Entry : Approve(e) \/ Reject(e)
    \/ \E s \in Sessions : Publish(s)
    \/ \E f \in Files : ForeignPush(f)
    \/ Pull \/ Crash \/ ReclaimLocks

Spec == Init /\ [][Next]_vars

-----------------------------------------------------------------------------
(* Properties                                                              *)

\* Every variable has its type, and what a call may write lies under the root
\* it onboards, whatever status it saw (docs/serving.md, "Bootstrap scope").
TypeOK ==
    /\ marker \in [Keys -> Calls \cup {None}]
    /\ expired \subseteq Calls
    /\ index \subseteq Files
    /\ trunk \subseteq Files
    /\ opened \subseteq Sessions
    /\ base \in [Sessions -> SUBSET Files]
    /\ branch \in [Sessions -> SUBSET Files]
    /\ staged \in [Sessions -> SUBSET Files]
    /\ untracked \in [Sessions -> SUBSET Files]
    /\ pending \subseteq Entry
    /\ locked \subseteq Files
    /\ serializer \in Calls \cup {None}
    /\ pc \in [Calls -> Locations]
    /\ req \in [Calls -> Requests \cup {None}]
    /\ kept \in [Calls -> SUBSET Files]
    /\ todo \in [Calls -> SUBSET Files]
    /\ outcome \in [Calls -> Outcomes]
    /\ landed \in [Calls -> SUBSET Files]
    /\ decided \subseteq Calls
    /\ replaced \subseteq Calls
    /\ dirty \subseteq Sessions
    /\ faults \in Nat
    /\ \A n \in Calls : pc[n] # "new" => req[n] # None
    /\ \A e \in pending : pc[e.bundle] # "new"
    /\ \A n \in Calls : req[n] # None => kept[n] \subseteq Under(Slot(n))

\* The calls that are inside their slot: at work, or committed and waiting
\* for the index to show it.
Inside(n) == pc[n] \in Holding \/ outcome[n] = "committed"

\* A claim that has not expired is on disk for as long as its call is inside:
\* no other call's claim, release or failure takes it away, so that at most
\* one unexpired call is inside a slot (token-checked release, claim under
\* the slot's lock).
SlotHeld ==
    \A n \in Calls : Inside(n) /\ n \notin expired => marker[Slot(n)] = n

\* No slot is wedged: an unexpired marker belongs to a call that is inside,
\* or to one a crash cut short (every outcome but a commit releases).
SlotFreed ==
    \A k \in Keys : LET n == marker[k] IN
        n \notin expired \cup {None} => Inside(n) \/ outcome[n] = "crashed"

\* One bootstrap of a slot does not repeat another's files before the
\* convergence window is over, unless the first failed with its commit on the
\* branch, where it released its claim.
SingleBootstrap ==
    \A m, n \in Calls :
        /\ m # n
        /\ landed[m] # {} /\ landed[n] # {}
        /\ Slot(m) = Slot(n)
        /\ kept[m] \cap kept[n] # {}
        => \E c \in {m, n} : c \in expired \/ outcome[c] = "lost"

\* On one session branch no file is created by two bootstraps, also across
\* slots, expiries, failures and failed refreshes (new_files_only).
OncePerSession ==
    \A m, n \in Calls :
        /\ m # n
        /\ landed[m] # {} /\ landed[n] # {}
        /\ Session(m) = Session(n)
        => kept[m] \cap kept[n] = {}

\* A bundle is parked as a whole or not at all, unless an operator decided
\* some of it, an enqueue or a rollback failed, or the process died.
BundleWhole ==
    \A n \in Calls : pc[n] = "done" /\ n \notin decided =>
        /\ outcome[n] = "parked" => Parks(n, kept[n])
        /\ outcome[n] \in {"refused", "already_onboarded", "committed", "lost"}
              => Parks(n, {})

\* A bootstrap commit has exactly the files of its bundle: nothing of an
\* earlier failed one is swept into it (reset_worktree), unless a crash or a
\* failed reset left it staged.
CommitsWhole ==
    \A n \in Calls :
        landed[n] # {} /\ Session(n) \notin dirty => landed[n] = kept[n]

\* While a bundle is being written, no proposal is parked on a path of it,
\* and none of its paths is anybody else's.
CommitPathsExclusive ==
    \A n \in Calls : pc[n] \in {"refresh", "check", "write", "add", "record"} =>
        /\ kept[n] \cap Parked = {}
        /\ kept[n] \subseteq locked

(* The strengthening that makes the properties above inductive.            *)

Section == {"refresh", "check", "write", "add", "record"}
Writing == {"write", "add", "record"}

\* A call that has not claimed yet has neither an outcome nor a marker; a
\* marker is for the slot of its call.
CallStages ==
    /\ \A n \in Calls : pc[n] \in {"new", "claim"} => outcome[n] = "none"
    /\ \A k \in Keys : \A n \in Calls :
          marker[k] = n => pc[n] \notin {"new", "claim"} /\ Slot(n) = k
    /\ \A n \in Calls : outcome[n] = "crashed" => pc[n] = "done"

\* A commit outlives its call, and so does its claim until it expires.
LandedHeld ==
    \A n \in Calls : landed[n] # {} =>
        /\ pc[n] \in {"release", "done"}
        /\ outcome[n] \in {"committed", "lost", "crashed"}
        /\ outcome[n] # "lost" /\ n \notin expired => marker[Slot(n)] = n

\* One call at a time is in the commit section.
SectionExclusive == \A n \in Calls : pc[n] \in Section => serializer = n

\* Worktrees hold what the trunk has and what was committed in them; what a
\* call writes is new to its worktree, and what it has written is staged.
TreesGrow ==
    /\ index \subseteq trunk
    /\ \A s \in Sessions :
          base[s] \subseteq trunk /\ (s \notin opened => base[s] = {})
    /\ \A n \in Calls : landed[n] # {} => kept[n] \subseteq Tree(Session(n))

WritesNew ==
    \A n \in Calls :
        /\ pc[n] \in Writing =>
              /\ kept[n] \cap Tree(Session(n)) = {}
              /\ todo[n] \subseteq kept[n]
              /\ kept[n] \ todo[n] \subseteq staged[Session(n)]
        /\ pc[n] = "record" => todo[n] = {}

StagedByWriter ==
    \A s \in Sessions \ dirty :
        /\ staged[s] # {} => \E n \in Calls : pc[n] \in Writing /\ Session(n) = s
        /\ \A n \in Calls : pc[n] \in Writing /\ Session(n) = s =>
              staged[s] = kept[n] \ todo[n]

\* What a bundle has in the queue while it is being parked.
Progress(n) ==
    /\ pc[n] \notin {"enqueue", "rollback", "release", "done"} => Parks(n, {})
    /\ pc[n] = "enqueue" => todo[n] \subseteq kept[n] /\ Parks(n, kept[n] \ todo[n])
    /\ pc[n] \in {"release", "done"} =>
          /\ outcome[n] = "parked" => Parks(n, kept[n])
          /\ outcome[n] \in {"refused", "already_onboarded", "committed", "lost"}
                => Parks(n, {})
    /\ pc[n] = "rollback" => outcome[n] = "refused"
    /\ pc[n] \in Holding \ {"rollback", "release"} => outcome[n] = "none"

BundleProgress == \A n \in Calls \ decided : Progress(n)

\* The inductive invariant: the slots, the commit section and the worktrees,
\* and the bundles, each closed under every step given the others.
IInv ==
    /\ TypeOK
    /\ CallStages /\ SlotHeld /\ SlotFreed /\ LandedHeld
    /\ SectionExclusive /\ CommitPathsExclusive
    /\ TreesGrow /\ WritesNew /\ StagedByWriter /\ OncePerSession /\ CommitsWhole
    /\ BundleProgress
=============================================================================
